-------------------------- MODULE ConservationProofs --------------------------
(* Proof that the pipelines of StreamingPipeline conserve their bytes.        *)
(*                                                                            *)
(* Every buffer of a pipeline holds a segment of the source, stderr aside,    *)
(* and the segments of neighbours meet, except where a stage threw bytes      *)
(* away; such a stage takes no more, and it or a stage further on has failed  *)
(* or had enough.  The proof has three layers: what a part of a poll does     *)
(* with the bytes it finds (Moves, Drops, Starts), where the bytes of the     *)
(* polled stage are afterwards (Lands), and what that means for the pipeline  *)
(* (Order, FlowInv).                                                          *)
EXTENDS StreamingPipelineProofs

-----------------------------------------------------------------------------
(* The invariant.                                                             *)

(* The bytes of the source from position a, not included, to position b.      *)
Seg(a, b) == SubSeq(Source, a + 1, b)

(* A buffer holds just these bytes, merged stderr aside.                      *)
Piece(buf, a, b) == a <= b /\ Payload(buf) = Seg(a, b)

(* What a stage has for its output, in the order in which it will leave.      *)
Staged(s) == IF s.kind \in Buffering THEN s.file ELSE <<>>
Behind(s) == s.inbox \o (s.stdin \o Staged(s))
HeldBy(s) == s.pend \o Behind(s)

(* An error beside the status 0 of an early exit hides a failure.             *)
Trusty == ~({"exit", "error"} \subseteq Faults)

(* A stage that will not read on though its input has not ended: it has       *)
(* failed for good, or it is a head that has got what it wanted.              *)
Gave(s) == (s.rc # 0 /\ ~s.live) \/ (s.kind = "head" /\ s.left = 0)
Cause(i) == \E j \in (i + 1)..N : Gave(st[j])

(* What a stage's buffers look like between two polls: stderr is not mixed    *)
(* with output, only a child has an input, which is empty once it is closed   *)
(* or the child gone, and a buffered first stage makes its output when it     *)
(* runs its command.                                                          *)
Sane(s, i) ==
    /\ Payload(s.se) = <<>>
    /\ s.kind # "external" => s.inbox = <<>> /\ s.stdin = <<>>
    /\ s.kind = "external" =>
           /\ ~s.live \/ s.sclosed => s.stdin = <<>>
           /\ ~s.live => s.status = s.rc
           /\ s.live /\ s.status # NoStatus /\ "exit" \notin Faults => s.sclosed
    /\ s.kind \in Buffering /\ i = 1 => s.file = <<>> /\ (~s.eof => s.pend = <<>>)

(* A stage that has seen the end of its input: the input is closed by its     *)
(* writer, or for a child by its reader.                                      *)
AtEnd(s, p, i) ==
    /\ s.kind \in {"read", "tee"} /\ s.eof => p.write_closed \/ s.rc # 0
    /\ s.kind = "head" /\ s.eof => s.left = 0
    /\ s.kind = "external" /\ s.live /\ s.sclosed /\ i > 1 => p.read_closed

(* Why an end of pipe i is closed: its writer is done; its reader has seen    *)
(* that or some stage further on has given up.                                *)
Reasoned(i) ==
    /\ pipes[i].write_closed => st[i].fin
    /\ st[i].fin => done[i] \/ st[i].kind = "external"
    /\ Trusty /\ pipes[i].read_closed => pipes[i].write_closed \/ Cause(i)

Order ==
    /\ Kinds[1] \in {"read", "external"} \cup Buffering
    /\ phase # "over" =>
           \A i \in 1..N : Sane(st[i], i) /\ AtEnd(st[i], pipes[i - 1], i) /\ Reasoned(i)

(* Stage i has thrown bytes away; it takes no more and there is a reason.     *)
Lost(i) ==
    /\ \/ phase = "over"
       \/ st[i].kind = "external" /\ ~st[i].live
       \/ st[i].kind \in Buffering /\ done[i]
    /\ Trusty => Gave(st[i]) \/ Cause(i)

(* A first stage that makes its data itself does not read pipes[0].           *)
Linked(i) == i > 1 \/ Kinds[1] = "read"

(* put[i] bytes of the source have been written to pipe i and got[i] of them  *)
(* have been read; stage i has had have[i] of them.                           *)
Flows(put, have, got) ==
    /\ Piece(out, 0, got[N])
    /\ \A i \in 0..N : Piece(pipes[i].data, got[i], put[i])
    /\ put[0] = Len(Source)
    /\ \A i \in 1..N :
           /\ Piece(HeldBy(st[i]), put[i], have[i])
           /\ Linked(i) => have[i] <= got[i - 1] /\ (have[i] # got[i - 1] => Lost(i))
    /\ Kinds[1] \in Buffering /\ ~st[1].eof => put[1] = 0

Place == 0..Len(Source)
FlowInv == \E put, have, got \in [0..N -> Place] : Flows(put, have, got)

-----------------------------------------------------------------------------
(* What a buffer holds besides stderr.                                        *)

(* The definition of Payload, unfolded.                                       *)
Sifted(buf, f) ==
    /\ f \in [0..Len(buf) -> Seq(Nat)] /\ f[0] = <<>>
    /\ \A k \in 1..Len(buf) : f[k] = IF buf[k] = 0 THEN f[k - 1] ELSE Append(f[k - 1], buf[k])

(* Payload takes a buffer byte by byte.                                       *)
LEMMA PayloadSifts ==
  ASSUME NEW buf \in Seq(Nat)
  PROVE  \E f : Sifted(buf, f) /\ Payload(buf) = f[Len(buf)]
<1> DEFINE n == Len(buf)
           Step(s, k) == IF buf[k] = 0 THEN s ELSE Append(s, buf[k])
           g == [k \in 1..n |-> [s \in Seq(Nat) |-> Step(s, k)]]
           P == CHOOSE F : F = [k \in 0..n |-> IF k = 0 THEN <<>> ELSE Step(F[k - 1], k)]
<1>1. n \in Nat /\ <<>> \in Seq(Nat)
  OBVIOUS
<1>2. \A k \in 1..n, s \in Seq(Nat) : Step(s, k) \in Seq(Nat)
  OBVIOUS
<1>3. Payload(buf) = P[n]
  BY DEF Payload
<1>4. \A s, k : Step(s, k) = IF buf[k] = 0 THEN s ELSE Append(s, buf[k])
  OBVIOUS
<1> HIDE DEF n, Step
<1>5. g \in [1..n -> [Seq(Nat) -> Seq(Nat)]]
  BY <1>2
<1>6. \A k \in 1..n, s \in Seq(Nat) : g[k][s] = Step(s, k)
  OBVIOUS
<1> HIDE DEF g
<1>7. PICK f : f \in [0..n -> Seq(Nat)] /\ f[0] = <<>> /\ \A k \in 1..n : f[k] = g[k][f[k - 1]]
  <2>1. \E f : Iterates(f, n, Seq(Nat), <<>>, g)
    BY <1>1, <1>5, ByRecursion DEF Steps
  <2> QED BY <2>1 DEF Iterates
<1>8. f = [k \in 0..n |-> IF k = 0 THEN <<>> ELSE Step(f[k - 1], k)]
  <2>1. \A k \in 1..n : f[k - 1] \in Seq(Nat) /\ g[k][f[k - 1]] = Step(f[k - 1], k)
    BY <1>1, <1>6, <1>7
  <2>2. \A k \in 0..n : f[k] = IF k = 0 THEN <<>> ELSE Step(f[k - 1], k)
    BY <1>1, <1>7, <2>1
  <2> QED BY <1>7, <2>2
<1>9. P = [k \in 0..n |-> IF k = 0 THEN <<>> ELSE Step(P[k - 1], k)]
  BY <1>8
<1> HIDE DEF P
<1>10. \A k \in 0..n : P[k] = f[k]
  <2> DEFINE T == {k \in 0..n : P[k] = f[k]}
  <2>1. 0 \in T
    BY <1>1, <1>7, <1>9
  <2>2. \A k \in 1..n : k - 1 \in T => k \in T
    <3> SUFFICES ASSUME NEW k \in 1..n, k - 1 \in T
                 PROVE  P[k] = f[k]
      OBVIOUS
    <3>1. P[k] = Step(P[k - 1], k)
      BY <1>1, <1>9
    <3>2. f[k] = Step(f[k - 1], k)
      BY <1>1, <1>8
    <3> QED BY <3>1, <3>2
  <2> HIDE DEF T
  <2>3. \A k \in 0..n : k \in T
    BY <1>1, <2>1, <2>2, UpTo
  <2> QED BY <2>3 DEF T
<1>11. Sifted(buf, f)
  <2>1. \A k \in 1..n : f[k] = Step(f[k - 1], k)
    BY <1>1, <1>8
  <2>2. \A k \in 1..n : f[k] = IF buf[k] = 0 THEN f[k - 1] ELSE Append(f[k - 1], buf[k])
    BY <1>4, <2>1
  <2> QED BY <1>7, <2>2 DEF Sifted, n
<1>12. Payload(buf) = f[n]
  BY <1>1, <1>3, <1>10
<1> QED BY <1>11, <1>12 DEF n

(* ... and that it is a function.                                             *)
LEMMA SiftsOnce ==
  ASSUME NEW buf \in Seq(Nat), NEW f, Sifted(buf, f)
  PROVE  Payload(buf) = f[Len(buf)] /\ Payload(buf) \in Seq(Nat)
<1>1. PICK g : Sifted(buf, g) /\ Payload(buf) = g[Len(buf)]
  BY PayloadSifts
<1>2. Len(buf) \in Nat
  OBVIOUS
<1> DEFINE T == {k \in 0..Len(buf) : f[k] = g[k]}
<1>3. 0 \in T
  BY <1>1, <1>2 DEF Sifted
<1>4. \A k \in 1..Len(buf) : k - 1 \in T => k \in T
  BY <1>1, <1>2 DEF Sifted
<1> HIDE DEF T
<1>5. Len(buf) \in T
  <2>1. \A k \in 0..Len(buf) : k \in T
    BY <1>2, <1>3, <1>4, UpTo
  <2> QED BY <1>2, <2>1
<1>6. f[Len(buf)] = g[Len(buf)]
  BY <1>5 DEF T
<1>7. f[Len(buf)] \in Seq(Nat)
  BY <1>2 DEF Sifted
<1> QED BY <1>1, <1>6, <1>7

(* One byte more.                                                             *)
LEMMA PayloadAppend ==
  ASSUME NEW buf \in Seq(Nat), NEW b \in Nat
  PROVE  Payload(Append(buf, b)) = IF b = 0 THEN Payload(buf) ELSE Append(Payload(buf), b)
<1>1. PICK f : Sifted(buf, f) /\ Payload(buf) = f[Len(buf)]
  BY PayloadSifts
<1>2. PICK c : c = Append(buf, b)
  OBVIOUS
<1>3. PICK n : n = Len(buf)
  OBVIOUS
<1>4. n \in Nat /\ c \in Seq(Nat) /\ Len(c) = n + 1 /\ c[n + 1] = b
      /\ \A k \in 1..n : c[k] = buf[k]
  BY <1>2, <1>3
<1>5. f \in [0..n -> Seq(Nat)] /\ f[0] = <<>>
      /\ \A k \in 1..n : f[k] = IF buf[k] = 0 THEN f[k - 1] ELSE Append(f[k - 1], buf[k])
  BY <1>1, <1>3 DEF Sifted
<1>6. PICK last : last = IF b = 0 THEN f[n] ELSE Append(f[n], b)
  OBVIOUS
<1>7. f[n] \in Seq(Nat) /\ last \in Seq(Nat)
  BY <1>4, <1>5, <1>6
<1>8. PICK g : g = [k \in 0..(n + 1) |-> IF k = n + 1 THEN last ELSE f[k]]
  OBVIOUS
<1>9. Sifted(c, g)
  <2>1. g \in [0..(n + 1) -> Seq(Nat)] /\ g[0] = <<>>
    BY <1>4, <1>5, <1>7, <1>8
  <2>2. ASSUME NEW k \in 1..(n + 1)
        PROVE  g[k] = IF c[k] = 0 THEN g[k - 1] ELSE Append(g[k - 1], c[k])
    <3>1. CASE k = n + 1
      <4>1. g[k] = last /\ g[k - 1] = f[n] /\ c[k] = b
        BY <1>4, <1>8, <3>1
      <4> QED BY <1>6, <4>1
    <3>2. CASE k # n + 1
      <4>1. k \in 1..n /\ g[k] = f[k] /\ g[k - 1] = f[k - 1] /\ c[k] = buf[k]
        BY <1>4, <1>8, <3>2
      <4> QED BY <1>5, <4>1
    <3> QED BY <3>1, <3>2
  <2> QED BY <1>4, <2>1, <2>2 DEF Sifted
<1>10. Payload(c) = g[n + 1]
  BY <1>4, <1>9, SiftsOnce
<1>11. g[n + 1] = last
  BY <1>4, <1>8
<1> QED BY <1>1, <1>2, <1>3, <1>6, <1>10, <1>11

(* Nothing, a byte of stderr, and the type.                                   *)
LEMMA PayloadEmpty ==
  /\ Payload(<<>>) = <<>> /\ Payload(<<0>>) = <<>>
  /\ \A buf \in Seq(Nat) : Payload(buf) \in Seq(Nat)
<1>1. <<>> \in Seq(Nat) /\ Len(<<>>) = 0 /\ <<0>> = Append(<<>>, 0)
  OBVIOUS
<1>2. Payload(<<>>) = <<>>
  <2>1. PICK f : Sifted(<<>>, f) /\ Payload(<<>>) = f[Len(<<>>)]
    BY <1>1, PayloadSifts
  <2>2. f[0] = <<>> /\ Payload(<<>>) = f[0]
    BY <1>1, <2>1 DEF Sifted
  <2> QED BY <2>2
<1>3. Payload(<<0>>) = <<>>
  BY <1>1, <1>2, PayloadAppend
<1>4. ASSUME NEW buf \in Seq(Nat)
      PROVE  Payload(buf) \in Seq(Nat)
  BY PayloadSifts, SiftsOnce
<1> QED BY <1>2, <1>3, <1>4

(* Appending to the second of two sequences.                                  *)
LEMMA ConcatAppend ==
  ASSUME NEW p \in Seq(Nat), NEW q \in Seq(Nat), NEW e \in Nat
  PROVE  p \o Append(q, e) = Append(p \o q, e) /\ p \o q \in Seq(Nat)
<1>1. p \o q \in Seq(Nat) /\ <<e>> \in Seq(Nat)
  OBVIOUS
<1>2. Append(q, e) = q \o <<e>> /\ Append(p \o q, e) = (p \o q) \o <<e>>
  BY <1>1, AppendIsConcat
<1>3. (p \o q) \o <<e>> = p \o (q \o <<e>>)
  BY <1>1, ConcatAssociative
<1> QED BY <1>1, <1>2, <1>3

(* What is put behind a buffer is sifted by itself.                           *)
LEMMA PayloadConcat ==
  ASSUME NEW a \in Seq(Nat), NEW b \in Seq(Nat)
  PROVE  Payload(a \o b) = Payload(a) \o Payload(b)
<1> DEFINE n == Len(b)
           Front(k) == SubSeq(b, 1, k)
           T == {k \in 0..n : Payload(a \o Front(k)) = Payload(a) \o Payload(Front(k))}
<1>1. n \in Nat /\ Payload(a) \in Seq(Nat) /\ Payload(b) \in Seq(Nat)
  BY PayloadEmpty
<1>2. \A k \in 0..n : Front(k) \in Seq(Nat)
  OBVIOUS
<1>3. \A k \in 1..n : Front(k) = Append(Front(k - 1), b[k]) /\ b[k] \in Nat
  OBVIOUS
<1>4. Front(0) = <<>> /\ Front(n) = b
  OBVIOUS
<1> HIDE DEF Front
<1>5. 0 \in T
  <2>1. a \o <<>> = a /\ Payload(a) \o <<>> = Payload(a)
    BY <1>1
  <2>2. Payload(a \o Front(0)) = Payload(a) \o Payload(Front(0))
    BY <1>4, <2>1, PayloadEmpty
  <2>3. 0 \in 0..n
    BY <1>1
  <2> QED BY <2>2, <2>3
<1>6. ASSUME NEW k \in 1..n, k - 1 \in T
      PROVE  k \in T
  <2>1. PICK d : d = Front(k - 1)
    OBVIOUS
  <2>2. PICK e : e = b[k]
    OBVIOUS
  <2>3. d \in Seq(Nat) /\ e \in Nat /\ Front(k) = Append(d, e)
    <3>1. k - 1 \in 0..n
      BY <1>1
    <3> QED BY <1>2, <1>3, <2>1, <2>2, <3>1
  <2>4. Payload(a \o d) = Payload(a) \o Payload(d)
    BY <1>6, <2>1
  <2>5. a \o Append(d, e) = Append(a \o d, e) /\ a \o d \in Seq(Nat)
    BY <2>3, ConcatAppend
  <2>6. Payload(Append(a \o d, e))
            = IF e = 0 THEN Payload(a \o d) ELSE Append(Payload(a \o d), e)
    BY <2>3, <2>5, PayloadAppend
  <2>7. Payload(Append(d, e)) = IF e = 0 THEN Payload(d) ELSE Append(Payload(d), e)
    BY <2>3, PayloadAppend
  <2>8. PICK p : p = Payload(a)
    OBVIOUS
  <2>9. PICK q : q = Payload(d)
    OBVIOUS
  <2>10. p \in Seq(Nat) /\ q \in Seq(Nat)
    BY <1>1, <2>3, <2>8, <2>9, PayloadEmpty
  <2>11. p \o Append(q, e) = Append(p \o q, e)
    BY <2>3, <2>10, ConcatAppend
  <2>12. Payload(a \o Front(k)) = Payload(a) \o Payload(Front(k))
    BY <2>3, <2>4, <2>5, <2>6, <2>7, <2>8, <2>9, <2>11, Zenon
  <2> QED BY <2>12
<1> HIDE DEF T
<1>7. n \in T
  <2>1. \A k \in 0..n : k \in T
    BY <1>1, <1>5, <1>6, UpTo
  <2> QED BY <1>1, <2>1
<1> QED BY <1>4, <1>7 DEF T

(* A buffer without stderr is its own payload.                                *)
LEMMA PayloadPure ==
  ASSUME NEW buf \in Seq(Nat \ {0})
  PROVE  buf \in Seq(Nat) /\ Payload(buf) = buf
<1> DEFINE n == Len(buf)
           f == [k \in 0..n |-> SubSeq(buf, 1, k)]
<1>1. n \in Nat /\ buf \in Seq(Nat) /\ \A k \in 1..n : buf[k] \in Nat \ {0}
  OBVIOUS
<1>2. \A k \in 0..n : SubSeq(buf, 1, k) \in Seq(Nat)
  OBVIOUS
<1>3. \A k \in 1..n : SubSeq(buf, 1, k) = Append(SubSeq(buf, 1, k - 1), buf[k])
  OBVIOUS
<1>4. Sifted(buf, f)
  <2>1. f \in [0..n -> Seq(Nat)] /\ f[0] = <<>>
    BY <1>1, <1>2
  <2>2. ASSUME NEW k \in 1..n
        PROVE  f[k] = Append(f[k - 1], buf[k])
    <3>1. f[k] = SubSeq(buf, 1, k) /\ f[k - 1] = SubSeq(buf, 1, k - 1)
      BY SMTT(30), <1>1
    <3> QED BY <1>3, <3>1
  <2> HIDE DEF f
  <2>3. \A k \in 1..n : f[k] = IF buf[k] = 0 THEN f[k - 1] ELSE Append(f[k - 1], buf[k])
    BY <1>1, <2>2
  <2> QED BY <2>1, <2>3 DEF Sifted
<1>5. f[n] = buf
  BY <1>1
<1> HIDE DEF f
<1> QED BY <1>1, <1>4, <1>5, SiftsOnce

-----------------------------------------------------------------------------
(* Segments of the source.                                                    *)

(* Two segments that meet are one.                                            *)
LEMMA SegFacts ==
  ASSUME NEW a \in Place, NEW b \in Place, a <= b
  PROVE  /\ Seg(a, b) \in Seq(Nat) /\ Len(Seg(a, b)) = b - a
         /\ Seg(0, Len(Source)) = Source /\ Seg(a, a) = <<>>
         /\ \A c \in Place : b <= c => Seg(a, b) \o Seg(b, c) = Seg(a, c)
<1>1. Source \in Seq(Nat) /\ Len(Source) \in Nat
  BY StreamingAssumption
<1>2. a \in Nat /\ b \in Nat /\ b <= Len(Source)
  BY <1>1 DEF Place
<1>3. Seg(a, b) \in Seq(Nat) /\ Len(Seg(a, b)) = b - a
  BY <1>1, <1>2 DEF Seg
<1>4. Seg(0, Len(Source)) = Source /\ Seg(a, a) = <<>>
  BY <1>1, <1>2 DEF Seg
<1>5. ASSUME NEW c \in Place, b <= c
      PROVE  Seg(a, b) \o Seg(b, c) = Seg(a, c)
  <2>1. c \in Nat /\ c <= Len(Source)
    BY <1>1 DEF Place
  <2>2. a + 1 \in 1..(Len(Source) + 1) /\ b \in (a + 1 - 1)..Len(Source) /\ c \in b..Len(Source)
    BY <1>1, <1>2, <1>5, <2>1
  <2> QED BY <1>1, <2>2, ConcatAdjacentSubSeq DEF Seg
<1> QED BY <1>3, <1>4, <1>5

(* Two ways to cut a sequence at the same place.                              *)
LEMMA SameCut ==
  ASSUME NEW x \in Seq(Nat), NEW y \in Seq(Nat), NEW u \in Seq(Nat), NEW v \in Seq(Nat),
         Len(x) = Len(u), x \o y = u \o v
  PROVE  x = u /\ y = v
<1>1. Len(x) \in Nat /\ Len(y) \in Nat /\ Len(v) \in Nat
  OBVIOUS
<1>2. \A k \in 1..Len(x) : (x \o y)[k] = x[k] /\ (u \o v)[k] = u[k]
  BY <1>1, ConcatProperties
<1>3. x = u
  BY <1>2, SeqEqual
<1> QED BY <1>3, ConcatSimplifications

(* A segment cut in two is two segments that meet.                            *)
LEMMA SegCut ==
  ASSUME NEW a \in Place, NEW c \in Place, a <= c,
         NEW p \in Seq(Nat), NEW q \in Seq(Nat), p \o q = Seg(a, c)
  PROVE  \E b \in Place : a <= b /\ b <= c /\ p = Seg(a, b) /\ q = Seg(b, c)
<1>1. Source \in Seq(Nat) /\ Len(Source) \in Nat
  BY StreamingAssumption
<1>2. a \in Nat /\ c \in Nat /\ c <= Len(Source)
  BY <1>1 DEF Place
<1>3. Len(p) \in Nat /\ Len(q) \in Nat /\ Len(p) + Len(q) = c - a
  <2>1. Len(p \o q) = Len(p) + Len(q)
    OBVIOUS
  <2>2. Len(Seg(a, c)) = c - a
    BY SegFacts
  <2>3. Len(p) \in Nat /\ Len(q) \in Nat
    OBVIOUS
  <2>4. Len(p \o q) = c - a
    BY <2>2
  <2> QED BY <2>1, <2>3, <2>4
<1>4. PICK b : b = a + Len(p)
  OBVIOUS
<1>5. b \in Place /\ a <= b /\ b <= c
  BY <1>1, <1>2, <1>3, <1>4 DEF Place
<1>6. Seg(a, b) \in Seq(Nat) /\ Len(Seg(a, b)) = Len(p)
      /\ Seg(b, c) \in Seq(Nat) /\ Len(Seg(b, c)) = Len(q)
      /\ Seg(a, b) \o Seg(b, c) = p \o q
  <2>1. Len(Seg(a, b)) = b - a /\ Len(Seg(b, c)) = c - b
        /\ Seg(a, b) \in Seq(Nat) /\ Seg(b, c) \in Seq(Nat)
        /\ Seg(a, b) \o Seg(b, c) = Seg(a, c)
    BY <1>5, SegFacts
  <2> QED BY SMTT(30), <1>2, <1>3, <1>4, <2>1
<1>7. p = Seg(a, b) /\ q = Seg(b, c)
  BY <1>6, SameCut
<1> QED BY <1>5, <1>7


-----------------------------------------------------------------------------
(* The bytes of a view.                                                       *)

(* All that is in the stage and its output pipe, and what of it is payload.   *)
Whole(x) == x.out.data \o HeldBy(x.s)
Ahead(x) == Payload(Whole(x))

(* Bytes are numbers.                                                         *)
LEMMA BytesAreNat ==
  ASSUME NEW b \in Seq(Byte)
  PROVE  b \in Seq(Nat)
<1>1. Byte \subseteq Nat
  <2>1. \A k \in DOMAIN Source : Source[k] \in Nat
    BY StreamingAssumption
  <2> QED BY <2>1 DEF Byte
<1> QED BY <1>1, SeqMonotonic

(* The buffers of a stage.                                                    *)
LEMMA StageBytes ==
  ASSUME NEW s \in Stage
  PROVE  /\ s.pend \in Seq(Nat) /\ s.se \in Seq(Nat) /\ s.file \in Seq(Nat)
         /\ s.stdin \in Seq(Nat) /\ s.inbox \in Seq(Nat)
         /\ Staged(s) \in Seq(Nat) /\ Behind(s) \in Seq(Nat) /\ HeldBy(s) \in Seq(Nat)
<1>1. /\ s.pend \in Seq(Byte) /\ s.se \in Seq(Byte) /\ s.file \in Seq(Byte)
      /\ s.stdin \in Seq(Byte) /\ s.inbox \in Seq(Byte)
  BY DEF Stage
<1>2. /\ s.pend \in Seq(Nat) /\ s.se \in Seq(Nat) /\ s.file \in Seq(Nat)
      /\ s.stdin \in Seq(Nat) /\ s.inbox \in Seq(Nat)
  BY <1>1, BytesAreNat
<1>3. Staged(s) \in Seq(Nat)
  BY <1>2 DEF Staged
<1>4. Behind(s) \in Seq(Nat)
  BY <1>2, <1>3, ConcatProperties DEF Behind
<1>5. HeldBy(s) \in Seq(Nat)
  BY <1>2, <1>4, ConcatProperties DEF HeldBy
<1> QED BY <1>2, <1>3, <1>4, <1>5

(* ... and of a view.                                                         *)
LEMMA ViewBytes ==
  ASSUME NEW x \in ViewType
  PROVE  /\ x.out.data \in Seq(Nat) /\ x.in.data \in Seq(Nat)
         /\ Whole(x) \in Seq(Nat) /\ Ahead(x) \in Seq(Nat)
         /\ Ahead(x) = Payload(x.out.data) \o Payload(HeldBy(x.s))
<1>1. x.out.data \in Seq(Byte) /\ x.in.data \in Seq(Byte) /\ x.s \in Stage
  BY ViewParts DEF PipeType
<1>2. x.out.data \in Seq(Nat) /\ x.in.data \in Seq(Nat) /\ HeldBy(x.s) \in Seq(Nat)
  BY <1>1, BytesAreNat, StageBytes
<1>3. Whole(x) \in Seq(Nat)
  BY <1>2, ConcatProperties DEF Whole
<1>4. Ahead(x) \in Seq(Nat)
  BY <1>3, PayloadEmpty DEF Ahead
<1>5. Ahead(x) = Payload(x.out.data) \o Payload(HeldBy(x.s))
  BY <1>2, PayloadConcat DEF Ahead, Whole
<1> QED BY <1>2, <1>3, <1>4, <1>5

(* Concatenation is associative.                                              *)
Joined(a, b, c) == a \o b \in Seq(Nat) /\ (a \o b) \o c = a \o (b \o c)

(* Concatenation is associative, with its type.                               *)
LEMMA Assoc ==
  ASSUME NEW a \in Seq(Nat), NEW b \in Seq(Nat), NEW c \in Seq(Nat)
  PROVE  Joined(a, b, c)
<1>1. (a \o b) \o c = a \o (b \o c)
  OBVIOUS
<1>2. a \o b \in Seq(Nat)
  OBVIOUS
<1> QED BY <1>1, <1>2 DEF Joined

(* Output that is written moves from the stage to the pipe.                   *)
Shifted(p, buf, rest, w) ==
    w.pipe.data \o (DropBytes(buf, w.n) \o rest) = p.data \o (buf \o rest)

(* PipeBuffer::write of output: nothing is lost between buffer and pipe.      *)
LEMMA WriteMovesOutput ==
  ASSUME Config, NEW p \in PipeType(Byte), NEW buf \in Seq(Byte), NEW rest \in Seq(Nat),
         NEW w, w = Write(p, buf, Cap)
  PROVE  Shifted(p, buf, rest, w)
<1>1. Cap \in Nat \ {0}
  BY CapType
<1>2. w.n \in 0..Len(buf) /\ w.pipe.data = p.data \o TakeBytes(buf, w.n)
  <2>1. Wrote(Byte, p, buf, Cap, w)
    BY <1>1, WriteFacts
  <2> QED BY <2>1 DEF Wrote
<1>3. PICK t : t = TakeBytes(buf, w.n)
  OBVIOUS
<1>4. PICK d : d = DropBytes(buf, w.n)
  OBVIOUS
<1>5. PICK data : data = p.data
  OBVIOUS
<1>6. t \in Seq(Byte) /\ d \in Seq(Byte) /\ t \o d = buf
  <2>1. w.n \in 0..Len(buf)
    BY <1>2
  <2> QED BY <1>3, <1>4, <2>1, Cut, Zenon
<1>7. t \in Seq(Nat) /\ d \in Seq(Nat) /\ buf \in Seq(Nat) /\ data \in Seq(Nat)
  BY <1>5, <1>6, BytesAreNat DEF PipeType
<1>8. (data \o t) \o (d \o rest) = data \o (t \o (d \o rest))
  <2>1. PICK e : e = d \o rest
    OBVIOUS
  <2>2. e \in Seq(Nat)
    BY <1>7, <2>1
  <2>3. Joined(data, t, e)
    BY <1>7, <2>2, Assoc
  <2> QED BY <2>1, <2>3 DEF Joined
<1>9. t \o (d \o rest) = (t \o d) \o rest
  <2>1. Joined(t, d, rest)
    BY <1>7, Assoc
  <2> QED BY <2>1 DEF Joined
<1> QED BY <1>2, <1>3, <1>4, <1>5, <1>6, <1>8, <1>9 DEF Shifted

(* stderr that is written is no payload.                                      *)
LEMMA WriteMovesStderr ==
  ASSUME Config, NEW p \in PipeType(Byte), NEW buf \in Seq(Byte), NEW rest \in Seq(Nat),
         Payload(buf) = <<>>, NEW w, w = Write(p, buf, Cap)
  PROVE  /\ Payload(w.pipe.data \o rest) = Payload(p.data \o rest)
         /\ Payload(DropBytes(buf, w.n)) = <<>>
<1>1. Cap \in Nat \ {0}
  BY CapType
<1>2. w.n \in 0..Len(buf) /\ w.pipe.data = p.data \o TakeBytes(buf, w.n)
  <2>1. Wrote(Byte, p, buf, Cap, w)
    BY <1>1, WriteFacts
  <2> QED BY <2>1 DEF Wrote
<1>3. PICK t : t = TakeBytes(buf, w.n)
  OBVIOUS
<1>4. PICK d : d = DropBytes(buf, w.n)
  OBVIOUS
<1>5. PICK data : data = p.data
  OBVIOUS
<1>6. t \in Seq(Byte) /\ d \in Seq(Byte) /\ t \o d = buf
  <2>1. w.n \in 0..Len(buf)
    BY <1>2
  <2> QED BY <1>3, <1>4, <2>1, Cut, Zenon
<1>7. t \in Seq(Nat) /\ d \in Seq(Nat) /\ data \in Seq(Nat)
  BY <1>5, <1>6, BytesAreNat DEF PipeType
<1>8. Payload(t) = <<>> /\ Payload(d) = <<>>
  <2>1. Payload(t) \o Payload(d) = <<>> /\ Payload(t) \in Seq(Nat) /\ Payload(d) \in Seq(Nat)
    BY <1>6, <1>7, PayloadConcat, PayloadEmpty
  <2> QED BY <2>1, ConcatEqualIffEmpty
<1>9. Payload((data \o t) \o rest) = Payload(data \o rest)
  <2>1. data \o t \in Seq(Nat) /\ Payload(data) \in Seq(Nat)
    BY <1>7, ConcatProperties, PayloadEmpty
  <2>2. Payload((data \o t) \o rest) = Payload(data \o t) \o Payload(rest)
    BY <2>1, PayloadConcat
  <2>3. Payload(data \o t) = Payload(data) \o <<>>
    BY <1>7, <1>8, PayloadConcat
  <2>4. Payload(data) \o <<>> = Payload(data)
    BY <2>1, ConcatEmptySeq
  <2>5. Payload(data \o rest) = Payload(data) \o Payload(rest)
    BY <1>7, PayloadConcat
  <2> QED BY <2>2, <2>3, <2>4, <2>5
<1> QED BY <1>2, <1>3, <1>4, <1>5, <1>8, <1>9

(* A diagnostic behind other stderr is stderr.                                *)
LEMMA QuietDiagnostic ==
  ASSUME NEW i, NEW se \in Seq(Byte), Payload(se) = <<>>
  PROVE  se \o Diagnostic(i) \in Seq(Byte) /\ Payload(se \o Diagnostic(i)) = <<>>
<1>1. PICK d : d = Diagnostic(i)
  OBVIOUS
<1>2. d \in Seq(Byte) /\ Payload(d) = <<>>
  BY <1>1, Constants, PayloadEmpty DEF Diagnostic
<1>3. se \o d \in Seq(Byte) /\ se \in Seq(Nat) /\ d \in Seq(Nat) /\ <<>> \o <<>> = <<>>
  BY <1>2, BytesAreNat
<1>4. Payload(se \o d) = Payload(se) \o Payload(d)
  BY <1>3, PayloadConcat
<1> QED BY <1>1, <1>2, <1>3, <1>4

-----------------------------------------------------------------------------
(* What a part of a poll does with the bytes, and to its neighbours.          *)

(* Bytes u are read and nothing is lost; or bytes d are.                      *)
Flow(x, y) ==
    \E u \in Seq(Nat) : x.in.data = u \o y.in.data /\ Ahead(y) = Ahead(x) \o Payload(u)
Spill(x, y) ==
    \E u, d \in Seq(Nat) :
        x.in.data = u \o y.in.data /\ Ahead(y) \o d = Ahead(x) \o Payload(u)

(* A first stage that makes its data itself, and a child that is gone, do not *)
(* read.                                                                      *)
Deaf(s, i) == (s.kind = "external" /\ ~s.live) \/ (i = 1 /\ s.kind # "read")

Good(x, i) == x \in ViewType /\ Sane(x.s, i) /\ AtEnd(x.s, x.in, i) /\ Fit(x.s)
Links(x, y, i) ==
    /\ Keeps(x, y) /\ Good(y, i)
    /\ (x.s.fin => y.s.fin) /\ (Gave(x.s) => Gave(y.s)) /\ (y.s.live => x.s.live)
    /\ y.out.write_closed => x.out.write_closed \/ y.s.fin
    /\ Trusty /\ i > 1 /\ y.in.read_closed =>
           x.in.read_closed \/ x.in.write_closed \/ Gave(y.s) \/ x.out.read_closed
    /\ Deaf(x.s, i) => y.in.data = x.in.data

Moves(x, y, i) == Links(x, y, i) /\ Flow(x, y)

(* Bytes are lost only by a stage that ends with it, and with a reason.       *)
Drops(x, y, i) ==
    /\ Links(x, y, i) /\ Spill(x, y)
    /\ \/ x.s.kind = "external" /\ x.s.live /\ ~y.s.live
       \/ x.s.kind \in Buffering /\ y.res = "exited" /\ i > 1
    /\ Trusty => Gave(y.s) \/ x.out.read_closed

(* Nothing is read and nothing is lost.                                       *)
LEMMA StillFlows ==
  ASSUME NEW x \in ViewType, NEW y \in ViewType, y.in.data = x.in.data, Ahead(y) = Ahead(x)
  PROVE  Flow(x, y)
<1>1. x.in.data \in Seq(Nat) /\ Ahead(x) \in Seq(Nat) /\ <<>> \in Seq(Nat)
  BY ViewBytes, EmptySeq
<1>2. x.in.data = <<>> \o x.in.data /\ Ahead(x) = Ahead(x) \o <<>>
  BY <1>1, ConcatEmptySeq
<1> QED BY <1>1, <1>2, PayloadEmpty DEF Flow

(* Parts of a poll follow each other.                                         *)
LEMMA FlowTrans ==
  ASSUME NEW x \in ViewType, NEW y \in ViewType, NEW z \in ViewType, Flow(x, y)
  PROVE  (Flow(y, z) => Flow(x, z)) /\ (Spill(y, z) => Spill(x, z))
<1>1. PICK u \in Seq(Nat) : x.in.data = u \o y.in.data /\ Ahead(y) = Ahead(x) \o Payload(u)
  BY DEF Flow
<1>2. PICK a : a = Ahead(x)
  OBVIOUS
<1>3. a \in Seq(Nat) /\ z.in.data \in Seq(Nat) /\ Ahead(z) \in Seq(Nat)
  BY <1>2, ViewBytes
<1>4. \A v \in Seq(Nat) :
          /\ u \o v \in Seq(Nat) /\ (u \o v) \o z.in.data = u \o (v \o z.in.data)
          /\ (a \o Payload(u)) \o Payload(v) = a \o Payload(u \o v)
  <2> SUFFICES ASSUME NEW v \in Seq(Nat)
               PROVE  /\ u \o v \in Seq(Nat) /\ (u \o v) \o z.in.data = u \o (v \o z.in.data)
                      /\ (a \o Payload(u)) \o Payload(v) = a \o Payload(u \o v)
    OBVIOUS
  <2>1. u \o v \in Seq(Nat) /\ (u \o v) \o z.in.data = u \o (v \o z.in.data)
    <3>1. Joined(u, v, z.in.data)
      BY <1>3, Assoc
    <3> QED BY <3>1 DEF Joined
  <2>2. Payload(u) \in Seq(Nat) /\ Payload(v) \in Seq(Nat)
        /\ Payload(u \o v) = Payload(u) \o Payload(v)
    BY PayloadEmpty, PayloadConcat
  <2>3. (a \o Payload(u)) \o Payload(v) = a \o (Payload(u) \o Payload(v))
    <3>1. Joined(a, Payload(u), Payload(v))
      BY <1>3, <2>2, Assoc
    <3> QED BY <3>1 DEF Joined
  <2> QED BY <2>1, <2>2, <2>3
<1>5. ASSUME Flow(y, z)
      PROVE  Flow(x, z)
  <2>1. PICK v \in Seq(Nat) : y.in.data = v \o z.in.data /\ Ahead(z) = Ahead(y) \o Payload(v)
    BY <1>5 DEF Flow
  <2>2. x.in.data = (u \o v) \o z.in.data /\ Ahead(z) = Ahead(x) \o Payload(u \o v)
    BY <1>1, <1>2, <1>4, <2>1
  <2> QED BY <1>4, <2>2 DEF Flow
<1>6. ASSUME Spill(y, z)
      PROVE  Spill(x, z)
  <2>1. PICK v \in Seq(Nat), d \in Seq(Nat) :
            y.in.data = v \o z.in.data /\ Ahead(z) \o d = Ahead(y) \o Payload(v)
    BY <1>6 DEF Spill
  <2>2. x.in.data = (u \o v) \o z.in.data /\ Ahead(z) \o d = Ahead(x) \o Payload(u \o v)
    BY <1>1, <1>2, <1>4, <2>1
  <2> QED BY <1>4, <2>2 DEF Spill
<1> QED BY <1>5, <1>6

(* The same for what the neighbours see.                                      *)
LEMMA LinksTrans ==
  ASSUME NEW x \in ViewType, NEW y \in ViewType, NEW z, NEW i, Links(x, y, i), Links(y, z, i)
  PROVE  Links(x, z, i)
<1>1. Keeps(x, z)
  BY KeepsTrans DEF Links
<1>2. y.in.write_closed = x.in.write_closed /\ y.out.read_closed = x.out.read_closed
  BY DEF Links, Keeps, KeepsIn, KeepsOut
<1>3. y.s.kind = x.s.kind
  BY DEF Links, Keeps, KeepsStage
<1>4. Deaf(x.s, i) => Deaf(y.s, i)
  BY <1>3 DEF Links, Deaf
<1> QED BY <1>1, <1>2, <1>4 DEF Links

(* A part that moves bytes, then one that moves or drops them.                *)
LEMMA MovesTrans ==
  ASSUME NEW x \in ViewType, NEW y, NEW z, NEW i, Moves(x, y, i)
  PROVE  (Moves(y, z, i) => Moves(x, z, i)) /\ (Drops(y, z, i) => Drops(x, z, i))
<1>1. y \in ViewType
  BY DEF Moves, Links, Good
<1>2. ASSUME Links(y, z, i)
      PROVE  z \in ViewType /\ Links(x, z, i)
  BY <1>1, <1>2, LinksTrans DEF Moves, Links, Good
<1>3. y.s.kind = x.s.kind /\ y.out.read_closed = x.out.read_closed
  BY DEF Moves, Links, Keeps, KeepsStage, KeepsOut
<1>4. x.s.kind = "external" /\ y.s.live => x.s.live
  BY DEF Moves, Links
<1>5. Moves(y, z, i) => Moves(x, z, i)
  BY <1>1, <1>2, FlowTrans DEF Moves
<1>6. Drops(y, z, i) => Drops(x, z, i)
  BY <1>1, <1>2, <1>3, <1>4, FlowTrans DEF Moves, Drops
<1> QED BY <1>5, <1>6

-----------------------------------------------------------------------------
(* PipeReadProcess, TeePipeProcess and HeadPipeProcess.                       *)

Reading == {"read", "tee", "head"}

(* A built-in stage is finished only when its poll says so.                   *)
Passes(x, y, i) == Moves(x, y, i) /\ (y.s.fin => x.s.fin \/ y.res = "exited")

(* The fields that decide what a stage holds, and what it is to others.       *)
SameBuffers(s, t) ==
    /\ t.kind = s.kind /\ t.pend = s.pend /\ t.inbox = s.inbox /\ t.stdin = s.stdin
    /\ t.file = s.file /\ t.se = s.se
SameControl(s, t) ==
    /\ t.kind = s.kind /\ t.eof = s.eof /\ t.rc = s.rc /\ t.left = s.left /\ t.live = s.live
    /\ t.sclosed = s.sclosed /\ t.status = s.status

(* A stage with the same buffers holds the same bytes.                        *)
LEMMA SameHeld ==
  ASSUME NEW s, NEW t, SameBuffers(s, t)
  PROVE  HeldBy(t) = HeldBy(s)
BY DEF SameBuffers, HeldBy, Behind, Staged

(* finish, of a stage that has a reason to.                                   *)
LEMMA FinishPasses ==
  ASSUME NEW i, NEW x, Good(x, i), NEW y, y = Finish(x),
         Trusty /\ i > 1 => x.out.read_closed \/ x.in.write_closed \/ Gave(x.s)
  PROVE  Passes(x, y, i)
<1>1. x \in ViewType
  BY DEF Good
<1>2. Keeps(x, y) /\ y.res = "exited" /\ y.s = [x.s EXCEPT !.fin = TRUE]
  BY <1>1, FinishKeeps
<1>3. x.s \in Stage /\ x.in \in PipeType(Byte) /\ x.out \in PipeType(Byte)
  BY <1>1, ViewParts
<1>4. SameBuffers(x.s, y.s) /\ SameControl(x.s, y.s) /\ y.s.fin
  BY <1>2, <1>3 DEF Stage, SameBuffers, SameControl
<1>5. y.in = CloseRead(x.in) /\ y.out = CloseWrite(x.out)
  BY DEF Finish
<1>6. y.in.data = x.in.data /\ y.out.data = x.out.data /\ y.in.write_closed = x.in.write_closed
      /\ y.in.read_closed
  BY <1>3, <1>5, CloseFacts
<1>7. y \in ViewType /\ Fit(y.s)
  BY <1>2 DEF Keeps, KeepsStage, Good
<1>8. Flow(x, y)
  BY <1>1, <1>4, <1>6, <1>7, SameHeld, StillFlows DEF Ahead, Whole
<1>9. Sane(y.s, i) /\ AtEnd(y.s, y.in, i)
  BY <1>4, <1>6 DEF Good, Sane, AtEnd, SameBuffers, SameControl
<1>10. (Gave(x.s) => Gave(y.s)) /\ (y.s.live => x.s.live)
  BY <1>4 DEF Gave, SameControl
<1>11. Links(x, y, i)
  BY <1>2, <1>4, <1>6, <1>7, <1>9, <1>10 DEF Links, Good
<1> QED BY <1>2, <1>8, <1>11 DEF Passes, Moves

(* read_drain_pending, tee_drain_pending.                                     *)
LEMMA DrainPendingPasses ==
  ASSUME Config, NEW i, NEW x, Good(x, i), x.s.kind \in Reading, x.s.pend # <<>>,
         NEW y, y = DrainPending(x)
  PROVE  Passes(x, y, i) /\ (y.res # "exited" => SameControl(x.s, y.s))
<1>1. x \in ViewType
  BY DEF Good
<1>2. x.s \in Stage /\ x.in \in PipeType(Byte) /\ x.out \in PipeType(Byte)
      /\ x.s.pend \in Seq(Byte) /\ x.s.pend \in Seq(Nat) /\ Behind(x.s) \in Seq(Nat)
  BY <1>1, ViewParts, StageBytes DEF Stage
<1>3. PICK w : w = Write(x.out, x.s.pend, Cap)
  OBVIOUS
<1>4. w.res = "broken" <=> x.out.read_closed
  <2>1. Written(x.out, x.s.pend, w)
    BY <1>2, <1>3, WriteKeeps
  <2> QED BY <2>1 DEF Written
<1>5. CASE w.res = "broken"
  <2>1. y = Finish(x)
    BY <1>3, <1>5 DEF DrainPending
  <2>2. y.res = "exited"
    BY <2>1 DEF Finish
  <2> QED BY <1>4, <1>5, <2>1, <2>2, FinishPasses
<1>6. CASE w.res # "broken"
  <2>1. PICK f : f = IF x.s.kind = "tee" THEN x.s.file \o TakeBytes(x.s.pend, w.n) ELSE x.s.file
    OBVIOUS
  <2>2. PICK t : t = [x.s EXCEPT !.pend = DropBytes(x.s.pend, w.n), !.file = f]
    OBVIOUS
  <2>3. y.s = t /\ y.in = x.in /\ y.out = w.pipe /\ y.res # "exited"
    BY <1>3, <1>6, <2>1, <2>2 DEF DrainPending
  <2>4. /\ SameControl(x.s, t) /\ t.fin = x.s.fin
        /\ t.pend = DropBytes(x.s.pend, w.n) /\ t.inbox = x.s.inbox /\ t.stdin = x.s.stdin
        /\ t.se = x.s.se
    BY <1>2, <2>2 DEF Stage, SameControl
  <2>5. Behind(t) = Behind(x.s)
    BY <2>4 DEF Behind, Staged, SameControl, Reading, Buffering
  <2>6. Ahead(y) = Ahead(x)
    <3>1. Shifted(x.out, x.s.pend, Behind(x.s), w)
      BY <1>2, <1>3, WriteMovesOutput
    <3> QED BY <2>3, <2>4, <2>5, <3>1 DEF Ahead, Whole, HeldBy, Shifted
  <2>7. Keeps(x, y)
    BY <1>1, DrainPendingHands DEF Handed
  <2>8. y \in ViewType /\ Fit(y.s)
    BY <2>7 DEF Keeps, KeepsStage, Good
  <2>9. y.out.write_closed = x.out.write_closed
    <3>1. Wrote(Byte, x.out, x.s.pend, Cap, w)
      BY <1>2, <1>3, CapType, WriteFacts
    <3> QED BY <2>3, <3>1 DEF Wrote
  <2>10. Sane(y.s, i) /\ AtEnd(y.s, y.in, i)
    BY <2>3, <2>4 DEF Good, Sane, AtEnd, SameControl, Reading, Buffering
  <2>11. (Gave(x.s) => Gave(y.s)) /\ (y.s.live => x.s.live)
    BY <2>3, <2>4 DEF Gave, SameControl
  <2>12. Links(x, y, i)
    BY <2>3, <2>4, <2>7, <2>8, <2>9, <2>10, <2>11 DEF Links, Good
  <2>13. Flow(x, y)
    BY <1>1, <2>3, <2>6, <2>8, StillFlows
  <2> QED BY <2>3, <2>4, <2>12, <2>13 DEF Passes, Moves
<1> QED BY <1>5, <1>6

(* poll_stderr, tee_drain_stderr.                                             *)
LEMMA DrainStderrPasses ==
  ASSUME Config, NEW i, NEW x, Good(x, i), x.s.kind \in Reading, x.s.se # <<>>,
         NEW y, y = DrainStderr(x)
  PROVE  Passes(x, y, i)
<1>1. x \in ViewType
  BY DEF Good
<1>2. x.s \in Stage /\ x.in \in PipeType(Byte) /\ x.out \in PipeType(Byte)
      /\ x.s.se \in Seq(Byte) /\ HeldBy(x.s) \in Seq(Nat)
  BY <1>1, ViewParts, StageBytes DEF Stage
<1>3. PICK w : w = Write(x.out, x.s.se, Cap)
  OBVIOUS
<1>4. w.res = "broken" <=> x.out.read_closed
  <2>1. Written(x.out, x.s.se, w)
    BY <1>2, <1>3, WriteKeeps
  <2> QED BY <2>1 DEF Written
<1>5. CASE w.res = "broken"
  <2>1. y = Finish(x)
    BY <1>3, <1>5 DEF DrainStderr
  <2> QED BY <1>4, <1>5, <2>1, FinishPasses
<1>6. CASE w.res # "broken"
  <2>1. PICK t : t = [x.s EXCEPT !.se = DropBytes(x.s.se, w.n)]
    OBVIOUS
  <2>2. y.s = t /\ y.in = x.in /\ y.out = w.pipe
    BY <1>3, <1>6, <2>1 DEF DrainStderr
  <2>3. /\ SameControl(x.s, t) /\ t.fin = x.s.fin
        /\ t.pend = x.s.pend /\ t.inbox = x.s.inbox /\ t.stdin = x.s.stdin
        /\ t.se = DropBytes(x.s.se, w.n) /\ t.file = x.s.file
    BY <1>2, <2>1 DEF Stage, SameControl
  <2>4. HeldBy(t) = HeldBy(x.s)
    BY <2>3 DEF HeldBy, Behind, Staged, SameControl
  <2>5. Payload(x.s.se) = <<>>
    BY DEF Good, Sane
  <2>6. Ahead(y) = Ahead(x) /\ Payload(t.se) = <<>>
    BY <1>2, <1>3, <2>2, <2>3, <2>4, <2>5, WriteMovesStderr DEF Ahead, Whole
  <2>7. Keeps(x, y)
    BY <1>1, DrainStderrHands DEF Handed
  <2>8. y \in ViewType /\ Fit(y.s)
    BY <2>7 DEF Keeps, KeepsStage, Good
  <2>9. y.out.write_closed = x.out.write_closed
    <3>1. Wrote(Byte, x.out, x.s.se, Cap, w)
      BY <1>2, <1>3, CapType, WriteFacts
    <3> QED BY <2>2, <3>1 DEF Wrote
  <2>10. Sane(y.s, i) /\ AtEnd(y.s, y.in, i)
    BY <2>2, <2>3, <2>6 DEF Good, Sane, AtEnd, SameControl, Reading, Buffering
  <2>11. (Gave(x.s) => Gave(y.s)) /\ (y.s.live => x.s.live)
    BY <2>2, <2>3 DEF Gave, SameControl
  <2>12. Links(x, y, i)
    BY <2>2, <2>3, <2>7, <2>8, <2>9, <2>10, <2>11 DEF Links, Good
  <2>13. Flow(x, y)
    BY <1>1, <2>2, <2>6, <2>8, StillFlows
  <2> QED BY <2>2, <2>3, <2>12, <2>13 DEF Passes, Moves
<1> QED BY <1>5, <1>6

(* A poll that has touched nothing.                                           *)
LEMMA UntouchedPasses ==
  ASSUME NEW i, NEW x, Good(x, i), NEW y, NEW r \in Outcome, y = Return(x, r)
  PROVE  Passes(x, y, i)
<1>1. x \in ViewType
  BY DEF Good
<1>2. y \in ViewType /\ y.s = x.s /\ y.in = x.in /\ y.out = x.out
  BY <1>1 DEF Return, ViewType
<1>3. Keeps(x, y)
  <2>1. Keeps(x, x)
    BY <1>1, KeepsRefl
  <2> QED BY <1>2, <2>1 DEF Keeps
<1>4. Flow(x, y)
  BY <1>1, <1>2, StillFlows DEF Ahead, Whole
<1> QED BY <1>2, <1>3, <1>4 DEF Passes, Moves, Links, Good

(* Delivering what a reader or tee has.                                       *)
LEMMA DeliverPasses ==
  ASSUME Config, NEW i, NEW x, Good(x, i), x.s.kind \in {"read", "tee"},
         NEW y, y = Deliver(x)
  PROVE  Passes(x, y, i)
<1>1. CASE x.s.pend # <<>>
  <2>1. y = DrainPending(x)
    BY <1>1 DEF Deliver
  <2> QED BY <1>1, <2>1, DrainPendingPasses DEF Reading
<1>2. CASE x.s.pend = <<>> /\ x.s.se # <<>>
  <2>1. y = DrainStderr(x)
    BY <1>2 DEF Deliver
  <2> QED BY <1>2, <2>1, DrainStderrPasses DEF Reading
<1>3. CASE x.s.pend = <<>> /\ x.s.se = <<>> /\ x.s.eof
  <2>1. y = Finish(x)
    BY <1>3 DEF Deliver
  <2>2. x.in.write_closed \/ Gave(x.s)
    BY <1>3 DEF Good, AtEnd, Gave, Fit
  <2> QED BY <2>1, <2>2, FinishPasses
<1>4. CASE x.s.pend = <<>> /\ x.s.se = <<>> /\ ~x.s.eof
  <2>1. y = x
    BY <1>4 DEF Deliver
  <2>2. x = Return(x, x.res) /\ x.res \in Outcome
    BY DEF Return, Good, ViewType
  <2> QED BY <2>1, <2>2, UntouchedPasses
<1> QED BY <1>1, <1>2, <1>3, <1>4

(* What is read is behind everything else the stage holds.                    *)
LEMMA ReadFlows ==
  ASSUME NEW x \in ViewType, NEW y \in ViewType, NEW max \in Nat \ {0},
         NEW r, r = Read(x.in, max), y.in.data = r.pipe.data, y.out.data = x.out.data,
         NEW h, HeldBy(x.s) = h, HeldBy(y.s) = h \o r.bytes
  PROVE  Flow(x, y)
<1>1. x.in \in PipeType(Byte) /\ x.s \in Stage
  BY ViewParts
<1>2. x.in.data = r.bytes \o r.pipe.data /\ r.bytes \in Seq(Byte)
  <2>1. Fetched(Byte, x.in, r)
    BY <1>1, ReadFacts
  <2> QED BY <2>1 DEF Fetched
<1>3. PICK u : u = r.bytes
  OBVIOUS
<1>4. PICK o : o = x.out.data
  OBVIOUS
<1>5. u \in Seq(Nat) /\ o \in Seq(Nat) /\ h \in Seq(Nat)
  BY <1>1, <1>2, <1>3, <1>4, BytesAreNat, ViewBytes, StageBytes
<1>6. o \o h \in Seq(Nat) /\ (o \o h) \o u = o \o (h \o u)
  <2>1. Joined(o, h, u)
    BY <1>5, Assoc
  <2> QED BY <2>1 DEF Joined
<1>7. Payload((o \o h) \o u) = Payload(o \o h) \o Payload(u)
  BY <1>5, <1>6, PayloadConcat
<1>8. Ahead(y) = Ahead(x) \o Payload(u)
  BY <1>3, <1>4, <1>6, <1>7 DEF Ahead, Whole
<1> QED BY <1>2, <1>3, <1>5, <1>8 DEF Flow

(* A read whose bytes are put behind all that the stage holds.                *)
LEMMA ReadBehind ==
  ASSUME NEW x \in ViewType, NEW y \in ViewType, NEW r, r = Read(x.in, Chunk),
         y.in.data = r.pipe.data, y.out.data = x.out.data, HeldBy(y.s) = HeldBy(x.s) \o r.bytes
  PROVE  Flow(x, y)
<1>1. Chunk \in Nat \ {0}
  BY Constants
<1>2. PICK h : h = HeldBy(x.s)
  OBVIOUS
<1>3. HeldBy(y.s) = h \o r.bytes /\ HeldBy(x.s) = h
  BY <1>2
<1> QED BY <1>1, <1>3, ReadFlows

(* Built-in readers hold what they are about to write.                        *)
LEMMA HeldByReader ==
  ASSUME NEW i, NEW s \in Stage, Sane(s, i), s.kind \in Reading
  PROVE  HeldBy(s) = s.pend
<1>1. s.inbox = <<>> /\ s.stdin = <<>> /\ Staged(s) = <<>>
  BY DEF Sane, Reading, Staged, Buffering
<1>2. Behind(s) = <<>>
  BY <1>1 DEF Behind
<1>3. s.pend \in Seq(Nat)
  BY StageBytes
<1> QED BY <1>2, <1>3 DEF HeldBy

(* A poll of a built-in stage after it has read.                              *)
LEMMA PassesTrans ==
  ASSUME NEW i, NEW x \in ViewType, NEW y, NEW z, Moves(x, y, i), y.s.fin = x.s.fin,
         Passes(y, z, i)
  PROVE  Passes(x, z, i)
BY MovesTrans DEF Passes

(* PipeReadProcess::poll, TeePipeProcess::poll.                               *)
LEMMA ReadPollPasses ==
  ASSUME Config, NEW i, NEW x, Good(x, i), x.s.kind \in {"read", "tee"}, ~Deaf(x.s, i),
         x.res = "going", NEW z, z = ReadPoll(x)
  PROVE  Passes(x, z, i)
<1>1. x \in ViewType
  BY DEF Good
<1>2. /\ x.s \in Stage /\ x.in \in PipeType(Byte) /\ x.out \in PipeType(Byte)
  BY <1>1, ViewParts
<1>3. PICK r : r = Read(x.in, Chunk)
  OBVIOUS
<1>4. PICK d : d = Deliver(x)
  OBVIOUS
<1>5. PICK eof : eof = (r.res = "eof")
  OBVIOUS
<1>6. PICK t : t = [x.s EXCEPT !.pend = r.bytes, !.eof = eof]
  OBVIOUS
<1>7. PICK y : y = [s |-> t, in |-> r.pipe, out |-> x.out, res |-> "going"]
  OBVIOUS
<1>8. z = IF d.res # "going" THEN d
          ELSE IF r.res = "would_block" THEN Return(x, "pending_read") ELSE Deliver(y)
  BY <1>3, <1>4, <1>5, <1>6, <1>7 DEF ReadPoll
<1>9. CASE d.res # "going"
  BY <1>4, <1>8, <1>9, DeliverPasses
<1>10. CASE d.res = "going" /\ r.res = "would_block"
  BY <1>8, <1>10, UntouchedPasses DEF Outcome
<1>11. CASE d.res = "going" /\ r.res # "would_block"
  <2>1. x.s.pend = <<>> /\ ~x.s.eof
    <3>1. x.s.pend # <<>> \/ x.s.eof => Handed(x, d)
      BY <1>1, <1>4, DeliverHands
    <3> QED BY <1>11, <3>1 DEF Handed
  <2>2. Taken(x.in, r) /\ Fetched(Byte, x.in, r)
    BY <1>2, <1>3, Constants, ReadKeeps, ReadFacts
  <2>3. eof \in BOOLEAN /\ r.bytes \in Seq(Byte) /\ r.pipe \in PipeType(Byte)
        /\ r.pipe.write_closed = x.in.write_closed /\ r.pipe.read_closed = x.in.read_closed
        /\ KeepsIn(x.in, r.pipe) /\ (eof => x.in.write_closed)
    BY <1>5, <2>2 DEF Taken, Fetched
  <2>4. /\ t \in Stage /\ KeepsStage(x.s, t) /\ t.kind = x.s.kind /\ t.pend = r.bytes
        /\ t.eof = eof /\ t.fin = x.s.fin /\ t.se = x.s.se /\ t.inbox = x.s.inbox
        /\ t.stdin = x.s.stdin /\ t.rc = x.s.rc /\ t.live = x.s.live /\ t.left = x.s.left
    BY <1>2, <1>6, <2>3 DEF Stage, KeepsStage, Fit
  <2>5. "going" \in Outcome /\ KeepsOut(x.out, x.out)
    BY <1>2, PipeKept DEF Outcome
  <2>6. Keeps(x, y) /\ y.s = t /\ y.in = r.pipe /\ y.out = x.out
    BY <1>2, <1>7, <2>3, <2>4, <2>5, MakeView
  <2>7. y \in ViewType /\ Fit(y.s)
    BY <2>6 DEF Keeps, KeepsStage, Good
  <2>8. Sane(y.s, i) /\ AtEnd(y.s, y.in, i)
    BY <2>3, <2>4, <2>6 DEF Good, Sane, AtEnd, Buffering
  <2>9. HeldBy(x.s) = <<>> /\ HeldBy(y.s) = r.bytes
    BY <1>2, <2>1, <2>4, <2>6, <2>8, HeldByReader DEF Reading, Good
  <2>10. r.bytes = <<>> \o r.bytes
    BY <2>3
  <2>11. Flow(x, y)
    BY <1>1, <1>3, <2>6, <2>7, <2>9, <2>10, ReadFlows, Constants
  <2>12. Gave(x.s) => Gave(y.s)
    BY <2>4, <2>6 DEF Gave
  <2>13. Moves(x, y, i)
    BY <2>3, <2>4, <2>6, <2>7, <2>8, <2>11, <2>12 DEF Moves, Links, Good
  <2>14. Passes(y, z, i)
    BY <1>8, <1>11, <2>4, <2>6, <2>7, <2>8, DeliverPasses DEF Good
  <2> QED BY <1>1, <2>4, <2>6, <2>13, <2>14, PassesTrans
<1> QED BY <1>9, <1>10, <1>11

(* A first stage whose reader fails.                                          *)
LEMMA ReadFailsPasses ==
  ASSUME Config, NEW i, NEW x, Good(x, i), x.s.kind \in {"read", "tee"},
         NEW z, z = ReadFails(x, i)
  PROVE  Passes(x, z, i)
<1>1. x \in ViewType
  BY DEF Good
<1>2. x.s \in Stage
  BY <1>1, ViewParts
<1>3. PICK e : e = x.s.se \o Diagnostic(i)
  OBVIOUS
<1>4. PICK t : t = [x.s EXCEPT !.rc = 1, !.eof = TRUE, !.se = e]
  OBVIOUS
<1>5. PICK y : y = [x EXCEPT !.s = t]
  OBVIOUS
<1>6. z = Deliver(y)
  BY <1>3, <1>4, <1>5 DEF ReadFails
<1>7. e \in Seq(Byte) /\ Payload(e) = <<>>
  <2>1. x.s.se \in Seq(Byte) /\ Diagnostic(i) \in Seq(Byte)
    BY <1>2, Constants DEF Stage
  <2> QED BY <1>3, <2>1, QuietDiagnostic DEF Good, Sane
<1>8. /\ t \in Stage /\ KeepsStage(x.s, t) /\ t.kind = x.s.kind /\ t.pend = x.s.pend
      /\ t.eof /\ t.fin = x.s.fin /\ t.se = e /\ t.inbox = x.s.inbox /\ t.file = x.s.file
      /\ t.stdin = x.s.stdin /\ t.rc = 1 /\ t.live = x.s.live /\ t.left = x.s.left
  BY <1>2, <1>4, <1>7 DEF Stage, KeepsStage, Fit
<1>9. Keeps(x, y) /\ y.s = t /\ y.in = x.in /\ y.out = x.out
  BY <1>1, <1>5, <1>8, PutStage
<1>10. y \in ViewType /\ Fit(y.s)
  BY <1>9 DEF Keeps, KeepsStage, Good
<1>11. Sane(y.s, i) /\ AtEnd(y.s, y.in, i)
  BY <1>7, <1>8, <1>9 DEF Good, Sane, AtEnd, Buffering
<1>12. HeldBy(y.s) = HeldBy(x.s)
  BY <1>8, <1>9 DEF HeldBy, Behind, Staged
<1>13. Flow(x, y)
  BY <1>1, <1>9, <1>10, <1>12, StillFlows DEF Ahead, Whole
<1>14. Gave(x.s) => Gave(y.s)
  BY <1>8, <1>9 DEF Gave
<1>15. Moves(x, y, i)
  BY <1>8, <1>9, <1>10, <1>11, <1>13, <1>14 DEF Moves, Links, Good
<1>16. Passes(y, z, i)
  BY <1>6, <1>8, <1>9, <1>10, <1>11, DeliverPasses DEF Good
<1> QED BY <1>1, <1>8, <1>9, <1>15, <1>16, PassesTrans

(* HeadPipeProcess: the byte that uses up the count is still passed on.       *)
LEMMA HeadFlushPasses ==
  ASSUME Config, NEW i, NEW x, Good(x, i), x.s.kind = "head", x.s.pend # <<>>,
         NEW z, z = HeadFlush(x)
  PROVE  Passes(x, z, i)
<1>1. PICK d : d = DrainPending(x)
  OBVIOUS
<1>2. z = IF d.res = "ready" /\ d.s.pend = <<>> /\ d.s.eof THEN Finish(d) ELSE d
  BY <1>1 DEF HeadFlush
<1>3. Passes(x, d, i) /\ (d.res # "exited" => SameControl(x.s, d.s))
  BY <1>1, DrainPendingPasses DEF Reading
<1>4. CASE d.res = "ready" /\ d.s.pend = <<>> /\ d.s.eof
  <2>1. Good(d, i) /\ d.s.kind = "head" /\ x \in ViewType
    BY <1>3, <1>4 DEF Passes, Moves, Links, SameControl, Good
  <2>2. Gave(d.s)
    BY <1>4, <2>1 DEF Good, AtEnd, Gave
  <2>3. Passes(d, z, i)
    BY <1>2, <1>4, <2>1, <2>2, FinishPasses
  <2>4. z.res = "exited"
    BY <1>2, <1>4 DEF Finish
  <2> QED BY <1>3, <2>1, <2>3, <2>4, MovesTrans DEF Passes
<1> QED BY <1>2, <1>3, <1>4

(* HeadPipeProcess::poll.                                                     *)
LEMMA HeadPollPasses ==
  ASSUME Config, NEW i, NEW x, Good(x, i), x.s.kind = "head", ~Deaf(x.s, i),
         NEW z, z = HeadPoll(x)
  PROVE  Passes(x, z, i)
<1>1. x \in ViewType
  BY DEF Good
<1>2. x.s \in Stage /\ x.in \in PipeType(Byte) /\ x.out \in PipeType(Byte) /\ x.s.left \in Nat
  BY <1>1, ViewParts DEF Stage
<1>3. PICK r : r = Read(x.in, 1)
  OBVIOUS
<1>4. PICK more : more = IF x.s.left > 0 THEN x.s.left - 1 ELSE 0
  OBVIOUS
<1>5. PICK p : p = IF more = 0 THEN CloseRead(r.pipe) ELSE r.pipe
  OBVIOUS
<1>6. PICK eof : eof = (more = 0)
  OBVIOUS
<1>7. PICK t : t = [x.s EXCEPT !.pend = r.bytes, !.left = more, !.eof = eof]
  OBVIOUS
<1>8. PICK y : y = [s |-> t, in |-> p, out |-> x.out, res |-> "going"]
  OBVIOUS
<1>9. z = IF x.s.pend # <<>> THEN HeadFlush(x)
          ELSE IF x.s.eof \/ r.res = "eof" THEN Finish(x)
          ELSE IF r.res = "would_block" THEN Return(x, "pending_read")
          ELSE HeadFlush(y)
  BY <1>3, <1>4, <1>5, <1>6, <1>7, <1>8 DEF HeadPoll
<1>10. Taken(x.in, r) /\ Fetched(Byte, x.in, r)
  BY <1>2, <1>3, ReadKeeps, ReadFacts
<1>11. CASE x.s.pend # <<>>
  BY <1>9, <1>11, HeadFlushPasses
<1>12. CASE x.s.pend = <<>> /\ (x.s.eof \/ r.res = "eof")
  <2>1. Gave(x.s) \/ x.in.write_closed
    BY <1>10, <1>12 DEF Good, AtEnd, Gave, Taken
  <2> QED BY <1>9, <1>12, <2>1, FinishPasses
<1>13. CASE x.s.pend = <<>> /\ ~(x.s.eof \/ r.res = "eof") /\ r.res = "would_block"
  BY <1>9, <1>13, UntouchedPasses DEF Outcome
<1>14. CASE x.s.pend = <<>> /\ ~(x.s.eof \/ r.res = "eof") /\ r.res # "would_block"
  <2>1. /\ eof \in BOOLEAN /\ more \in Nat /\ r.bytes \in Seq(Byte) /\ r.bytes # <<>>
        /\ r.pipe \in PipeType(Byte) /\ r.pipe.write_closed = x.in.write_closed
        /\ r.pipe.read_closed = x.in.read_closed /\ KeepsIn(x.in, r.pipe)
        /\ (x.s.left = 0 => more = 0)
    BY <1>2, <1>4, <1>6, <1>10, <1>14 DEF Taken, Fetched
  <2>2. /\ p \in PipeType(Byte) /\ KeepsIn(x.in, p) /\ p.data = r.pipe.data
        /\ p.write_closed = x.in.write_closed
        /\ p.read_closed => x.in.read_closed \/ more = 0
    <3>1. /\ CloseRead(r.pipe) \in PipeType(Byte) /\ CloseRead(r.pipe).data = r.pipe.data
          /\ CloseRead(r.pipe).read_closed
          /\ CloseRead(r.pipe).write_closed = r.pipe.write_closed
      BY <2>1, CloseFacts
    <3> QED BY <1>5, <2>1, <3>1 DEF KeepsIn
  <2>3. /\ t \in Stage /\ KeepsStage(x.s, t) /\ t.kind = x.s.kind /\ t.pend = r.bytes
        /\ t.eof = eof /\ t.fin = x.s.fin /\ t.se = x.s.se /\ t.inbox = x.s.inbox
        /\ t.stdin = x.s.stdin /\ t.rc = x.s.rc /\ t.live = x.s.live /\ t.left = more
    BY <1>2, <1>7, <2>1 DEF Stage, KeepsStage, Fit
  <2>4. "going" \in Outcome /\ KeepsOut(x.out, x.out)
    BY <1>2, PipeKept DEF Outcome
  <2>5. Keeps(x, y) /\ y.s = t /\ y.in = p /\ y.out = x.out
    BY <1>2, <1>8, <2>2, <2>3, <2>4, MakeView
  <2>6. y \in ViewType /\ Fit(y.s)
    BY <2>5 DEF Keeps, KeepsStage, Good
  <2>7. Sane(y.s, i) /\ AtEnd(y.s, y.in, i)
    BY <1>6, <2>3, <2>5 DEF Good, Sane, AtEnd, Buffering
  <2>8. HeldBy(x.s) = <<>> /\ HeldBy(y.s) = r.bytes
    BY <1>2, <1>14, <2>3, <2>5, <2>7, HeldByReader DEF Reading, Good
  <2>9. r.bytes = <<>> \o r.bytes /\ 1 \in Nat \ {0}
    BY <2>1
  <2>10. Flow(x, y)
    BY <1>1, <1>3, <2>2, <2>5, <2>6, <2>8, <2>9, ReadFlows
  <2>11. (Gave(x.s) => Gave(y.s)) /\ (more = 0 => Gave(y.s))
    BY <2>1, <2>3, <2>5 DEF Gave
  <2>12. Moves(x, y, i)
    BY <2>2, <2>3, <2>5, <2>6, <2>7, <2>10, <2>11 DEF Moves, Links, Good
  <2>13. Passes(y, z, i)
    BY <1>9, <1>14, <2>1, <2>3, <2>5, <2>6, <2>7, HeadFlushPasses DEF Good
  <2> QED BY <1>1, <2>3, <2>5, <2>12, <2>13, PassesTrans
<1> QED BY <1>11, <1>12, <1>13, <1>14

-----------------------------------------------------------------------------
(* BufferedPipeProcess.                                                       *)

(* What it holds is its output or its staging file.                           *)
LEMMA HeldByBuffered ==
  ASSUME NEW i, NEW s \in Stage, Sane(s, i), s.kind \in Buffering
  PROVE  HeldBy(s) = s.pend \o s.file
<1>1. s.inbox = <<>> /\ s.stdin = <<>> /\ Staged(s) = s.file /\ s.file \in Seq(Nat)
  BY StageBytes DEF Sane, Staged, Buffering
<1>2. Behind(s) = s.file
  BY <1>1 DEF Behind
<1> QED BY <1>2 DEF HeldBy

(* close_write, finished.                                                     *)
LEMMA BufferedEndPasses ==
  ASSUME NEW i, NEW x, Good(x, i), NEW y, y = BufferedEnd(x)
  PROVE  /\ Passes(x, y, i) /\ y.res = "exited" /\ SameBuffers(x.s, y.s)
         /\ SameControl(x.s, y.s) /\ y.in = x.in /\ y.out.data = x.out.data
<1>1. x \in ViewType
  BY DEF Good
<1>2. Keeps(x, y) /\ y.res = "exited"
  BY <1>1, BufferedEndKeeps
<1>3. x.s \in Stage /\ x.in \in PipeType(Byte) /\ x.out \in PipeType(Byte)
  BY <1>1, ViewParts
<1>4. y.s = [x.s EXCEPT !.fin = TRUE] /\ y.in = x.in /\ y.out = CloseWrite(x.out)
  BY DEF BufferedEnd
<1>5. SameBuffers(x.s, y.s) /\ SameControl(x.s, y.s) /\ y.s.fin
  BY <1>3, <1>4 DEF Stage, SameBuffers, SameControl
<1>6. y.out.data = x.out.data
  BY <1>3, <1>4, CloseFacts
<1>7. y \in ViewType /\ Fit(y.s)
  BY <1>2 DEF Keeps, KeepsStage, Good
<1>8. Flow(x, y)
  BY <1>1, <1>4, <1>5, <1>6, <1>7, SameHeld, StillFlows DEF Ahead, Whole
<1>9. Sane(y.s, i) /\ AtEnd(y.s, y.in, i)
  BY <1>4, <1>5 DEF Good, Sane, AtEnd, SameBuffers, SameControl
<1>10. (Gave(x.s) => Gave(y.s)) /\ (y.s.live => x.s.live)
  BY <1>5 DEF Gave, SameControl
<1>11. Links(x, y, i)
  BY <1>2, <1>4, <1>5, <1>7, <1>9, <1>10 DEF Links, Good
<1> QED BY <1>2, <1>4, <1>5, <1>6, <1>8, <1>11 DEF Passes, Moves

(* The output of the command is handed on.                                    *)
LEMMA BufferedDrainPasses ==
  ASSUME Config, NEW i, NEW x, Good(x, i), x.s.kind \in Buffering, x.s.pend # <<>>,
         NEW z, z = BufferedDrain(x)
  PROVE  Passes(x, z, i) /\ z.s.eof = x.s.eof
<1>1. x \in ViewType
  BY DEF Good
<1>2. x.s \in Stage /\ x.in \in PipeType(Byte) /\ x.out \in PipeType(Byte)
      /\ x.s.pend \in Seq(Byte) /\ x.s.pend \in Seq(Nat) /\ Behind(x.s) \in Seq(Nat)
  BY <1>1, ViewParts, StageBytes DEF Stage
<1>3. PICK w : w = Write(x.out, x.s.pend, Cap)
  OBVIOUS
<1>4. PICK t : t = [x.s EXCEPT !.pend = DropBytes(x.s.pend, w.n)]
  OBVIOUS
<1>5. PICK y : y = [s |-> t, in |-> x.in, out |-> w.pipe, res |-> "going"]
  OBVIOUS
<1>6. z = BufferedEnd(y) \/ z = Return(y, "pending_write") \/ z = Return(y, "ready")
  BY <1>3, <1>4, <1>5 DEF BufferedDrain
<1>7. Written(x.out, x.s.pend, w) /\ Wrote(Byte, x.out, x.s.pend, Cap, w)
      /\ Shifted(x.out, x.s.pend, Behind(x.s), w)
  BY <1>2, <1>3, CapType, WriteFacts, WriteKeeps, WriteMovesOutput
<1>8. /\ t \in Stage /\ KeepsStage(x.s, t) /\ SameControl(x.s, t) /\ t.fin = x.s.fin
      /\ t.pend = DropBytes(x.s.pend, w.n) /\ t.inbox = x.s.inbox /\ t.stdin = x.s.stdin
      /\ t.se = x.s.se /\ t.file = x.s.file
  BY <1>2, <1>4, <1>7 DEF Stage, SameControl, Written, KeepsStage, Fit
<1>9. Keeps(x, y) /\ y.s = t /\ y.in = x.in /\ y.out = w.pipe
  <2>1. "going" \in Outcome /\ KeepsIn(x.in, x.in) /\ KeepsOut(x.out, w.pipe)
        /\ w.pipe \in PipeType(Byte)
    BY <1>2, <1>7, PipeKept DEF Outcome, Written, KeepsOut
  <2> QED BY <1>2, <1>5, <1>8, <2>1, MakeView
<1>10. y \in ViewType /\ Fit(y.s)
  BY <1>9 DEF Keeps, KeepsStage, Good
<1>11. Behind(t) = Behind(x.s)
  BY <1>8 DEF Behind, Staged, SameControl
<1>12. Ahead(y) = Ahead(x)
  BY <1>7, <1>8, <1>9, <1>11 DEF Ahead, Whole, HeldBy, Shifted
<1>13. y.out.write_closed = x.out.write_closed
  BY <1>7, <1>9 DEF Wrote
<1>14. Sane(y.s, i) /\ AtEnd(y.s, y.in, i)
  BY <1>8, <1>9 DEF Good, Sane, AtEnd, SameControl, Buffering
<1>15. (Gave(x.s) => Gave(y.s)) /\ (y.s.live => x.s.live)
  BY <1>8, <1>9 DEF Gave, SameControl
<1>16. Moves(x, y, i) /\ Good(y, i)
  <2>1. Flow(x, y)
    BY <1>1, <1>9, <1>10, <1>12, StillFlows
  <2> QED BY <1>8, <1>9, <1>10, <1>13, <1>14, <1>15, <2>1 DEF Moves, Links, Good
<1>17. Passes(y, z, i) /\ z.s.eof = y.s.eof
  <2>1. CASE z = BufferedEnd(y)
    BY <1>16, <2>1, BufferedEndPasses DEF SameControl
  <2>2. CASE z # BufferedEnd(y)
    BY <1>6, <1>10, <1>16, <2>2, UntouchedPasses, ReturnKeeps DEF Outcome
  <2> QED BY <2>1, <2>2
<1>18. z.s.eof = x.s.eof
  BY <1>8, <1>9, <1>17 DEF SameControl
<1> QED BY <1>1, <1>8, <1>9, <1>16, <1>17, <1>18, PassesTrans

(* Bytes are read and thrown away.                                            *)
LEMMA ReadSpills ==
  ASSUME NEW x \in ViewType, NEW y \in ViewType, NEW max \in Nat \ {0},
         NEW r, r = Read(x.in, max), y.in.data = r.pipe.data, Ahead(y) = Ahead(x)
  PROVE  Spill(x, y)
<1>1. x.in.data = r.bytes \o r.pipe.data /\ r.bytes \in Seq(Byte)
  <2>1. Fetched(Byte, x.in, r)
    BY ViewParts, ReadFacts
  <2> QED BY <2>1 DEF Fetched
<1>2. r.bytes \in Seq(Nat) /\ Payload(r.bytes) \in Seq(Nat)
  BY <1>1, BytesAreNat, PayloadEmpty
<1> QED BY <1>1, <1>2 DEF Spill

(* emit_input_limit_error and emit_error, after a read.                       *)
LEMMA BufferedRefusesDrops ==
  ASSUME NEW i \in Nat, i > 1, NEW x, Good(x, i), x.s.kind \in Buffering,
         NEW r, r = Read(x.in, Chunk), NEW y, y = [x EXCEPT !.in = r.pipe],
         NEW status \in Nat \ {0}, NEW z, z = BufferedRefuses(y, status)
  PROVE  Drops(x, z, i)
<1>1. x \in ViewType
  BY DEF Good
<1>2. x.s \in Stage /\ x.in \in PipeType(Byte) /\ x.out \in PipeType(Byte)
  BY <1>1, ViewParts
<1>3. /\ r.pipe \in PipeType(Byte) /\ r.pipe.write_closed = x.in.write_closed
      /\ r.pipe.read_closed = x.in.read_closed /\ KeepsIn(x.in, r.pipe)
  <2>1. Taken(x.in, r) /\ Fetched(Byte, x.in, r)
    BY <1>2, Constants, ReadKeeps, ReadFacts
  <2> QED BY <2>1 DEF Taken, Fetched
<1>4. PICK t : t = [[x.s EXCEPT !.rc = status] EXCEPT !.staging = FALSE]
  OBVIOUS
<1>5. PICK v : v = [s |-> t, in |-> r.pipe, out |-> x.out, res |-> x.res]
  OBVIOUS
<1>6. y = [s |-> x.s, in |-> r.pipe, out |-> x.out, res |-> x.res]
  <2>1. x = [s |-> x.s, in |-> x.in, out |-> x.out, res |-> x.res]
    BY <1>1, ViewParts
  <2> QED BY <2>1
<1>7. z = BufferedEnd(v)
  <2>1. PICK a : a = [y EXCEPT !.s = [y.s EXCEPT !.rc = status]]
    OBVIOUS
  <2>2. a = [s |-> [x.s EXCEPT !.rc = status], in |-> r.pipe, out |-> x.out, res |-> x.res]
    BY <1>6, <2>1
  <2>3. BufferedClose(a) = v
    BY <1>4, <1>5, <2>2 DEF BufferedClose
  <2> QED BY <2>1, <2>3 DEF BufferedRefuses
<1>8. /\ t \in Stage /\ KeepsStage(x.s, t) /\ SameBuffers(x.s, t) /\ t.rc = status
      /\ t.eof = x.s.eof /\ t.live = x.s.live /\ t.fin = x.s.fin
  BY <1>2, <1>4 DEF Stage, KeepsStage, Fit, SameBuffers
<1>9. Keeps(x, v) /\ v.s = t /\ v.in = r.pipe /\ v.out = x.out
  <2>1. KeepsOut(x.out, x.out) /\ x.res \in Outcome
    BY <1>1, <1>2, PipeKept, ViewParts
  <2> QED BY <1>2, <1>3, <1>5, <1>8, <2>1, MakeView
<1>10. v \in ViewType
  BY <1>9 DEF Keeps
<1>11. Good(v, i)
  <2>1. Sane(t, i) /\ AtEnd(t, r.pipe, i) /\ Fit(t)
    BY <1>8 DEF Good, Sane, AtEnd, SameBuffers, Buffering, KeepsStage
  <2> QED BY <1>9, <1>10, <2>1 DEF Good
<1>12. Gave(t)
  BY <1>8 DEF Gave, Fit, Good, Buffering
<1>13. ~Deaf(x.s, i)
  BY DEF Deaf, Buffering
<1>14. Links(x, v, i)
  BY <1>3, <1>8, <1>9, <1>11, <1>12, <1>13 DEF Links
<1>15. Passes(v, z, i) /\ z.res = "exited" /\ SameBuffers(v.s, z.s) /\ SameControl(v.s, z.s)
       /\ z.in = v.in /\ z.out.data = v.out.data
  BY <1>7, <1>11, BufferedEndPasses
<1>16. z \in ViewType /\ Links(x, z, i)
  <2>1. Links(v, z, i)
    BY <1>15 DEF Passes, Moves
  <2> QED BY <1>1, <1>10, <1>14, <2>1, LinksTrans DEF Links, Good
<1>17. HeldBy(z.s) = HeldBy(x.s)
  BY <1>8, <1>9, <1>15, SameHeld
<1>18. Spill(x, z)
  <2>1. Ahead(z) = Ahead(x) /\ z.in.data = r.pipe.data
    BY <1>9, <1>15, <1>17 DEF Ahead, Whole
  <2> QED BY <1>1, <1>16, <2>1, Constants, ReadSpills
<1>19. Gave(z.s)
  BY <1>9, <1>12, <1>15 DEF Gave, SameControl
<1> QED BY <1>15, <1>16, <1>18, <1>19 DEF Drops

(* run_command.                                                               *)
LEMMA RunCommandRuns ==
  ASSUME NEW i, NEW x, Good(x, i), x.s.kind \in Buffering, x.s.pend = <<>>,
         NEW input \in Seq(Byte), NEW z, z = RunCommand(x, input)
  PROVE  /\ Links(x, z, i) /\ z.in = x.in /\ z.out.data = x.out.data
         /\ z.s.eof /\ HeldBy(z.s) = input
         /\ z.s.fin => x.s.fin \/ z.res = "exited"
<1>1. x \in ViewType
  BY DEF Good
<1>2. x.s \in Stage /\ input \in Seq(Nat) /\ x.out \in PipeType(Byte)
  BY <1>1, ViewParts, BytesAreNat
<1>3. PICK t : t = [x.s EXCEPT !.staging = FALSE, !.eof = TRUE, !.pend = input, !.file = <<>>]
  OBVIOUS
<1>4. PICK y : y = [x EXCEPT !.s = t]
  OBVIOUS
<1>5. z = BufferedEnd(y) \/ z = Return(y, "ready")
  BY <1>3, <1>4 DEF RunCommand
<1>6. /\ t \in Stage /\ KeepsStage(x.s, t) /\ t.kind = x.s.kind /\ t.pend = input
      /\ t.file = <<>> /\ t.eof /\ t.fin = x.s.fin /\ t.rc = x.s.rc /\ t.live = x.s.live
      /\ t.left = x.s.left /\ t.inbox = x.s.inbox /\ t.stdin = x.s.stdin /\ t.se = x.s.se
  BY <1>2, <1>3 DEF Stage, KeepsStage, Fit
<1>7. Keeps(x, y) /\ y.s = t /\ y.in = x.in /\ y.out = x.out
  BY <1>1, <1>4, <1>6, PutStage
<1>8. Good(y, i)
  <2>1. Sane(t, i) /\ AtEnd(t, x.in, i) /\ Fit(t)
    BY <1>6 DEF Good, Sane, AtEnd, Buffering, KeepsStage
  <2> QED BY <1>7, <2>1 DEF Good, Keeps
<1>9. HeldBy(y.s) = input
  <2>1. HeldBy(t) = t.pend \o t.file
    BY <1>6, <1>7, <1>8, HeldByBuffered DEF Good
  <2>2. input \o <<>> = input
    BY <1>2
  <2> QED BY <1>6, <1>7, <2>1, <2>2
<1>10. Links(x, y, i)
  <2>1. Gave(x.s) => Gave(y.s)
    BY <1>6, <1>7 DEF Gave
  <2> QED BY <1>6, <1>7, <1>8, <2>1 DEF Links
<1>11. CASE z = BufferedEnd(y)
  <2>1. Passes(y, z, i) /\ z.res = "exited" /\ SameBuffers(y.s, z.s)
        /\ SameControl(y.s, z.s) /\ z.in = y.in /\ z.out.data = y.out.data
    BY <1>8, <1>11, BufferedEndPasses
  <2>2. Links(y, z, i) /\ y \in ViewType
    BY <1>8, <2>1 DEF Passes, Moves, Good
  <2>3. Links(x, z, i)
    BY <1>1, <1>10, <2>2, LinksTrans
  <2>4. HeldBy(z.s) = input /\ z.s.eof
    BY <1>6, <1>7, <1>9, <2>1, SameHeld DEF SameControl
  <2> QED BY <1>7, <2>1, <2>3, <2>4
<1>12. CASE z = Return(y, "ready")
  <2>1. Passes(y, z, i)
    BY <1>8, <1>12, UntouchedPasses DEF Outcome
  <2>2. Links(y, z, i) /\ y \in ViewType
    BY <1>8, <2>1 DEF Passes, Moves, Good
  <2>3. Links(x, z, i)
    BY <1>1, <1>10, <2>2, LinksTrans
  <2>4. z.s = y.s /\ z.in = y.in /\ z.out = y.out
    BY <1>12, <2>2, ReturnKeeps DEF Outcome
  <2> QED BY <1>6, <1>7, <1>9, <2>3, <2>4
<1> QED BY <1>5, <1>11, <1>12

(* A buffered first stage makes its output.                                   *)
Starts(x, y, i) ==
    /\ Links(x, y, i) /\ i = 1 /\ x.s.kind \in Buffering /\ ~x.s.eof /\ y.s.eof
    /\ y.in.data = x.in.data /\ y.out.data = x.out.data
    /\ HeldBy(x.s) = <<>> /\ Payload(HeldBy(y.s)) = Source

(* buffered_pump_input.                                                       *)
LEMMA BufferedPumpMoves ==
  ASSUME Config, NEW i \in Nat \ {0}, NEW x, Good(x, i), x.s.kind \in Buffering,
         x.s.pend = <<>>, ~x.s.eof, NEW broken,
         NEW z, z = BufferedPump(x, i = 1, broken)
  PROVE  \/ Passes(x, z, i)
         \/ Drops(x, z, i) /\ z.res = "exited"
         \/ Starts(x, z, i) /\ (z.s.fin => x.s.fin \/ z.res = "exited")
<1>1. x \in ViewType
  BY DEF Good
<1>2. x.s \in Stage /\ x.in \in PipeType(Byte) /\ x.out \in PipeType(Byte)
      /\ x.s.file \in Seq(Byte) /\ x.s.file \in Seq(Nat)
  BY <1>1, ViewParts, StageBytes DEF Stage
<1>3. PICK r : r = Read(x.in, Chunk)
  OBVIOUS
<1>4. PICK y : y = [x EXCEPT !.in = r.pipe]
  OBVIOUS
<1>5. z = IF i = 1 THEN RunCommand(x, Source)
          ELSE IF r.res = "eof" THEN RunCommand([y EXCEPT !.in = CloseRead(@)], x.s.file)
          ELSE IF r.res = "would_block" THEN Return(x, "pending_read")
          ELSE IF OverInput(x.s, r.bytes) THEN BufferedRefuses(y, 125)
          ELSE IF broken THEN BufferedRefuses(y, 1)
          ELSE Return([y EXCEPT !.s = [y.s EXCEPT !.file = @ \o r.bytes, !.staging = TRUE]],
                      "ready")
  BY <1>3, <1>4 DEF BufferedPump
<1>6. Taken(x.in, r) /\ Fetched(Byte, x.in, r)
  BY <1>2, <1>3, Constants, ReadKeeps, ReadFacts
<1>7. HeldBy(x.s) = x.s.file
  <2>1. HeldBy(x.s) = x.s.pend \o x.s.file
    BY <1>2, HeldByBuffered DEF Good
  <2>2. <<>> \o x.s.file = x.s.file
    BY <1>2
  <2> QED BY <2>1, <2>2
<1>8. CASE i = 1
  <2>1. z = RunCommand(x, Source) /\ Source \in Seq(Byte)
    BY <1>5, <1>8, Constants
  <2>2. /\ Links(x, z, i) /\ z.in = x.in /\ z.out.data = x.out.data
        /\ z.s.eof /\ HeldBy(z.s) = Source
        /\ z.s.fin => x.s.fin \/ z.res = "exited"
    BY <2>1, RunCommandRuns
  <2>3. HeldBy(x.s) = <<>>
    BY <1>7, <1>8 DEF Good, Sane, Buffering
  <2>4. Payload(Source) = Source
    BY StreamingAssumption, PayloadPure
  <2> QED BY <1>8, <2>2, <2>3, <2>4 DEF Starts
<1>9. CASE i # 1 /\ r.res = "eof"
  <2>1. PICK c : c = CloseRead(x.in)
    OBVIOUS
  <2>2. PICK v : v = [y EXCEPT !.in = c]
    OBVIOUS
  <2>3. r.pipe = x.in /\ x.in.write_closed
    BY <1>6, <1>9 DEF Taken
  <2>4. y = x
    BY <1>1, <1>4, <2>3 DEF ViewType
  <2>5. z = RunCommand(v, x.s.file)
    BY <1>5, <1>9, <2>1, <2>2, <2>4
  <2>6. c \in PipeType(Byte) /\ c.data = x.in.data /\ c.write_closed = x.in.write_closed
        /\ c.read_closed /\ KeepsIn(x.in, c)
    BY <1>2, <2>1, CloseFacts, PipeKept
  <2>7. v \in ViewType /\ v.s = x.s /\ v.in = c /\ v.out = x.out
    BY <1>1, <2>2, <2>4, <2>6 DEF ViewType
  <2>8. Good(v, i)
    <3>1. AtEnd(x.s, c, i)
      BY <2>6 DEF Good, AtEnd, Buffering
    <3> QED BY <2>7, <3>1 DEF Good
  <2>9. Links(x, v, i)
    <3>1. Keeps(x, v)
      <4>1. KeepsStage(x.s, x.s) /\ KeepsOut(x.out, x.out)
        BY <1>1, KeepsRefl DEF Keeps
      <4> QED BY <2>6, <2>7, <4>1 DEF Keeps
    <3> QED BY <2>3, <2>6, <2>7, <2>8, <3>1 DEF Links
  <2>10. /\ Links(v, z, i) /\ z.in = v.in /\ z.out.data = v.out.data
         /\ HeldBy(z.s) = x.s.file /\ (z.s.fin => v.s.fin \/ z.res = "exited")
    BY <1>2, <2>5, <2>7, <2>8, RunCommandRuns
  <2>11. Links(x, z, i) /\ z \in ViewType
    BY <1>1, <2>7, <2>9, <2>10, LinksTrans DEF Links, Good
  <2>12. Flow(x, z)
    <3>1. z.in.data = x.in.data /\ Ahead(z) = Ahead(x)
      BY <1>7, <2>6, <2>7, <2>10 DEF Ahead, Whole
    <3> QED BY <1>1, <2>11, <3>1, StillFlows
  <2> QED BY <2>7, <2>10, <2>11, <2>12 DEF Passes, Moves
<1>10. CASE i # 1 /\ r.res = "would_block"
  <2>1. z = Return(x, "pending_read")
    BY <1>5, <1>10
  <2> QED BY <2>1, UntouchedPasses DEF Outcome
<1>11. CASE i # 1 /\ r.res \notin {"eof", "would_block"}
            /\ (z = BufferedRefuses(y, 125) \/ z = BufferedRefuses(y, 1))
  <2>1. PICK status \in {125, 1} : z = BufferedRefuses(y, status)
    BY <1>11
  <2>2. status \in Nat \ {0} /\ i > 1
    BY <1>11
  <2>3. z.res = "exited"
    BY <2>1 DEF BufferedRefuses, BufferedEnd
  <2> QED BY <1>3, <1>4, <2>1, <2>2, <2>3, BufferedRefusesDrops
<1>12. CASE i # 1 /\ r.res \notin {"eof", "would_block"}
            /\ z = Return([y EXCEPT !.s = [y.s EXCEPT !.file = @ \o r.bytes, !.staging = TRUE]],
                          "ready")
  <2>1. PICK file : file = x.s.file \o r.bytes
    OBVIOUS
  <2>2. PICK t : t = [x.s EXCEPT !.file = file, !.staging = TRUE]
    OBVIOUS
  <2>3. PICK v : v = [s |-> t, in |-> r.pipe, out |-> x.out, res |-> x.res]
    OBVIOUS
  <2>4. y = [s |-> x.s, in |-> r.pipe, out |-> x.out, res |-> x.res]
    <3>1. x = [s |-> x.s, in |-> x.in, out |-> x.out, res |-> x.res]
      BY <1>1, ViewParts
    <3> QED BY <1>4, <3>1
  <2>5. z = Return(v, "ready")
    BY <1>12, <2>1, <2>2, <2>3, <2>4
  <2>6. /\ r.bytes \in Seq(Byte) /\ r.pipe \in PipeType(Byte) /\ KeepsIn(x.in, r.pipe)
        /\ r.pipe.read_closed = x.in.read_closed /\ r.bytes \in Seq(Nat)
    BY <1>6, BytesAreNat DEF Taken, Fetched
  <2>7. file \in Seq(Byte) /\ file \in Seq(Nat)
    BY <1>2, <2>1, <2>6, ConcatProperties
  <2>8. /\ t \in Stage /\ KeepsStage(x.s, t) /\ SameControl(x.s, t) /\ t.pend = x.s.pend
        /\ t.file = file /\ t.fin = x.s.fin /\ t.inbox = x.s.inbox /\ t.stdin = x.s.stdin
        /\ t.se = x.s.se
    BY <1>2, <2>2, <2>7 DEF Stage, KeepsStage, Fit, SameControl, Buffering
  <2>9. Keeps(x, v) /\ v.s = t /\ v.in = r.pipe /\ v.out = x.out
    <3>1. KeepsOut(x.out, x.out) /\ x.res \in Outcome
      BY <1>1, <1>2, PipeKept, ViewParts
    <3> QED BY <1>2, <2>3, <2>6, <2>8, <3>1, MakeView
  <2>10. Good(v, i)
    <3>1. Sane(t, i) /\ AtEnd(t, r.pipe, i) /\ Fit(t)
      BY <1>12, <2>8 DEF Good, Sane, AtEnd, Buffering, KeepsStage, SameControl
    <3> QED BY <2>9, <3>1 DEF Good, Keeps
  <2>11. HeldBy(v.s) = x.s.file \o r.bytes
    <3>1. HeldBy(t) = t.pend \o t.file
      BY <2>8, <2>9, <2>10, HeldByBuffered DEF Good, SameControl
    <3>2. <<>> \o file = file
      BY <2>7
    <3> QED BY <2>1, <2>8, <2>9, <3>1, <3>2
  <2>12. Flow(x, v)
    BY <1>1, <1>3, <1>7, <2>9, <2>10, <2>11, Constants, ReadFlows DEF Good
  <2>13. (Gave(x.s) => Gave(v.s)) /\ ~Deaf(x.s, i)
    BY <1>12, <2>8, <2>9 DEF Gave, Deaf, SameControl, Buffering
  <2>14. Moves(x, v, i)
    BY <2>6, <2>8, <2>9, <2>10, <2>12, <2>13 DEF Moves, Links, SameControl
  <2>15. Passes(v, z, i)
    BY <2>5, <2>10, UntouchedPasses DEF Outcome
  <2> QED BY <1>1, <2>8, <2>9, <2>14, <2>15, PassesTrans
<1> QED BY <1>5, <1>8, <1>9, <1>10, <1>11, <1>12

(* BufferedPipeProcess::poll.                                                 *)
LEMMA BufferedPollMoves ==
  ASSUME Config, NEW i \in Nat \ {0}, NEW x, Good(x, i), x.s.kind \in Buffering, NEW broken,
         NEW z, z = BufferedPoll(x, i = 1, broken)
  PROVE  /\ \/ Passes(x, z, i)
            \/ Drops(x, z, i) /\ z.res = "exited"
            \/ Starts(x, z, i) /\ (z.s.fin => x.s.fin \/ z.res = "exited")
         /\ i = 1 => z.s.eof
<1>1. CASE x.s.pend # <<>>
  <2>1. Passes(x, z, i) /\ z.s.eof = x.s.eof
    BY <1>1, BufferedDrainPasses DEF BufferedPoll
  <2>2. i = 1 => x.s.eof
    BY <1>1 DEF Good, Sane
  <2> QED BY <2>1, <2>2
<1>2. CASE x.s.pend = <<>> /\ x.s.eof
  BY <1>2, BufferedEndPasses DEF BufferedPoll, SameControl
<1>3. CASE x.s.pend = <<>> /\ ~x.s.eof
  <2>1. z = BufferedPump(x, i = 1, broken)
    BY <1>3 DEF BufferedPoll
  <2>2. i = 1 => z.s.eof
    <3> SUFFICES ASSUME i = 1
                 PROVE  z.s.eof
      OBVIOUS
    <3>1. z = RunCommand(x, Source) /\ Source \in Seq(Byte)
      BY <2>1, Constants DEF BufferedPump
    <3> QED BY <1>3, <3>1, RunCommandRuns
  <2> QED BY <1>3, <2>1, <2>2, BufferedPumpMoves
<1> QED BY <1>1, <1>2, <1>3

-----------------------------------------------------------------------------
(* ExternalPipeProcess.                                                       *)

Conveys(x, y, i) == Moves(x, y, i) \/ Drops(x, y, i)

(* What it holds: its output, what the child has and what the child will get. *)
LEMMA HeldByExternal ==
  ASSUME NEW s \in Stage, s.kind = "external"
  PROVE  HeldBy(s) = s.pend \o (s.inbox \o s.stdin)
<1>1. s.stdin \in Seq(Nat) /\ Staged(s) = <<>>
  BY StageBytes DEF Staged, Buffering
<1>2. s.stdin \o Staged(s) = s.stdin
  BY <1>1
<1> QED BY <1>2 DEF HeldBy, Behind

(* The input of a child is thrown away.                                       *)
LEMMA NoInput ==
  ASSUME NEW x \in ViewType, NEW y \in ViewType, x.s.kind = "external", y.s.kind = "external",
         y.s.pend = x.s.pend, y.s.inbox = x.s.inbox, y.s.stdin = <<>>,
         y.in.data = x.in.data, y.out.data = x.out.data
  PROVE  Spill(x, y) /\ (x.s.stdin = <<>> => Flow(x, y))
<1>1. PICK o : o = x.out.data
  OBVIOUS
<1>2. PICK p : p = x.s.pend
  OBVIOUS
<1>3. PICK b : b = x.s.inbox
  OBVIOUS
<1>4. PICK c : c = x.s.stdin
  OBVIOUS
<1>5. x.s \in Stage /\ y.s \in Stage
  BY ViewParts
<1>6. o \in Seq(Nat) /\ p \in Seq(Nat) /\ b \in Seq(Nat) /\ c \in Seq(Nat)
  BY <1>1, <1>2, <1>3, <1>4, <1>5, ViewBytes, StageBytes
<1>7. PICK pb : pb = p \o b
  OBVIOUS
<1>8. pb \in Seq(Nat) /\ pb \o c = p \o (b \o c)
  <2>1. Joined(p, b, c)
    BY <1>6, Assoc
  <2> QED BY <1>7, <2>1 DEF Joined
<1>9. PICK h : h = o \o pb
  OBVIOUS
<1>10. h \in Seq(Nat) /\ h \o c = o \o (pb \o c)
  <2>1. Joined(o, pb, c)
    BY <1>6, <1>8, Assoc
  <2> QED BY <1>9, <2>1 DEF Joined
<1>11. Whole(x) = h \o c
  <2>1. HeldBy(x.s) = p \o (b \o c)
    BY <1>2, <1>3, <1>4, <1>5, HeldByExternal
  <2> QED BY <1>1, <1>8, <1>10, <2>1 DEF Whole
<1>12. Whole(y) = h
  <2>1. HeldBy(y.s) = p \o (b \o <<>>)
    BY <1>2, <1>3, <1>5, HeldByExternal
  <2>2. b \o <<>> = b
    BY <1>6
  <2> QED BY <1>1, <1>7, <1>9, <2>1, <2>2 DEF Whole
<1>13. Ahead(x) = Ahead(y) \o Payload(c)
  BY <1>6, <1>10, <1>11, <1>12, PayloadConcat DEF Ahead
<1>14. Payload(c) \in Seq(Nat) /\ Ahead(x) \in Seq(Nat) /\ x.in.data \in Seq(Nat)
       /\ <<>> \in Seq(Nat)
  BY <1>6, PayloadEmpty, ViewBytes
<1>15. x.in.data = <<>> \o x.in.data /\ Ahead(x) = Ahead(x) \o <<>>
  BY <1>14
<1>16. Spill(x, y)
  BY <1>13, <1>14, <1>15, PayloadEmpty DEF Spill
<1>17. ASSUME x.s.stdin = <<>>
       PROVE  Flow(x, y)
  <2>1. Whole(x) = Whole(y)
    BY <1>4, <1>10, <1>11, <1>12, <1>17
  <2> QED BY <2>1, StillFlows DEF Ahead
<1> QED BY <1>16, <1>17

(* A child that is gone reads no more, so a loss stays what it is.            *)
LEMMA DropsThenMoves ==
  ASSUME NEW i, NEW x \in ViewType, NEW y, NEW z, x.s.kind = "external",
         Drops(x, y, i), Moves(y, z, i)
  PROVE  Drops(x, z, i)
<1>1. y \in ViewType /\ z \in ViewType /\ Links(x, y, i) /\ Links(y, z, i)
  BY DEF Drops, Moves, Links, Good
<1>2. Links(x, z, i)
  BY <1>1, LinksTrans
<1>3. y.s.kind = "external" /\ x.s.live /\ ~y.s.live /\ ~z.s.live /\ (Gave(y.s) => Gave(z.s))
  BY <1>1 DEF Drops, Links, Keeps, KeepsStage, Buffering
<1>4. z.in.data = y.in.data
  BY <1>1, <1>3 DEF Links, Deaf
<1>5. Ahead(z) = Ahead(y)
  <2>1. PICK u \in Seq(Nat) : y.in.data = u \o z.in.data /\ Ahead(z) = Ahead(y) \o Payload(u)
    BY DEF Moves, Flow
  <2>2. y.in.data \in Seq(Nat) /\ Ahead(y) \in Seq(Nat)
    BY <1>1, ViewBytes
  <2>3. u = <<>>
    <3>1. u \o y.in.data = y.in.data
      BY <1>4, <2>1
    <3>2. Len(u \o y.in.data) = Len(u) + Len(y.in.data)
      BY <2>2, ConcatProperties
    <3>3. Len(u) \in Nat /\ Len(y.in.data) \in Nat
      BY <2>2
    <3>4. Len(u) = 0
      BY <3>1, <3>2, <3>3
    <3> QED BY <3>4, EmptySeq
  <2>4. Ahead(y) \o <<>> = Ahead(y)
    BY <2>2
  <2> QED BY <2>1, <2>3, <2>4, PayloadEmpty
<1>6. Spill(x, z)
  BY <1>4, <1>5 DEF Drops, Spill
<1> QED BY <1>2, <1>3, <1>6 DEF Drops

(* Something, then a move; a move, then something.                            *)
LEMMA ConveysTrans ==
  ASSUME NEW i, NEW x \in ViewType, NEW y, NEW z, x.s.kind = "external"
  PROVE  /\ Conveys(x, y, i) /\ Moves(y, z, i) => Conveys(x, z, i)
         /\ Moves(x, y, i) /\ Conveys(y, z, i) => Conveys(x, z, i)
BY MovesTrans, DropsThenMoves DEF Conveys

(* cancel_process, once the reader has gone.                                  *)
LEMMA CancelConveys ==
  ASSUME NEW i, NEW x, Good(x, i), x.s.kind = "external", x.out.read_closed,
         NEW status \in Nat, NEW y, y = CancelProcess(x, status)
  PROVE  Conveys(x, y, i)
<1>1. x \in ViewType
  BY DEF Good
<1>2. x.s \in Stage /\ x.in \in PipeType(Byte) /\ x.out \in PipeType(Byte)
  BY <1>1, ViewParts
<1>3. PICK code : code = IF x.s.status # NoStatus THEN x.s.status ELSE status
  OBVIOUS
<1>4. PICK t : t = [x.s EXCEPT !.live = FALSE, !.stdin = <<>>, !.sclosed = TRUE,
                               !.status = code, !.rc = code, !.fin = TRUE]
  OBVIOUS
<1>5. y.s = t /\ y.in = CloseRead(x.in) /\ y.out = CloseWrite(x.out)
  BY <1>3, <1>4 DEF CancelProcess
<1>6. /\ t.kind = x.s.kind /\ t.pend = x.s.pend /\ t.inbox = x.s.inbox /\ t.stdin = <<>>
      /\ t.se = x.s.se /\ t.status = code /\ t.rc = code /\ t.fin /\ ~t.live
  BY <1>2, <1>4 DEF Stage
<1>7. Keeps(x, y)
  BY <1>1, CancelKeeps
<1>8. y.in.data = x.in.data /\ y.out.data = x.out.data
  BY <1>2, <1>5, CloseFacts
<1>9. Good(y, i)
  <2>1. Sane(t, i) /\ AtEnd(t, y.in, i)
    BY <1>6 DEF Good, Sane, AtEnd, Buffering
  <2> QED BY <1>5, <1>7, <2>1 DEF Good, Keeps, KeepsStage
<1>10. Gave(x.s) => Gave(y.s)
  <2>1. ~x.s.live => code = x.s.rc
    BY <1>2, <1>3 DEF Good, Sane, Stage, NoStatus
  <2> QED BY <1>5, <1>6, <2>1 DEF Gave
<1>11. Links(x, y, i)
  BY <1>5, <1>6, <1>7, <1>8, <1>9, <1>10 DEF Links
<1>12. Spill(x, y) /\ (x.s.stdin = <<>> => Flow(x, y))
  <2>1. y \in ViewType
    BY <1>7 DEF Keeps
  <2> QED BY <1>1, <1>5, <1>6, <1>8, <2>1, NoInput
<1>13. CASE x.s.live
  BY <1>5, <1>6, <1>11, <1>12, <1>13 DEF Conveys, Drops
<1>14. CASE ~x.s.live
  BY <1>11, <1>12, <1>14 DEF Conveys, Moves, Good, Sane
<1> QED BY <1>13, <1>14

(* The stage ends: close_write, finished.                                     *)
LEMMA ExternalEndMoves ==
  ASSUME NEW i, NEW x, Good(x, i), NEW y, y = ExternalEnd(x)
  PROVE  Moves(x, y, i) /\ y.s.live = x.s.live
<1>1. y = BufferedEnd(x)
  BY DEF ExternalEnd, BufferedEnd
<1> QED BY <1>1, BufferedEndPasses DEF Passes, SameControl

(* A part of a poll that only says how it ended.                              *)
LEMMA ReturnMoves ==
  ASSUME NEW i, NEW x, Good(x, i), NEW y, NEW r \in Outcome, y = Return(x, r)
  PROVE  Moves(x, y, i) /\ y.s = x.s
<1>1. x \in ViewType
  BY DEF Good
<1> QED BY <1>1, UntouchedPasses, ReturnKeeps DEF Passes

(* A part of a poll that does nothing.                                        *)
LEMMA StayMoves ==
  ASSUME NEW i, NEW x, Good(x, i)
  PROVE  Moves(x, x, i)
<1>1. x = Return(x, x.res) /\ x.res \in Outcome
  BY DEF Return, Good, ViewType
<1> QED BY <1>1, ReturnMoves

(* What a part of the output that reaches the pipe leaves alone.              *)
Flushed(x, y, i) == Moves(x, y, i) /\ SameControl(x.s, y.s)

(* flush_pending_output, its stdout part.                                     *)
LEMMA FlushOutput ==
  ASSUME Config, NEW i, NEW x, Good(x, i), x.s.kind = "external",
         NEW w, w = FlushPart(x, x.s.pend),
         NEW t, t = [x.s EXCEPT !.pend = DropBytes(x.s.pend, w.n)],
         NEW y, y = [s |-> t, in |-> x.in, out |-> w.pipe, res |-> "going"]
  PROVE  Flushed(x, y, i) /\ y.s.se = x.s.se
<1>1. x \in ViewType
  BY DEF Good
<1>2. x.s \in Stage /\ x.out \in PipeType(Byte)
      /\ x.s.pend \in Seq(Byte) /\ x.s.pend \in Seq(Nat) /\ Behind(x.s) \in Seq(Nat)
  BY <1>1, ViewParts, StageBytes DEF Stage
<1>3. w = Write(x.out, x.s.pend, Cap)
  BY DEF FlushPart
<1>4. Written(x.out, x.s.pend, w) /\ Wrote(Byte, x.out, x.s.pend, Cap, w)
      /\ Shifted(x.out, x.s.pend, Behind(x.s), w)
  BY <1>2, <1>3, CapType, WriteFacts, WriteKeeps, WriteMovesOutput
<1>5. /\ t \in Stage /\ KeepsStage(x.s, t) /\ SameControl(x.s, t) /\ t.fin = x.s.fin
      /\ t.pend = DropBytes(x.s.pend, w.n) /\ t.inbox = x.s.inbox /\ t.stdin = x.s.stdin
      /\ t.se = x.s.se
  BY <1>2, <1>4 DEF Stage, SameControl, Written, KeepsStage, Fit
<1>6. Keeps(x, y) /\ y.s = t /\ y.in = x.in
  BY <1>1, <1>2, <1>5, FlushPartKeeps
<1>7. y.out = w.pipe
  OBVIOUS
<1>8. Good(y, i)
  <2>1. Sane(t, i) /\ AtEnd(t, x.in, i) /\ Fit(t)
    BY <1>5 DEF Good, Sane, AtEnd, SameControl, KeepsStage, Buffering
  <2> QED BY <1>6, <2>1 DEF Good, Keeps
<1>9. Behind(t) = Behind(x.s)
  BY <1>5 DEF Behind, Staged, SameControl, Buffering
<1>10. Ahead(y) = Ahead(x)
  BY <1>4, <1>5, <1>6, <1>7, <1>9 DEF Ahead, Whole, HeldBy, Shifted
<1>11. y.out.write_closed = x.out.write_closed
  BY <1>4, <1>7 DEF Wrote
<1>12. Flow(x, y)
  BY <1>1, <1>6, <1>8, <1>10, StillFlows DEF Good
<1>13. (Gave(x.s) => Gave(y.s)) /\ (y.s.live => x.s.live)
  BY <1>5, <1>6 DEF Gave, SameControl
<1> QED BY <1>5, <1>6, <1>8, <1>11, <1>12, <1>13 DEF Flushed, Moves, Links

(* ... and its stderr part.                                                   *)
LEMMA FlushErrors ==
  ASSUME Config, NEW i, NEW x, Good(x, i), x.s.kind = "external",
         NEW w, w = FlushPart(x, x.s.se),
         NEW t, t = [x.s EXCEPT !.se = DropBytes(x.s.se, w.n)],
         NEW y, y = [s |-> t, in |-> x.in, out |-> w.pipe, res |-> "going"]
  PROVE  Flushed(x, y, i)
<1>1. x \in ViewType
  BY DEF Good
<1>2. x.s \in Stage /\ x.out \in PipeType(Byte) /\ x.s.se \in Seq(Byte)
      /\ HeldBy(x.s) \in Seq(Nat) /\ Payload(x.s.se) = <<>>
  BY <1>1, ViewParts, StageBytes DEF Stage, Good, Sane
<1>3. w = Write(x.out, x.s.se, Cap)
  BY DEF FlushPart
<1>4. Written(x.out, x.s.se, w) /\ Wrote(Byte, x.out, x.s.se, Cap, w)
  BY <1>2, <1>3, CapType, WriteFacts, WriteKeeps
<1>5. /\ t \in Stage /\ KeepsStage(x.s, t) /\ SameControl(x.s, t) /\ t.fin = x.s.fin
      /\ t.pend = x.s.pend /\ t.inbox = x.s.inbox /\ t.stdin = x.s.stdin
      /\ t.se = DropBytes(x.s.se, w.n)
  BY <1>2, <1>4 DEF Stage, SameControl, Written, KeepsStage, Fit
<1>6. Keeps(x, y) /\ y.s = t /\ y.in = x.in
  BY <1>1, <1>2, <1>5, FlushPartKeeps
<1>7. y.out = w.pipe
  OBVIOUS
<1>8. HeldBy(t) = HeldBy(x.s)
  BY <1>5 DEF HeldBy, Behind, Staged, SameControl, Buffering
<1>9. Ahead(y) = Ahead(x) /\ Payload(t.se) = <<>>
  BY <1>2, <1>3, <1>5, <1>6, <1>7, <1>8, WriteMovesStderr DEF Ahead, Whole
<1>10. Good(y, i)
  <2>1. Sane(t, i) /\ AtEnd(t, x.in, i) /\ Fit(t)
    BY <1>5, <1>9 DEF Good, Sane, AtEnd, SameControl, KeepsStage, Buffering
  <2> QED BY <1>6, <2>1 DEF Good, Keeps
<1>11. y.out.write_closed = x.out.write_closed
  BY <1>4, <1>7 DEF Wrote
<1>12. Flow(x, y)
  BY <1>1, <1>6, <1>9, <1>10, StillFlows DEF Good
<1>13. (Gave(x.s) => Gave(y.s)) /\ (y.s.live => x.s.live)
  BY <1>5, <1>6 DEF Gave, SameControl
<1> QED BY <1>5, <1>6, <1>10, <1>11, <1>12, <1>13 DEF Flushed, Moves, Links

(* Two parts of a flush.                                                      *)
LEMMA FlushedTrans ==
  ASSUME NEW i, NEW x \in ViewType, NEW y, NEW z, Flushed(x, y, i), Flushed(y, z, i)
  PROVE  Flushed(x, z, i)
BY MovesTrans DEF Flushed, SameControl

(* flush_pending_output.                                                      *)
LEMMA FlushConveys ==
  ASSUME Config, NEW i, NEW x, Good(x, i), x.s.kind = "external", NEW f, f = Flush(x)
  PROVE  Conveys(x, f, i) /\ (f.res = "going" => Flushed(x, f, i))
<1>1. x \in ViewType
  BY DEF Good
<1>2. x.s \in Stage /\ x.out \in PipeType(Byte) /\ x.s.pend \in Seq(Byte)
      /\ x.s.se \in Seq(Byte)
  BY <1>1, ViewParts DEF Stage
<1>3. PICK a : a = FlushPart(x, x.s.pend)
  OBVIOUS
<1>4. PICK t : t = [x.s EXCEPT !.pend = DropBytes(x.s.pend, a.n)]
  OBVIOUS
<1>5. PICK y : y = [s |-> t, in |-> x.in, out |-> a.pipe, res |-> "going"]
  OBVIOUS
<1>6. PICK b : b = FlushPart(y, x.s.se)
  OBVIOUS
<1>7. PICK u : u = [y.s EXCEPT !.se = DropBytes(y.s.se, b.n)]
  OBVIOUS
<1>8. PICK z : z = [s |-> u, in |-> x.in, out |-> b.pipe, res |-> "going"]
  OBVIOUS
<1>9. f = IF x.s.pend # <<>> /\ a.res = "broken" THEN CancelProcess(x, 141)
          ELSE IF y.s.pend # <<>> THEN Return(y, "pending_write")
          ELSE IF x.s.se # <<>> /\ b.res = "broken" THEN CancelProcess(y, 141)
          ELSE IF z.s.se # <<>> THEN Return(z, "pending_write")
          ELSE z
  BY <1>3, <1>4, <1>5, <1>6, <1>7, <1>8 DEF Flush
<1>10. Flushed(x, y, i) /\ y.s.se = x.s.se
  BY <1>3, <1>4, <1>5, FlushOutput
<1>11. Good(y, i) /\ y.s.kind = "external" /\ y \in ViewType /\ y.in = x.in
       /\ y.out.read_closed = x.out.read_closed
  <2>1. y.in = x.in
    BY <1>5
  <2> QED BY <1>10, <2>1 DEF Flushed, Moves, Links, Keeps, KeepsOut, KeepsStage, Good
<1>12. Flushed(y, z, i)
  <2>1. b = FlushPart(y, y.s.se) /\ z = [s |-> u, in |-> y.in, out |-> b.pipe, res |-> "going"]
    BY <1>6, <1>8, <1>10, <1>11
  <2> QED BY <1>7, <1>11, <2>1, FlushErrors
<1>13. Flushed(x, z, i)
  BY <1>1, <1>10, <1>12, FlushedTrans
<1>14. Good(z, i)
  BY <1>13 DEF Flushed, Moves, Links
<1>15. (a.res = "broken" \/ b.res = "broken") => x.out.read_closed
  <2>1. y.out \in PipeType(Byte)
    BY <1>11, ViewParts
  <2>2. Written(x.out, x.s.pend, a) /\ Written(y.out, x.s.se, b)
    BY <1>2, <1>3, <1>6, <2>1, WriteKeeps DEF FlushPart
  <2> QED BY <1>11, <2>2 DEF Written
<1>16. CASE x.s.pend # <<>> /\ a.res = "broken"
  <2>1. f = CancelProcess(x, 141)
    BY <1>9, <1>16
  <2>2. f.res # "going"
    BY <2>1 DEF CancelProcess
  <2> QED BY <1>15, <1>16, <2>1, <2>2, CancelConveys
<1>17. CASE f = Return(y, "pending_write")
  <2>1. Moves(y, f, i) /\ f.res # "going"
    BY <1>11, <1>17, ReturnMoves, ReturnKeeps DEF Outcome
  <2> QED BY <1>1, <1>10, <2>1, ConveysTrans DEF Flushed, Conveys
<1>18. CASE f = CancelProcess(y, 141) /\ b.res = "broken"
  <2>1. f.res # "going"
    BY <1>18 DEF CancelProcess
  <2>2. Conveys(y, f, i)
    BY <1>11, <1>15, <1>18, CancelConveys
  <2> QED BY <1>1, <1>10, <2>1, <2>2, ConveysTrans DEF Flushed
<1>19. CASE f = Return(z, "pending_write")
  <2>1. Moves(z, f, i) /\ f.res # "going"
    BY <1>14, <1>19, ReturnMoves, ReturnKeeps DEF Outcome, Good
  <2> QED BY <1>1, <1>13, <2>1, ConveysTrans DEF Flushed, Conveys
<1>20. CASE f = z
  BY <1>13, <1>20 DEF Flushed, Conveys
<1> QED BY <1>9, <1>16, <1>17, <1>18, <1>19, <1>20

(* fail, for a reason that shows or when the child has had all its input.     *)
LEMMA FailConveys ==
  ASSUME Config, NEW i, NEW x, Good(x, i), x.s.kind = "external", x.s.live,
         NEW status \in Nat, Trusty => status # 0 \/ x.s.sclosed,
         NEW z, z = Fail(x, status, i)
  PROVE  Conveys(x, z, i) /\ z.res # "going"
<1>1. x \in ViewType
  BY DEF Good
<1>2. x.s \in Stage /\ x.in \in PipeType(Byte) /\ x.out \in PipeType(Byte)
  BY <1>1, ViewParts
<1>3. PICK e : e = x.s.se \o Diagnostic(i)
  OBVIOUS
<1>4. PICK t : t = [x.s EXCEPT !.live = FALSE, !.stdin = <<>>, !.sclosed = TRUE,
                               !.status = status, !.rc = status, !.eof = TRUE, !.se = e]
  OBVIOUS
<1>5. PICK y : y = [s |-> t, in |-> CloseRead(x.in), out |-> x.out, res |-> "going"]
  OBVIOUS
<1>6. PICK f : f = Flush(y)
  OBVIOUS
<1>7. z = IF f.res # "going" THEN Return(f, "pending_write") ELSE ExternalEnd(f)
  BY <1>3, <1>4, <1>5, <1>6 DEF Fail
<1>8. e \in Seq(Byte) /\ Payload(e) = <<>>
  <2>1. x.s.se \in Seq(Byte)
    BY <1>2 DEF Stage
  <2> QED BY <1>3, <2>1, QuietDiagnostic DEF Good, Sane
<1>9. /\ t \in Stage /\ KeepsStage(x.s, t)
      /\ t.kind = x.s.kind /\ t.pend = x.s.pend /\ t.inbox = x.s.inbox /\ t.stdin = <<>>
      /\ t.se = e /\ t.status = status /\ t.rc = status /\ t.fin = x.s.fin /\ ~t.live
  <2>1. <<>> \in Seq(Byte)
    OBVIOUS
  <2> QED BY <1>2, <1>4, <1>8, <2>1 DEF Stage, KeepsStage, Fit
<1>10. Keeps(x, y) /\ y.s = t /\ y.in = CloseRead(x.in) /\ y.out = x.out
  <2>1. /\ CloseRead(x.in) \in PipeType(Byte) /\ KeepsIn(x.in, CloseRead(x.in))
        /\ KeepsOut(x.out, x.out) /\ "going" \in Outcome
    BY <1>2, CloseFacts, PipeKept DEF Outcome
  <2> QED BY <1>2, <1>5, <1>9, <2>1, MakeView
<1>11. y.in.data = x.in.data /\ y.in.read_closed
  BY <1>2, <1>10, CloseFacts
<1>12. Good(y, i)
  <2>1. Sane(t, i) /\ AtEnd(t, y.in, i) /\ Fit(t)
    BY <1>8, <1>9 DEF Good, Sane, AtEnd, Buffering, KeepsStage
  <2> QED BY <1>10, <2>1 DEF Good, Keeps
<1>13. status # 0 => Gave(y.s)
  BY <1>9, <1>10 DEF Gave
<1>14. Trusty /\ status = 0 => x.s.stdin = <<>> /\ (i > 1 => x.in.read_closed)
  BY DEF Good, Sane, AtEnd
<1>15. Links(x, y, i)
  <2>1. ~Gave(x.s)
    BY DEF Gave
  <2> QED BY <1>9, <1>10, <1>11, <1>12, <1>13, <1>14, <2>1 DEF Links
<1>16. Spill(x, y) /\ (x.s.stdin = <<>> => Flow(x, y))
  <2>1. y \in ViewType
    BY <1>12 DEF Good
  <2> QED BY <1>1, <1>9, <1>10, <1>11, <2>1, NoInput
<1>17. Conveys(x, y, i)
  BY <1>9, <1>10, <1>13, <1>14, <1>15, <1>16 DEF Conveys, Moves, Drops
<1>18. Moves(y, f, i)
  <2>1. Conveys(y, f, i)
    BY <1>6, <1>9, <1>10, <1>12, FlushConveys
  <2> QED BY <1>9, <1>10, <2>1 DEF Conveys, Drops, Buffering
<1>19. Good(f, i) /\ f \in ViewType
  BY <1>18 DEF Moves, Links, Good
<1>20. Moves(f, z, i) /\ z.res # "going"
  <2>1. CASE f.res # "going"
    BY <1>7, <1>19, <2>1, ReturnMoves, ReturnKeeps DEF Outcome
  <2>2. CASE f.res = "going"
    <3>1. z = ExternalEnd(f)
      BY <1>7, <2>2
    <3>2. z.res = "exited"
      BY <3>1 DEF ExternalEnd
    <3> QED BY <1>19, <3>1, <3>2, ExternalEndMoves
  <2> QED BY <2>1, <2>2
<1>21. Conveys(x, f, i)
  BY <1>1, <1>17, <1>18, ConveysTrans
<1> QED BY <1>1, <1>20, <1>21, ConveysTrans

(* fill_stdin.                                                                *)
LEMMA FillStdinMoves ==
  ASSUME Config, NEW i \in Nat \ {0}, NEW x, Good(x, i), x.s.kind = "external", x.s.live,
         NEW y, y = FillStdin(x, i = 1)
  PROVE  Moves(x, y, i) /\ y.s.live
<1>1. x \in ViewType
  BY DEF Good
<1>2. x.s \in Stage /\ x.in \in PipeType(Byte) /\ x.out \in PipeType(Byte)
  BY <1>1, ViewParts
<1>3. PICK r : r = Read(x.in, Chunk)
  OBVIOUS
<1>4. PICK p : p = IF i = 1 THEN x.in ELSE CloseRead(x.in)
  OBVIOUS
<1>5. PICK t : t = [x.s EXCEPT !.sclosed = TRUE]
  OBVIOUS
<1>6. PICK u : u = [x.s EXCEPT !.stdin = r.bytes]
  OBVIOUS
<1>7. y = IF x.s.sclosed \/ ~x.s.writable \/ x.s.stdin # <<>> THEN x
          ELSE IF i = 1 \/ r.res = "eof"
          THEN [s |-> t, in |-> p, out |-> x.out, res |-> "going"]
          ELSE [s |-> u, in |-> r.pipe, out |-> x.out, res |-> "going"]
  BY <1>3, <1>4, <1>5, <1>6 DEF FillStdin
<1>8. Taken(x.in, r) /\ Fetched(Byte, x.in, r)
  BY <1>2, <1>3, Constants, ReadKeeps, ReadFacts
<1>9. KeepsOut(x.out, x.out) /\ "going" \in Outcome /\ ~Gave(x.s)
  BY <1>2, PipeKept DEF Outcome, Gave
<1>10. CASE y = x
  BY <1>10, StayMoves
<1>11. CASE ~x.s.sclosed /\ x.s.stdin = <<>> /\ (i = 1 \/ r.res = "eof")
            /\ y = [s |-> t, in |-> p, out |-> x.out, res |-> "going"]
  <2>1. /\ p \in PipeType(Byte) /\ KeepsIn(x.in, p) /\ p.data = x.in.data
        /\ i > 1 => p.read_closed /\ x.in.write_closed
    <3>1. r.res = "eof" => x.in.write_closed
      BY <1>8 DEF Taken
    <3> QED BY <1>2, <1>4, <1>11, <3>1, CloseFacts, PipeKept
  <2>2. /\ t \in Stage /\ KeepsStage(x.s, t) /\ SameBuffers(x.s, t) /\ t.fin = x.s.fin
        /\ t.live = x.s.live /\ t.sclosed
    BY <1>2, <1>5 DEF Stage, KeepsStage, Fit, SameBuffers
  <2>3. Keeps(x, y) /\ y.s = t /\ y.in = p /\ y.out = x.out
    BY <1>2, <1>9, <1>11, <2>1, <2>2, MakeView
  <2>4. Good(y, i)
    <3>1. Sane(t, i) /\ AtEnd(t, p, i) /\ Fit(t)
      BY <1>11, <2>1, <2>2 DEF Good, Sane, AtEnd, Buffering, KeepsStage, SameBuffers
    <3> QED BY <2>3, <3>1 DEF Good, Keeps
  <2>5. Flow(x, y)
    <3>1. HeldBy(t) = HeldBy(x.s)
      BY <2>2, SameHeld
    <3> QED BY <1>1, <2>1, <2>3, <2>4, <3>1, StillFlows DEF Good, Ahead, Whole
  <2>6. Links(x, y, i)
    BY <1>9, <2>1, <2>2, <2>3, <2>4 DEF Links
  <2> QED BY <2>2, <2>3, <2>5, <2>6 DEF Moves
<1>12. CASE ~x.s.sclosed /\ x.s.stdin = <<>> /\ i # 1
            /\ y = [s |-> u, in |-> r.pipe, out |-> x.out, res |-> "going"]
  <2>1. /\ r.bytes \in Seq(Byte) /\ r.pipe \in PipeType(Byte) /\ KeepsIn(x.in, r.pipe)
        /\ r.pipe.read_closed = x.in.read_closed /\ r.bytes \in Seq(Nat)
    BY <1>8, BytesAreNat DEF Taken, Fetched
  <2>2. /\ u \in Stage /\ KeepsStage(x.s, u) /\ SameControl(x.s, u) /\ u.fin = x.s.fin
        /\ u.pend = x.s.pend /\ u.inbox = x.s.inbox /\ u.stdin = r.bytes /\ u.se = x.s.se
    BY <1>2, <1>6, <2>1 DEF Stage, KeepsStage, Fit, SameControl
  <2>3. Keeps(x, y) /\ y.s = u /\ y.in = r.pipe /\ y.out = x.out
    BY <1>2, <1>9, <1>12, <2>1, <2>2, MakeView
  <2>4. Good(y, i)
    <3>1. Sane(u, i) /\ AtEnd(u, r.pipe, i) /\ Fit(u)
      BY <1>12, <2>2 DEF Good, Sane, AtEnd, Buffering, KeepsStage, SameControl
    <3> QED BY <2>3, <3>1 DEF Good, Keeps
  <2>5. HeldBy(y.s) = HeldBy(x.s) \o r.bytes
    <3>1. PICK a : a = x.s.pend
      OBVIOUS
    <3>2. PICK b : b = x.s.inbox
      OBVIOUS
    <3>3. PICK c : c = r.bytes
      OBVIOUS
    <3>4. a \in Seq(Nat) /\ b \in Seq(Nat) /\ c \in Seq(Nat) /\ b \o <<>> = b
      <4>1. a \in Seq(Nat) /\ b \in Seq(Nat)
        BY <1>2, <3>1, <3>2, StageBytes
      <4> QED BY <2>1, <3>3, <4>1
    <3>5. HeldBy(x.s) = a \o b
      BY <1>2, <1>12, <3>1, <3>2, <3>4, HeldByExternal
    <3>6. HeldBy(u) = a \o (b \o c)
      BY <2>2, <3>1, <3>2, <3>3, HeldByExternal DEF SameControl
    <3>7. Joined(a, b, c)
      BY <3>4, Assoc
    <3> QED BY <2>3, <3>3, <3>5, <3>6, <3>7 DEF Joined
  <2>6. Flow(x, y)
    <3>1. y \in ViewType /\ y.in.data = r.pipe.data /\ y.out.data = x.out.data
      BY <2>3, <2>4 DEF Good
    <3> QED BY <1>1, <1>3, <2>5, <3>1, ReadBehind
  <2>7. ~Deaf(x.s, i)
    BY <1>12 DEF Deaf
  <2>8. Links(x, y, i)
    BY <1>9, <2>1, <2>2, <2>3, <2>4, <2>7 DEF Links, SameControl
  <2> QED BY <2>2, <2>3, <2>6, <2>8 DEF Moves, SameControl
<1> QED BY <1>7, <1>10, <1>11, <1>12

(* Bytes move inside the stage.                                               *)
LEMMA InnerMoves ==
  ASSUME NEW i, NEW x, Good(x, i), x.s.kind = "external", x.s.live,
         NEW t \in Stage, KeepsStage(x.s, t), Sane(t, i), t.kind = x.s.kind, t.live,
         t.sclosed = x.s.sclosed, t.fin = x.s.fin, HeldBy(t) = HeldBy(x.s),
         NEW y, y = [x EXCEPT !.s = t]
  PROVE  Moves(x, y, i) /\ y.s = t /\ y.res = x.res /\ Good(y, i)
<1>1. x \in ViewType
  BY DEF Good
<1>2. Keeps(x, y) /\ y.s = t /\ y.in = x.in /\ y.out = x.out /\ y.res = x.res
  BY <1>1, PutStage
<1>3. Good(y, i)
  <2>1. AtEnd(t, x.in, i) /\ Fit(t)
    BY DEF Good, AtEnd, KeepsStage
  <2> QED BY <1>2, <2>1 DEF Good, Keeps
<1>4. Flow(x, y)
  BY <1>1, <1>2, <1>3, StillFlows DEF Good, Ahead, Whole
<1>5. ~Gave(x.s)
  BY DEF Gave
<1> QED BY <1>2, <1>3, <1>4, <1>5 DEF Moves, Links

(* Bytes at the front of one buffer go to the end of the one before it.       *)
LEMMA Handover ==
  ASSUME NEW a \in Seq(Nat), NEW b \in Seq(Byte), NEW n \in 0..Len(b), NEW c \in Seq(Nat)
  PROVE  (a \o TakeBytes(b, n)) \o (DropBytes(b, n) \o c) = a \o (b \o c)
<1>1. PICK p : p = TakeBytes(b, n)
  OBVIOUS
<1>2. PICK q : q = DropBytes(b, n)
  OBVIOUS
<1>3. p \in Seq(Byte) /\ q \in Seq(Byte) /\ p \o q = b
  BY <1>1, <1>2, Cut, Zenon
<1>4. p \in Seq(Nat) /\ q \in Seq(Nat)
  BY <1>3, BytesAreNat
<1>5. PICK r : r = q \o c
  OBVIOUS
<1>6. r \in Seq(Nat)
  BY <1>4, <1>5, ConcatProperties
<1>7. Joined(a, p, r) /\ Joined(p, q, c)
  BY <1>4, <1>6, Assoc
<1> QED BY <1>1, <1>2, <1>3, <1>5, <1>7 DEF Joined

(* write_stdin_chunk, whatever the host answers.                              *)
LEMMA WriteStdinConveys ==
  ASSUME Config, NEW i, NEW x, Good(x, i), x.s.kind = "external", x.s.live,
         NEW w, w \in HostWrites(x.s), NEW v, v = WriteStdin(x, w, i)
  PROVE  Conveys(x, v, i)
<1>1. x \in ViewType
  BY DEF Good
<1>2. x.s \in Stage
  BY <1>1, ViewParts
<1>3. /\ x.s.stdin \in Seq(Byte) /\ x.s.inbox \in Seq(Byte) /\ x.s.nin \in Nat
      /\ Len(x.s.stdin) \in Nat
  BY <1>2, LenProperties DEF Stage
<1>4. w.accepted \in Nat /\ w.would_block \in BOOLEAN
  <2> DEFINE k == IF "over" \in Faults THEN 1 ELSE 0
  <2>1. k \in Nat
    OBVIOUS
  <2>2. w.accepted \in 0..(Len(x.s.stdin) + k) /\ w.would_block \in BOOLEAN
    BY DEF HostWrites
  <2> HIDE DEF k
  <2> QED BY <1>3, <2>1, <2>2
<1>5. CASE ~Writing(x.s)
  <2>1. v = x
    BY <1>5 DEF WriteStdin
  <2> QED BY <2>1, StayMoves DEF Conveys
<1>6. CASE Writing(x.s) /\ w.accepted > Len(x.s.stdin)
  <2>1. v = Fail(x, 126, i)
    BY <1>6 DEF WriteStdin
  <2>2. 126 \in Nat /\ 126 # 0
    OBVIOUS
  <2> QED BY <2>1, <2>2, FailConveys
<1>7. CASE Writing(x.s) /\ ~(w.accepted > Len(x.s.stdin))
  <2>1. PICK d : d = DropBytes(x.s.stdin, w.accepted)
    OBVIOUS
  <2>2. PICK e : e = x.s.inbox \o TakeBytes(x.s.stdin, w.accepted)
    OBVIOUS
  <2>3. PICK t : t = [x.s EXCEPT !.stdin = d, !.inbox = e]
    OBVIOUS
  <2>4. PICK y : y = [x EXCEPT !.s = t]
    OBVIOUS
  <2>5. PICK n : n = y.s.nin + w.accepted
    OBVIOUS
  <2>6. PICK open : open = ~w.would_block
    OBVIOUS
  <2>7. PICK u : u = [y.s EXCEPT !.nin = n, !.writable = open]
    OBVIOUS
  <2>8. PICK z : z = [y EXCEPT !.s = u]
    OBVIOUS
  <2>9. v = Fail(y, 141, i) \/ v = Fail(y, 125, i) \/ v = z
    BY <1>7, <2>1, <2>2, <2>3, <2>4, <2>5, <2>6, <2>7, <2>8 DEF WriteStdin
  <2>10. w.accepted \in 0..Len(x.s.stdin)
    BY <1>3, <1>4, <1>7
  <2>11. d \in Seq(Byte) /\ TakeBytes(x.s.stdin, w.accepted) \in Seq(Byte)
    BY <1>3, <2>1, <2>10, Cut
  <2>12. e \in Seq(Byte)
    BY <1>3, <2>2, <2>11
  <2>13. /\ t \in Stage /\ KeepsStage(x.s, t) /\ SameControl(x.s, t) /\ t.fin = x.s.fin
         /\ t.pend = x.s.pend /\ t.inbox = e /\ t.stdin = d /\ t.se = x.s.se
         /\ t.nin = x.s.nin
    BY <1>2, <2>3, <2>11, <2>12 DEF Stage, KeepsStage, Fit, SameControl
  <2>14. HeldBy(t) = HeldBy(x.s)
    <3>1. HeldBy(x.s) = x.s.pend \o (x.s.inbox \o x.s.stdin)
      BY <1>2, HeldByExternal
    <3>2. HeldBy(t) = x.s.pend \o (e \o d)
      BY <2>13, HeldByExternal DEF SameControl
    <3>3. e \o d = x.s.inbox \o x.s.stdin
      <4>1. x.s.inbox \in Seq(Nat) /\ <<>> \in Seq(Nat) /\ d \in Seq(Nat) /\ x.s.stdin \in Seq(Nat)
        BY <1>2, <2>11, StageBytes, BytesAreNat
      <4>2. (x.s.inbox \o TakeBytes(x.s.stdin, w.accepted))
                \o (DropBytes(x.s.stdin, w.accepted) \o <<>>)
                = x.s.inbox \o (x.s.stdin \o <<>>)
        BY <1>3, <2>10, <4>1, Handover
      <4>3. d \o <<>> = d /\ x.s.stdin \o <<>> = x.s.stdin
        BY <4>1
      <4> QED BY <2>1, <2>2, <4>2, <4>3
    <3> QED BY <3>1, <3>2, <3>3
  <2>15. Sane(t, i)
    BY <1>7, <2>13 DEF Good, Sane, SameControl, Buffering, Writing
  <2>16. Moves(x, y, i) /\ y.s = t /\ Good(y, i)
    <3>1. t.kind = x.s.kind /\ t.live /\ t.sclosed = x.s.sclosed
      BY <2>13 DEF SameControl
    <3> QED BY <2>4, <2>13, <2>14, <2>15, <3>1, InnerMoves
  <2>17. n \in Nat /\ open \in BOOLEAN /\ y.s \in Stage /\ y.s.live /\ y.s.kind = "external"
    <3>1. y.s.nin \in Nat /\ y.s \in Stage /\ y.s.live /\ y.s.kind = "external"
      BY <1>3, <2>13, <2>16 DEF SameControl
    <3>2. n \in Nat
      BY <1>4, <2>5, <3>1
    <3>3. open \in BOOLEAN
      BY <2>6
    <3> QED BY <3>1, <3>2, <3>3
  <2>18. CASE v = z
    <3>1. /\ u \in Stage /\ KeepsStage(y.s, u) /\ SameControl(y.s, u) /\ SameBuffers(y.s, u)
          /\ u.fin = y.s.fin
      BY <2>7, <2>17 DEF Stage, KeepsStage, Fit, SameControl, SameBuffers
    <3>2. Sane(u, i) /\ HeldBy(u) = HeldBy(y.s)
      BY <2>16, <3>1, SameHeld DEF Good, Sane, SameControl, SameBuffers
    <3>3. Moves(y, z, i)
      BY <2>8, <2>16, <2>17, <3>1, <3>2, InnerMoves DEF SameControl
    <3> QED BY <1>1, <2>16, <2>18, <3>3, ConveysTrans DEF Conveys
  <2>19. CASE v = Fail(y, 141, i) \/ v = Fail(y, 125, i)
    <3>1. PICK status \in {141, 125} : v = Fail(y, status, i)
      BY <2>19
    <3>2. status \in Nat /\ status # 0
      OBVIOUS
    <3>3. Conveys(y, v, i)
      BY <2>16, <2>17, <3>1, <3>2, FailConveys
    <3> QED BY <1>1, <2>16, <3>3, ConveysTrans
  <2> QED BY <2>9, <2>18, <2>19
<1> QED BY <1>5, <1>6, <1>7

(* What a host may report.                                                    *)
LEMMA HostPollFacts ==
  ASSUME NEW s \in Stage, NEW r, r \in HostPolls(s)
  PROVE  /\ r.stdout \in 0..Len(s.inbox) /\ r.stderr \in Nat /\ r.exits \in BOOLEAN
         /\ r.eof \in BOOLEAN
         /\ r.status \in Nat /\ r.writable \in BOOLEAN
         /\ r.error => "error" \in Faults
         /\ r.exits => "exit" \in Faults \/ s.sclosed
<1>1. s.inbox \in Seq(Byte) /\ Len(s.inbox) \in Nat
  BY LenProperties DEF Stage
<1> DEFINE k == IF "flood" \in Faults THEN 1 ELSE 0
           A == 0..Least(Len(s.inbox), Chunk + k)
           B == 0..(IF "stderr" \in Faults THEN 1 ELSE 0)
           C == 0..(IF "exit" \in Faults THEN 1 ELSE 0)
           D == IF "block" \in Faults THEN BOOLEAN ELSE {TRUE}
           E == IF "error" \in Faults THEN BOOLEAN ELSE {FALSE}
<1>2. r \in [stdout : A, stderr : B, eof : BOOLEAN, exits : BOOLEAN, status : C, writable : D,
            error : E]
      /\ (r.exits => "exit" \in Faults \/ s.sclosed)
  BY DEF HostPolls
<1>3. B \subseteq Nat
  OBVIOUS
<1>4. C \subseteq Nat
  OBVIOUS
<1>5. D \subseteq BOOLEAN
  BY Zenon
<1>6. k \in Nat
  OBVIOUS
<1>7. \A e \in E : e => "error" \in Faults
  OBVIOUS
<1> HIDE DEF B, C, D, E, k
<1>8. A \subseteq 0..Len(s.inbox)
  <2>1. Chunk + k \in Nat
    BY <1>6, Constants
  <2>2. Least(Len(s.inbox), Chunk + k) <= Len(s.inbox) /\ Least(Len(s.inbox), Chunk + k) \in Nat
    BY <1>1, <2>1 DEF Least
  <2> QED BY <1>1, <2>2
<1> HIDE DEF A
<1>9. r.stdout \in A /\ r.stderr \in B /\ r.exits \in BOOLEAN /\ r.status \in C /\ r.eof \in BOOLEAN
      /\ r.writable \in D /\ r.error \in E
  BY <1>2
<1> QED BY <1>2, <1>3, <1>4, <1>5, <1>7, <1>8, <1>9

(* append_poll_output, whatever the host reports.                             *)
LEMMA AppendOutputConveys ==
  ASSUME Config, NEW i, NEW x, Good(x, i), x.s.kind = "external", x.s.live,
         NEW r, r \in HostPolls(x.s), NEW v, v = AppendOutput(x, r, i)
  PROVE  Conveys(x, v, i) /\ (v.res = "going" => Moves(x, v, i))
<1>1. x \in ViewType
  BY DEF Good
<1>2. x.s \in Stage
  BY <1>1, ViewParts
<1>3. /\ x.s.inbox \in Seq(Byte) /\ x.s.pend \in Seq(Byte) /\ x.s.se \in Seq(Byte)
      /\ x.s.nout \in Nat /\ x.s.status \in Nat \cup {NoStatus} /\ x.s.eof \in BOOLEAN
      /\ x.s.rc \in Nat /\ Len(x.s.inbox) \in Nat
  BY <1>2, LenProperties DEF Stage
<1>4. /\ r.stdout \in 0..Len(x.s.inbox) /\ r.stderr \in Nat /\ r.exits \in BOOLEAN
      /\ r.eof \in BOOLEAN
      /\ r.status \in Nat /\ r.writable \in BOOLEAN
      /\ r.error => "error" \in Faults
      /\ r.exits => "exit" \in Faults \/ x.s.sclosed
  BY <1>2, HostPollFacts
<1>5. PICK total : total = x.s.nout + r.stdout + r.stderr
  OBVIOUS
<1>6. PICK box : box = DropBytes(x.s.inbox, r.stdout)
  OBVIOUS
<1>7. PICK pend : pend = x.s.pend \o TakeBytes(x.s.inbox, r.stdout)
  OBVIOUS
<1>8. PICK se : se = IF r.stderr > 0 THEN x.s.se \o Diagnostic(i) ELSE x.s.se
  OBVIOUS
<1>9. PICK eof : eof = IF r.eof THEN TRUE ELSE x.s.eof
  OBVIOUS
<1>10. PICK status : status = IF r.exits THEN r.status ELSE x.s.status
  OBVIOUS
<1>11. PICK rc : rc = IF r.exits THEN r.status ELSE x.s.rc
  OBVIOUS
<1>12. PICK t : t = [x.s EXCEPT !.nout = total, !.inbox = box, !.pend = pend, !.se = se,
                                !.eof = eof, !.status = status, !.rc = rc,
                                !.writable = r.writable]
  OBVIOUS
<1>13. PICK y : y = [x EXCEPT !.s = t]
  OBVIOUS
<1>14. PICK code : code = IF t.status # NoStatus THEN t.status ELSE 126
  OBVIOUS
<1>15. \/ v = Fail(x, 125, i) \/ v = Fail(x, 126, i)
       \/ v = Fail(y, code, i) /\ r.error
       \/ v = y
  BY <1>5, <1>6, <1>7, <1>8, <1>9, <1>10, <1>11, <1>12, <1>13, <1>14 DEF AppendOutput
<1>16. total \in Nat /\ status \in Nat \cup {NoStatus} /\ rc \in Nat /\ eof \in BOOLEAN
  <2>1. r.stdout \in Nat
    BY <1>3, <1>4
  <2>2. total \in Nat
    BY <1>3, <1>4, <1>5, <2>1
  <2> QED BY <1>3, <1>4, <1>9, <1>10, <1>11, <2>2
<1>17. box \in Seq(Byte) /\ pend \in Seq(Byte) /\ se \in Seq(Byte) /\ Payload(se) = <<>>
  <2>1. box \in Seq(Byte) /\ TakeBytes(x.s.inbox, r.stdout) \in Seq(Byte)
    BY <1>3, <1>4, <1>6, Cut
  <2>2. Payload(x.s.se) = <<>>
    BY DEF Good, Sane
  <2>3. x.s.se \o Diagnostic(i) \in Seq(Byte) /\ Payload(x.s.se \o Diagnostic(i)) = <<>>
    BY <1>3, <2>2, QuietDiagnostic
  <2>4. pend \in Seq(Byte)
    BY <1>3, <1>7, <2>1
  <2> QED BY <1>3, <1>8, <2>1, <2>2, <2>3, <2>4
<1>18. /\ t \in Stage /\ KeepsStage(x.s, t) /\ t.kind = x.s.kind /\ t.live = x.s.live
       /\ t.sclosed = x.s.sclosed /\ t.fin = x.s.fin /\ t.stdin = x.s.stdin
       /\ t.pend = pend /\ t.inbox = box /\ t.se = se /\ t.status = status /\ t.rc = rc
  BY <1>2, <1>4, <1>12, <1>16, <1>17 DEF Stage, KeepsStage, Fit
<1>19. HeldBy(t) = HeldBy(x.s)
  <2>1. HeldBy(x.s) = x.s.pend \o (x.s.inbox \o x.s.stdin)
    BY <1>2, HeldByExternal
  <2>2. HeldBy(t) = pend \o (box \o x.s.stdin)
    BY <1>18, HeldByExternal
  <2>3. x.s.pend \in Seq(Nat) /\ x.s.stdin \in Seq(Nat)
    BY <1>2, StageBytes
  <2>4. (x.s.pend \o TakeBytes(x.s.inbox, r.stdout))
            \o (DropBytes(x.s.inbox, r.stdout) \o x.s.stdin)
            = x.s.pend \o (x.s.inbox \o x.s.stdin)
    BY <1>3, <1>4, <2>3, Handover
  <2> QED BY <1>6, <1>7, <2>1, <2>2, <2>4
<1>20. Sane(t, i)
  <2>1. status # NoStatus /\ "exit" \notin Faults => x.s.sclosed
    BY <1>4, <1>10 DEF Good, Sane
  <2> QED BY <1>17, <1>18, <2>1 DEF Good, Sane, Buffering
<1>21. Moves(x, y, i) /\ y.s = t /\ Good(y, i)
  <2>1. /\ t \in Stage /\ KeepsStage(x.s, t) /\ t.kind = x.s.kind /\ t.live
        /\ t.sclosed = x.s.sclosed /\ t.fin = x.s.fin
    BY <1>18
  <2> QED BY <1>13, <1>19, <1>20, <2>1, InnerMoves
<1>22. CASE v = Fail(x, 125, i) \/ v = Fail(x, 126, i)
  <2>1. PICK n \in {125, 126} : v = Fail(x, n, i)
    BY <1>22
  <2>2. n \in Nat /\ n # 0
    OBVIOUS
  <2> QED BY <2>1, <2>2, FailConveys
<1>23. CASE v = Fail(y, code, i) /\ r.error
  <2>1. code \in Nat
    BY <1>14, <1>16, <1>18 DEF NoStatus
  <2>2. Trusty => code # 0 \/ y.s.sclosed
    <3> SUFFICES ASSUME Trusty, code = 0
                 PROVE  y.s.sclosed
      OBVIOUS
    <3>1. t.status # NoStatus
      BY <1>14
    <3>2. "exit" \notin Faults
      BY <1>4, <1>23 DEF Trusty
    <3> QED BY <1>18, <1>20, <1>21, <3>1, <3>2 DEF Sane
  <2>3. y.s.kind = "external" /\ y.s.live
    BY <1>18, <1>21
  <2>4. Conveys(y, v, i) /\ v.res # "going"
    BY <1>21, <1>23, <2>1, <2>2, <2>3, FailConveys
  <2> QED BY <1>1, <1>21, <2>4, ConveysTrans
<1> QED BY <1>15, <1>21, <1>22, <1>23 DEF Conveys

(* The end of ExternalPipeProcess::poll.                                      *)
LEMMA ExternalSettleConveys ==
  ASSUME Config, NEW i, NEW x, Good(x, i), x.s.kind = "external",
         NEW y, y = ExternalSettle(x)
  PROVE  Conveys(x, y, i)
<1>1. x \in ViewType
  BY DEF Good
<1>2. PICK f : f = Flush(x)
  OBVIOUS
<1>3. \/ y = x \/ y = f
      \/ f.res = "going" /\ (y = ExternalEnd(f) \/ y = Return(f, "ready"))
  BY <1>2 DEF ExternalSettle
<1>4. Conveys(x, f, i) /\ (f.res = "going" => Flushed(x, f, i))
  BY <1>2, FlushConveys
<1>5. CASE y = x
  BY <1>5, StayMoves DEF Conveys
<1>6. CASE f.res = "going" /\ (y = ExternalEnd(f) \/ y = Return(f, "ready"))
  <2>1. Moves(x, f, i) /\ Good(f, i)
    BY <1>4, <1>6 DEF Flushed, Moves, Links
  <2>2. Moves(f, y, i)
    BY <1>6, <2>1, ExternalEndMoves, ReturnMoves DEF Outcome
  <2> QED BY <1>1, <2>1, <2>2, ConveysTrans DEF Conveys
<1> QED BY <1>3, <1>4, <1>5, <1>6

(* ExternalPipeProcess::poll up to the host calls.                            *)
LEMMA QuitsConveys ==
  ASSUME Config, NEW i, NEW x, Good(x, i), x.s.kind = "external",
         NEW y, y = IF x.s.fin THEN Return(x, "exited")
                    ELSE IF x.out.read_closed THEN CancelProcess(x, 141)
                    ELSE IF Flush(x).res # "going" THEN Flush(x)
                    ELSE ExternalEnd(Flush(x))
  PROVE  Conveys(x, y, i)
<1>1. x \in ViewType
  BY DEF Good
<1>2. PICK f : f = Flush(x)
  OBVIOUS
<1>3. Conveys(x, f, i) /\ (f.res = "going" => Flushed(x, f, i))
  BY <1>2, FlushConveys
<1>4. CASE x.s.fin
  BY <1>4, ReturnMoves DEF Outcome, Conveys
<1>5. CASE ~x.s.fin /\ x.out.read_closed
  <2>1. y = CancelProcess(x, 141) /\ 141 \in Nat
    BY <1>5
  <2> QED BY <1>5, <2>1, CancelConveys
<1>6. CASE y = f
  BY <1>3, <1>6
<1>7. CASE f.res = "going" /\ y = ExternalEnd(f)
  <2>1. Moves(x, f, i) /\ Good(f, i)
    BY <1>3, <1>7 DEF Flushed, Moves, Links
  <2>2. Moves(f, y, i)
    BY <1>7, <2>1, ExternalEndMoves
  <2> QED BY <1>1, <2>1, <2>2, ConveysTrans DEF Conveys
<1> QED BY <1>2, <1>4, <1>5, <1>6, <1>7

(* A poll that calls the host.                                                *)
LEMMA RunsConveys ==
  ASSUME Config, NEW i \in Nat \ {0}, NEW x, Good(x, i), x.s.kind = "external", x.s.live,
         NEW f, f = Flush(x), f.res = "going", NEW y, y = FillStdin(f, i = 1),
         NEW w, w \in HostWrites(y.s), NEW z, z = WriteStdin(y, w, i)
  PROVE  /\ ~z.s.live => Conveys(x, ExternalEnd(z), i)
         /\ z.s.live => \A r \in HostPolls(z.s) :
                            Conveys(x, ExternalSettle(AppendOutput(z, r, i)), i)
<1>1. x \in ViewType
  BY DEF Good
<1>2. Moves(x, f, i) /\ Good(f, i) /\ f.s.kind = "external" /\ f.s.live
  <2>1. Flushed(x, f, i)
    BY FlushConveys
  <2> QED BY <2>1 DEF Flushed, Moves, Links, SameControl
<1>3. Moves(f, y, i) /\ y.s.live
  BY <1>2, FillStdinMoves
<1>4. Good(y, i) /\ y.s.kind = "external"
  BY <1>2, <1>3 DEF Moves, Links, Keeps, KeepsStage
<1>5. Moves(x, y, i)
  BY <1>1, <1>2, <1>3, MovesTrans
<1>6. Conveys(y, z, i)
  BY <1>3, <1>4, WriteStdinConveys
<1>7. Conveys(x, z, i)
  BY <1>1, <1>5, <1>6, ConveysTrans
<1>8. Good(z, i) /\ z.s.kind = "external"
  BY <1>7 DEF Conveys, Moves, Drops, Links, Keeps, KeepsStage
<1>9. ASSUME ~z.s.live
      PROVE  Conveys(x, ExternalEnd(z), i)
  BY <1>1, <1>7, <1>8, ExternalEndMoves, ConveysTrans
<1>10. ASSUME z.s.live, NEW r \in HostPolls(z.s)
       PROVE  Conveys(x, ExternalSettle(AppendOutput(z, r, i)), i)
  <2>1. PICK a : a = AppendOutput(z, r, i)
    OBVIOUS
  <2>2. Moves(x, z, i)
    BY <1>7, <1>8, <1>10 DEF Conveys, Drops, Buffering, Links, Keeps, KeepsStage
  <2>3. Conveys(z, a, i) /\ (a.res = "going" => Moves(z, a, i))
    BY <1>8, <1>10, <2>1, AppendOutputConveys
  <2>4. CASE a.res # "going"
    <3>1. ExternalSettle(a) = a
      BY <2>4 DEF ExternalSettle
    <3> QED BY <1>1, <2>1, <2>2, <2>3, <3>1, ConveysTrans
  <2>5. CASE a.res = "going"
    <3>1. Moves(x, a, i)
      BY <1>1, <2>2, <2>3, <2>5, MovesTrans
    <3>2. Good(a, i) /\ a.s.kind = "external"
      BY <3>1 DEF Moves, Links, Keeps, KeepsStage
    <3>3. Conveys(a, ExternalSettle(a), i)
      BY <3>2, ExternalSettleConveys
    <3> QED BY <1>1, <2>1, <3>1, <3>3, ConveysTrans
  <2> QED BY <2>4, <2>5
<1> QED BY <1>9, <1>10

-----------------------------------------------------------------------------
(* What a poll does, whatever the stage.                                      *)

Delivers(x, y, i) ==
    /\ Moves(x, y, i) \/ Drops(x, y, i) \/ Starts(x, y, i)
    /\ x.s.fin => y.s = x.s /\ y.in = x.in
    /\ x.s.kind # "external" => (y.s.fin => y.res = "exited")
    /\ x.s.kind \in Buffering /\ i = 1 => y.s.eof

Delivery(i) == \E y : Leaves(i, y) /\ Delivers(View(i), y, i)

(* The stage about to be polled.                                              *)
LEMMA PolledStage ==
  ASSUME Base, Order, NEW i \in 1..N, Running(i)
  PROVE  /\ Good(View(i), i) /\ View(i).s = st[i] /\ View(i).in = pipes[i - 1]
         /\ View(i).out = pipes[i] /\ View(i).res = "going" /\ View(i).s.kind = Kinds[i]
         /\ st[i].kind # "external" => ~st[i].fin
         /\ Config /\ i \in Nat \ {0} /\ phase # "over"
         /\ i = 1 => Kinds[i] \in {"read", "external"} \cup Buffering
<1>1. N \in Nat /\ phase # "over" /\ Config
  BY ConfigFacts DEF Base, Running
<1>2. /\ View(i) \in ViewType /\ View(i).s = st[i] /\ View(i).in = pipes[i - 1]
      /\ View(i).out = pipes[i] /\ View(i).res = "going" /\ View(i).s.kind = Kinds[i]
  BY ViewFacts
<1>3. Fit(st[i])
  BY DEF Base, Shape
<1>4. Sane(st[i], i) /\ AtEnd(st[i], pipes[i - 1], i) /\ Reasoned(i)
  BY <1>1 DEF Order
<1>5. st[i].kind # "external" => ~st[i].fin
  BY <1>4 DEF Reasoned, Running
<1>6. i = 1 => Kinds[i] \in {"read", "external"} \cup Buffering
  BY DEF Order
<1> QED BY <1>1, <1>2, <1>3, <1>4, <1>5, <1>6 DEF Good

(* PollRead.                                                                  *)
LEMMA ReadDelivery ==
  ASSUME Base, Order, NEW i \in 1..N, PollRead(i)
  PROVE  Delivery(i)
<1>1. PICK x : x = View(i)
  OBVIOUS
<1>2. /\ Config /\ Good(x, i) /\ x.s.kind \in {"read", "tee"} /\ x.res = "going" /\ ~x.s.fin
      /\ ~Deaf(x.s, i)
  BY <1>1, PolledStage DEF PollRead, Deaf, Buffering
<1>3. \A y : Passes(x, y, i) => Delivers(x, y, i)
  BY <1>2 DEF Passes, Delivers, Buffering
<1>4. CASE Polled(i, {ReadPoll(x)})
  <2>1. PICK y : y = ReadPoll(x)
    OBVIOUS
  <2>2. Passes(x, y, i)
    BY <1>2, <2>1, ReadPollPasses
  <2>3. Leaves(i, y)
    BY <1>4, <2>1, PolledLeaves
  <2> QED BY <1>1, <1>3, <2>2, <2>3 DEF Delivery
<1>5. CASE Polled(i, {ReadFails(x, i)})
  <2>1. PICK y : y = ReadFails(x, i)
    OBVIOUS
  <2>2. Passes(x, y, i)
    BY <1>2, <2>1, ReadFailsPasses
  <2>3. Leaves(i, y)
    BY <1>5, <2>1, PolledLeaves
  <2> QED BY <1>1, <1>3, <2>2, <2>3 DEF Delivery
<1> QED BY <1>1, <1>4, <1>5 DEF PollRead

(* PollHead.                                                                  *)
LEMMA HeadDelivery ==
  ASSUME Base, Order, NEW i \in 1..N, PollHead(i)
  PROVE  Delivery(i)
<1>1. PICK x : x = View(i)
  OBVIOUS
<1>2. /\ Config /\ Good(x, i) /\ x.s.kind = "head" /\ ~x.s.fin /\ ~Deaf(x.s, i)
  BY <1>1, PolledStage DEF PollHead, Deaf, Buffering
<1>3. PICK y : y = HeadPoll(x)
  OBVIOUS
<1>4. Passes(x, y, i)
  BY <1>2, <1>3, HeadPollPasses
<1>5. Leaves(i, y)
  BY <1>1, <1>3, PolledLeaves DEF PollHead
<1>6. Delivers(x, y, i)
  BY <1>2, <1>4 DEF Passes, Delivers, Buffering
<1> QED BY <1>1, <1>5, <1>6 DEF Delivery

(* PollBuffered.                                                              *)
LEMMA BufferedDelivery ==
  ASSUME Base, Order, NEW i \in 1..N, PollBuffered(i)
  PROVE  Delivery(i)
<1>1. PICK x : x = View(i)
  OBVIOUS
<1>2. /\ Config /\ Good(x, i) /\ x.s.kind \in Buffering /\ ~x.s.fin /\ i \in Nat \ {0}
  BY <1>1, PolledStage DEF PollBuffered, Buffering
<1>3. PICK choices : choices = IF "io" \in Faults THEN BOOLEAN ELSE {FALSE}
  OBVIOUS
<1>4. Polled(i, {BufferedPoll(x, i = 1, broken) : broken \in choices})
  BY <1>1, <1>3 DEF PollBuffered
<1>5. PICK y \in {BufferedPoll(x, i = 1, broken) : broken \in choices} : Leaves(i, y)
  BY <1>4, PolledSome
<1>6. PICK broken : y = BufferedPoll(x, i = 1, broken)
  OBVIOUS
<1>7. /\ \/ Passes(x, y, i)
         \/ Drops(x, y, i) /\ y.res = "exited"
         \/ Starts(x, y, i) /\ (y.s.fin => x.s.fin \/ y.res = "exited")
      /\ i = 1 => y.s.eof
  BY <1>2, <1>6, BufferedPollMoves
<1>8. Delivers(x, y, i)
  BY <1>2, <1>7 DEF Delivers, Passes
<1> QED BY <1>1, <1>5, <1>8 DEF Delivery

(* ExternalQuits.                                                             *)
LEMMA QuitsDelivery ==
  ASSUME Base, Order, NEW i \in 1..N, ExternalQuits(i)
  PROVE  Delivery(i)
<1>1. PICK x : x = View(i)
  OBVIOUS
<1>2. Config /\ Good(x, i) /\ x.s.kind = "external"
  BY <1>1, PolledStage DEF ExternalQuits
<1>3. PICK y : y = IF x.s.fin THEN Return(x, "exited")
                   ELSE IF x.out.read_closed THEN CancelProcess(x, 141)
                   ELSE IF Flush(x).res # "going" THEN Flush(x)
                   ELSE ExternalEnd(Flush(x))
  OBVIOUS
<1>4. Leaves(i, y)
  BY <1>1, <1>3, PolledLeaves DEF ExternalQuits
<1>5. Conveys(x, y, i)
  BY <1>2, <1>3, QuitsConveys
<1>6. x.s.fin => y.s = x.s /\ y.in = x.in
  BY <1>2, <1>3, ReturnKeeps DEF Good, Outcome
<1>7. Delivers(x, y, i)
  BY <1>2, <1>5, <1>6 DEF Delivers, Conveys, Buffering
<1> QED BY <1>1, <1>4, <1>7 DEF Delivery

(* ExternalRuns.                                                              *)
LEMMA RunsDelivery ==
  ASSUME Base, Order, NEW i \in 1..N, ExternalRuns(i)
  PROVE  Delivery(i)
<1>1. PICK x : x = View(i)
  OBVIOUS
<1>2. PICK f : f = Flush(x)
  OBVIOUS
<1>3. PICK y : y = FillStdin(f, i = 1)
  OBVIOUS
<1>4. /\ Config /\ Good(x, i) /\ x.s.kind = "external" /\ i \in Nat \ {0}
      /\ ~x.s.fin /\ x.s.live /\ f.res = "going"
  BY <1>1, <1>2, PolledStage DEF ExternalRuns, Quits
<1>5. \E v \in {y} : \E z \in {WriteStdin(v, w, i) : w \in HostWrites(v.s)} :
          IF ~z.s.live THEN Polled(i, {ExternalEnd(z)})
          ELSE \E a \in {AppendOutput(z, r, i) : r \in HostPolls(z.s)} :
                  Polled(i, {ExternalSettle(a)})
  BY <1>1, <1>2, <1>3 DEF ExternalRuns
<1>6. PICK z \in {WriteStdin(y, w, i) : w \in HostWrites(y.s)} :
          IF ~z.s.live THEN Polled(i, {ExternalEnd(z)})
          ELSE \E a \in {AppendOutput(z, r, i) : r \in HostPolls(z.s)} :
                  Polled(i, {ExternalSettle(a)})
  BY <1>5
<1>7. PICK w : w \in HostWrites(y.s) /\ z = WriteStdin(y, w, i)
  OBVIOUS
<1>8. /\ ~z.s.live => Conveys(x, ExternalEnd(z), i)
      /\ z.s.live => \A r \in HostPolls(z.s) :
                         Conveys(x, ExternalSettle(AppendOutput(z, r, i)), i)
  BY <1>2, <1>3, <1>4, <1>7, RunsConveys
<1>9. \A v : Conveys(x, v, i) => Delivers(x, v, i)
  BY <1>4 DEF Delivers, Conveys, Buffering
<1>10. CASE ~z.s.live
  <2>1. PICK v : v = ExternalEnd(z)
    OBVIOUS
  <2>2. Leaves(i, v)
    BY <1>6, <1>10, <2>1, PolledLeaves
  <2>3. Delivers(x, v, i)
    BY <1>8, <1>9, <1>10, <2>1
  <2> QED BY <1>1, <2>2, <2>3 DEF Delivery
<1>11. CASE z.s.live
  <2>1. PICK a \in {AppendOutput(z, r, i) : r \in HostPolls(z.s)} : Polled(i, {ExternalSettle(a)})
    BY <1>6, <1>11
  <2>2. PICK r : r \in HostPolls(z.s) /\ a = AppendOutput(z, r, i)
    OBVIOUS
  <2>3. PICK v : v = ExternalSettle(a)
    OBVIOUS
  <2>4. Leaves(i, v)
    BY <2>1, <2>3, PolledLeaves
  <2>5. Delivers(x, v, i)
    BY <1>8, <1>9, <1>11, <2>2, <2>3
  <2> QED BY <1>1, <2>4, <2>5 DEF Delivery
<1> QED BY <1>10, <1>11

-----------------------------------------------------------------------------
(* A poll keeps the order of things.                                          *)

(* The links of a delivery.                                                   *)
LEMMA DeliveryLinks ==
  ASSUME NEW x, NEW y, NEW i, Delivers(x, y, i)
  PROVE  Links(x, y, i)
BY DEF Delivers, Moves, Drops, Starts

(* The pipeline stays what it is.                                             *)
LEMMA SameConf ==
  ASSUME Config, conf' = conf
  PROVE  N' = N /\ Kinds' = Kinds /\ Faults' = Faults /\ (Trusty' <=> Trusty)
         /\ \A i : Linked(i)' <=> Linked(i)
<1>1. N' = N /\ Kinds' = Kinds
  BY ConfigKept
<1>2. Faults' = Faults
  BY DEF Faults
<1> QED BY <1>1, <1>2 DEF Trusty, Linked

(* A stage that has given up has given up for good, so a cause remains.       *)
LEMMA CauseKept ==
  ASSUME Config, conf' = conf, \A j \in 1..N : Gave(st[j]) => Gave(st'[j])
  PROVE  \A j \in 0..N : Cause(j) => Cause(j)'
<1>1. N' = N /\ N \in Nat
  BY SameConf, ConfigFacts
<1>2. \A j \in 0..N : \A k \in (j + 1)..N : k \in 1..N
  BY <1>1
<1> QED BY <1>1, <1>2 DEF Cause

(* A poll of stage i disturbs it, its two pipes and no other.                 *)
LEMMA PollOrder ==
  ASSUME Base, Order, NEW i \in 1..N, Running(i), NEW y, Leaves(i, y),
         Delivers(View(i), y, i)
  PROVE  Order' /\ \A j \in 1..N : Gave(st[j]) => Gave(st'[j])
<1>1. PICK x : x = View(i)
  OBVIOUS
<1>2. /\ Good(x, i) /\ x.s = st[i] /\ x.in = pipes[i - 1] /\ x.out = pipes[i]
      /\ x.s.kind = Kinds[i] /\ (x.s.kind # "external" => ~x.s.fin)
      /\ Config /\ phase # "over" /\ N \in Nat
  BY <1>1, PolledStage, ConfigFacts
<1>3. Links(x, y, i) /\ Delivers(x, y, i)
  BY <1>1, DeliveryLinks
<1>4. Keeps(x, y) /\ Good(y, i) /\ y.s.kind = x.s.kind
  BY <1>3 DEF Links, Keeps, KeepsStage
<1>5. /\ y.in.write_closed = x.in.write_closed /\ (x.in.read_closed => y.in.read_closed)
      /\ y.out.read_closed = x.out.read_closed /\ (x.out.write_closed => y.out.write_closed)
  BY <1>4 DEF Keeps, KeepsIn, KeepsOut
<1>6. /\ st'[i] = y.s /\ pipes'[i - 1] = y.in /\ pipes'[i] = y.out
      /\ done'[i] = (y.res = "exited")
      /\ \A j \in 1..N : j # i => st'[j] = st[j] /\ done'[j] = done[j]
      /\ \A j \in 0..N : j # i - 1 /\ j # i => pipes'[j] = pipes[j]
  BY <1>1, <1>4, LeavesFacts
<1>7. N' = N /\ Kinds' = Kinds /\ Faults' = Faults /\ (Trusty' <=> Trusty) /\ conf' = conf
  BY <1>2, SameConf DEF Leaves
<1>8. ASSUME NEW j \in 1..N
      PROVE  Gave(st[j]) => Gave(st'[j])
  BY <1>2, <1>3, <1>6 DEF Links
<1>9. \A j \in 0..N : Cause(j) => Cause(j)'
  BY <1>2, <1>7, <1>8, CauseKept
<1>10. \A j \in 1..N : Sane(st[j], j) /\ AtEnd(st[j], pipes[j - 1], j) /\ Reasoned(j)
  BY <1>2 DEF Order
<1>11. ASSUME NEW j \in 1..N
       PROVE  Sane(st[j], j)'
  <2>1. CASE j = i
    <3>1. Sane(y.s, i)
      BY <1>4 DEF Good
    <3> QED BY <1>6, <1>7, <2>1, <3>1 DEF Sane
  <2>2. CASE j # i
    <3>1. Sane(st[j], j) /\ st'[j] = st[j]
      BY <1>6, <1>10, <2>2
    <3> QED BY <1>7, <3>1 DEF Sane
  <2> QED BY <2>1, <2>2
<1>12. ASSUME NEW j \in 1..N
       PROVE  AtEnd(st'[j], pipes'[j - 1], j)
  <2>1. CASE j = i
    BY <1>4, <1>6, <2>1 DEF Good
  <2>2. CASE j = i + 1
    <3>1. st'[j] = st[j] /\ pipes'[j - 1] = y.out /\ pipes[j - 1] = x.out
      BY <1>2, <1>6, <2>2
    <3> QED BY <1>5, <1>10, <3>1 DEF AtEnd
  <2>3. CASE j # i /\ j # i + 1
    <3>1. st'[j] = st[j] /\ pipes'[j - 1] = pipes[j - 1]
      BY <1>2, <1>6, <2>3
    <3> QED BY <1>10, <3>1
  <2> QED BY <2>1, <2>2, <2>3
<1>13. ~x.s.fin => ~x.out.write_closed
  BY <1>2, <1>10 DEF Reasoned
<1>14. ASSUME NEW j \in 1..N
       PROVE  Reasoned(j)'
  <2>1. CASE j = i
    <3>1. y.out.write_closed => y.s.fin
      BY <1>2, <1>3, <1>10 DEF Links, Reasoned
    <3>2. y.s.fin => done'[i] \/ y.s.kind = "external"
      BY <1>3, <1>4, <1>6 DEF Delivers
    <3>3. Trusty /\ y.out.read_closed => y.out.write_closed \/ Cause(i)'
      <4>1. i \in 0..N
        BY <1>2
      <4> QED BY <1>2, <1>5, <1>9, <1>10, <4>1 DEF Reasoned
    <3> QED BY <1>6, <1>7, <2>1, <3>1, <3>2, <3>3 DEF Reasoned
  <2>2. CASE j = i - 1
    <3>1. /\ st'[j] = st[j] /\ done'[j] = done[j] /\ pipes'[j] = y.in /\ pipes[j] = x.in
          /\ j \in 0..N /\ i > 1
      BY <1>2, <1>6, <2>2
    <3>2. Trusty /\ y.in.read_closed => y.in.write_closed \/ Cause(j)'
      <4> SUFFICES ASSUME Trusty, y.in.read_closed, ~y.in.write_closed
                   PROVE  Cause(j)'
        OBVIOUS
      <4>1. CASE x.in.read_closed
        BY <1>5, <1>9, <1>10, <3>1, <4>1 DEF Reasoned
      <4>2. CASE ~x.in.read_closed /\ Gave(y.s)
        <5>1. i \in (j + 1)..N
          BY <1>2, <2>2
        <5> QED BY <1>6, <1>7, <4>2, <5>1 DEF Cause
      <4>3. CASE ~x.in.read_closed /\ x.out.read_closed
        <5>1. ~x.s.fin
          BY <1>3, <4>3 DEF Delivers
        <5>2. Cause(i)
          BY <1>2, <1>10, <1>13, <4>3, <5>1 DEF Reasoned
        <5>3. Cause(j)
          <6>1. \A k \in (i + 1)..N : k \in (j + 1)..N
            BY <1>2, <2>2
          <6> QED BY <5>2, <6>1 DEF Cause
        <5> QED BY <1>9, <3>1, <5>3
      <4> QED BY <1>3, <1>5, <3>1, <4>1, <4>2, <4>3 DEF Links
    <3> QED BY <1>5, <1>7, <1>10, <3>1, <3>2 DEF Reasoned
  <2>3. CASE j # i /\ j # i - 1
    <3>1. st'[j] = st[j] /\ done'[j] = done[j] /\ pipes'[j] = pipes[j] /\ j \in 0..N
      BY <1>2, <1>6, <2>3
    <3> QED BY <1>7, <1>9, <1>10, <3>1 DEF Reasoned
  <2> QED BY <2>1, <2>2, <2>3
<1>15. Kinds[1] \in {"read", "external"} \cup Buffering
  BY DEF Order
<1>16. Order'
  BY <1>7, <1>11, <1>12, <1>14, <1>15 DEF Order
<1> QED BY <1>8, <1>16

-----------------------------------------------------------------------------
(* Where the bytes of a polled stage are.                                     *)

(* The view's output holds bytes a to p, its stage p to h, its input g to f.  *)
Lands(y, a, p, h, g, f) ==
    Piece(y.out.data, a, p) /\ Piece(HeldBy(y.s), p, h) /\ Piece(y.in.data, g, f)

(* Nothing can be put in front of a buffer that leaves it as it is.           *)
LEMMA NothingAdded ==
  ASSUME NEW u \in Seq(Nat), NEW b \in Seq(Nat), b = u \o b
  PROVE  u = <<>>
<1>1. Len(u \o b) = Len(u) + Len(b)
  BY ConcatProperties
<1>2. Len(u) \in Nat /\ Len(b) \in Nat
  OBVIOUS
<1>3. Len(u) = 0
  BY <1>1, <1>2
<1> QED BY <1>3, EmptySeq

(* What is ahead of a stage is divided between the stage and its output.      *)
LEMMA AheadDivides ==
  ASSUME NEW y \in ViewType, NEW a \in Place, NEW h \in Place, NEW g, NEW f,
         a <= h, Ahead(y) = Seg(a, h), Piece(y.in.data, g, f)
  PROVE  \E p \in Place : Lands(y, a, p, h, g, f)
<1>1. PICK q : q = Payload(y.out.data)
  OBVIOUS
<1>2. PICK r : r = Payload(HeldBy(y.s))
  OBVIOUS
<1>3. y.out.data \in Seq(Nat) /\ HeldBy(y.s) \in Seq(Nat) /\ Ahead(y) = q \o r
  BY <1>1, <1>2, ViewBytes, StageBytes DEF ViewType
<1>4. q \in Seq(Nat) /\ r \in Seq(Nat) /\ q \o r = Seg(a, h)
  BY <1>1, <1>2, <1>3, PayloadEmpty
<1>5. PICK p \in Place : a <= p /\ p <= h /\ q = Seg(a, p) /\ r = Seg(p, h)
  BY ZenonT(40), <1>4, SegCut
<1> QED BY <1>1, <1>2, <1>5 DEF Lands, Piece

(* The same, read the other way.                                              *)
LEMMA LandsAhead ==
  ASSUME NEW x \in ViewType, NEW a \in Place, NEW b \in Place, NEW c \in Place, NEW e, NEW f,
         Lands(x, a, b, c, e, f)
  PROVE  a <= c /\ Ahead(x) = Seg(a, c)
<1>1. Payload(x.out.data) = Seg(a, b) /\ Payload(HeldBy(x.s)) = Seg(b, c) /\ a <= b /\ b <= c
  BY DEF Lands, Piece
<1>2. Ahead(x) = Seg(a, b) \o Seg(b, c)
  BY <1>1, ViewBytes
<1>3. Seg(a, b) \o Seg(b, c) = Seg(a, c)
  BY <1>1, SegFacts
<1> QED BY <1>1, <1>2, <1>3 DEF Place

(* Two sequences that make up the segment from a to c.                        *)
Cuts(p, q, a, c) ==
    \E b \in Place : a <= b /\ b <= c /\ p = Seg(a, b) /\ q = Seg(b, c)

(* A segment cut in two.                                                      *)
LEMMA SegCuts ==
  ASSUME NEW a \in Place, NEW c \in Place, a <= c,
         NEW p \in Seq(Nat), NEW q \in Seq(Nat), NEW r, p \o q = r, r = Seg(a, c)
  PROVE  Cuts(p, q, a, c)
<1>1. p \o q = Seg(a, c)
  OBVIOUS
<1>2. \E b \in Place : a <= b /\ b <= c /\ p = Seg(a, b) /\ q = Seg(b, c)
  BY ZenonT(40), <1>1, SegCut
<1> QED BY <1>2 DEF Cuts

(* Reading moves the place up to which the input has been read.               *)
LEMMA InputDivides ==
  ASSUME NEW b \in Seq(Nat), NEW u \in Seq(Nat), NEW v \in Seq(Nat), b = u \o v,
         NEW e \in Place, NEW f \in Place, Piece(b, e, f)
  PROVE  \E g \in Place : e <= g /\ Payload(u) = Seg(e, g) /\ Piece(v, g, f)
<1>1. PICK q : q = Payload(u)
  OBVIOUS
<1>2. PICK r : r = Payload(v)
  OBVIOUS
<1>3. q \in Seq(Nat) /\ r \in Seq(Nat) /\ q \o r = Payload(b)
  BY <1>1, <1>2, PayloadEmpty, PayloadConcat
<1>4. e <= f /\ Payload(b) = Seg(e, f)
  BY DEF Piece
<1>5. Cuts(q, r, e, f)
  BY <1>3, <1>4, SegCuts
<1>6. PICK g \in Place : e <= g /\ g <= f /\ q = Seg(e, g) /\ r = Seg(g, f)
  BY <1>5 DEF Cuts
<1> QED BY <1>1, <1>2, <1>6 DEF Piece

(* A poll that spills bytes, or does not: a stage that had all that was read  *)
(* loses some of it or has it still, and one that does not read has less.     *)
LEMMA SpillLands ==
  ASSUME NEW x \in ViewType, NEW y \in ViewType, NEW a \in Place, NEW b \in Place,
         NEW c \in Place, NEW e \in Place, NEW f \in Place,
         Lands(x, a, b, c, e, f), Spill(x, y), c = e \/ y.in.data = x.in.data
  PROVE  \E p, h, g \in Place : Lands(y, a, p, h, g, f) /\ (c = e => h <= g)
<1>1. a <= c /\ Ahead(x) = Seg(a, c)
  BY LandsAhead
<1>2. PICK u \in Seq(Nat), d \in Seq(Nat) :
          x.in.data = u \o y.in.data /\ Ahead(y) \o d = Ahead(x) \o Payload(u)
  BY DEF Spill
<1>3. /\ x.in.data \in Seq(Nat) /\ y.in.data \in Seq(Nat) /\ Ahead(y) \in Seq(Nat)
      /\ Ahead(x) \in Seq(Nat) /\ Payload(u) \in Seq(Nat)
  BY ViewBytes, PayloadEmpty
<1>4. Piece(x.in.data, e, f)
  BY DEF Lands
<1>5. CASE c = e
  <2>1. PICK g \in Place : e <= g /\ Payload(u) = Seg(e, g) /\ Piece(y.in.data, g, f)
    BY <1>2, <1>3, <1>4, InputDivides
  <2>2. Seg(a, c) \o Seg(c, g) = Seg(a, g) /\ a <= g
    <3>1. c <= g
      BY <1>5, <2>1
    <3>2. Seg(a, c) \o Seg(c, g) = Seg(a, g)
      BY <1>1, <3>1, SegFacts
    <3>3. a <= g
      BY <1>1, <3>1 DEF Place
    <3> QED BY <3>2, <3>3
  <2>3. Ahead(y) \o d = Seg(a, g)
    BY <1>1, <1>2, <1>5, <2>1, <2>2
  <2>4. PICK h \in Place : a <= h /\ h <= g /\ Ahead(y) = Seg(a, h)
    <3>1. Cuts(Ahead(y), d, a, g)
      BY <1>3, <2>2, <2>3, SegCuts
    <3> QED BY <3>1 DEF Cuts
  <2>5. \E p \in Place : Lands(y, a, p, h, g, f)
    BY <2>1, <2>4, AheadDivides
  <2> QED BY <2>4, <2>5
<1>6. CASE c # e
  <2>1. u = <<>>
    BY <1>2, <1>3, <1>6, NothingAdded
  <2>2. Ahead(y) \o d = Seg(a, c)
    BY <1>1, <1>2, <1>3, <2>1, PayloadEmpty
  <2>3. PICK h \in Place : a <= h /\ h <= c /\ Ahead(y) = Seg(a, h)
    <3>1. Cuts(Ahead(y), d, a, c)
      BY <1>1, <1>3, <2>2, SegCuts
    <3> QED BY <3>1 DEF Cuts
  <2>4. Piece(y.in.data, e, f)
    BY <1>4, <1>6
  <2>5. \E p \in Place : Lands(y, a, p, h, e, f)
    BY <2>3, <2>4, AheadDivides
  <2> QED BY <1>6, <2>5
<1> QED BY <1>5, <1>6

(* A poll that loses nothing.                                                 *)
LEMMA FlowLands ==
  ASSUME NEW x \in ViewType, NEW y \in ViewType, NEW a \in Place, NEW b \in Place,
         NEW c \in Place, NEW e \in Place, NEW f \in Place,
         Lands(x, a, b, c, e, f), Flow(x, y)
  PROVE  /\ c = e => \E p, g \in Place : Lands(y, a, p, g, g, f)
         /\ y.in.data = x.in.data => \E p \in Place : Lands(y, a, p, c, e, f)
<1>1. a <= c /\ Ahead(x) = Seg(a, c)
  BY LandsAhead
<1>2. PICK u \in Seq(Nat) : x.in.data = u \o y.in.data /\ Ahead(y) = Ahead(x) \o Payload(u)
  BY DEF Flow
<1>3. /\ x.in.data \in Seq(Nat) /\ y.in.data \in Seq(Nat) /\ Ahead(x) \in Seq(Nat)
  BY ViewBytes
<1>4. Piece(x.in.data, e, f)
  BY DEF Lands
<1>5. ASSUME c = e
      PROVE  \E p, g \in Place : Lands(y, a, p, g, g, f)
  <2>1. PICK g \in Place : e <= g /\ Payload(u) = Seg(e, g) /\ Piece(y.in.data, g, f)
    BY <1>2, <1>3, <1>4, InputDivides
  <2>2. Seg(a, c) \o Seg(c, g) = Seg(a, g) /\ a <= g
    <3>1. c <= g
      BY <1>5, <2>1
    <3>2. Seg(a, c) \o Seg(c, g) = Seg(a, g)
      BY <1>1, <3>1, SegFacts
    <3>3. a <= g
      BY <1>1, <3>1 DEF Place
    <3> QED BY <3>2, <3>3
  <2>3. Ahead(y) = Seg(a, g)
    BY <1>1, <1>2, <1>5, <2>1, <2>2
  <2>4. \E p \in Place : Lands(y, a, p, g, g, f)
    BY <2>1, <2>2, <2>3, AheadDivides
  <2> QED BY <2>4
<1>6. ASSUME y.in.data = x.in.data
      PROVE  \E p \in Place : Lands(y, a, p, c, e, f)
  <2>1. u = <<>>
    BY <1>2, <1>3, <1>6, NothingAdded
  <2>2. Ahead(y) = Seg(a, c)
    BY <1>1, <1>2, <1>3, <2>1, PayloadEmpty
  <2>3. Piece(y.in.data, e, f)
    BY <1>4, <1>6
  <2> QED BY <1>1, <2>2, <2>3, AheadDivides
<1> QED BY <1>5, <1>6

(* Where the bytes are after a poll.                                          *)
LEMMA DeliveryLands ==
  ASSUME Base, Order, NEW i \in 1..N, Running(i), NEW x, x = View(i), NEW y, Delivers(x, y, i),
         NEW a \in Place, NEW b \in Place, NEW c \in Place, NEW e \in Place, NEW f \in Place,
         Lands(x, a, b, c, e, f), Linked(i) => c <= e /\ (c # e => Lost(i)),
         i = 1 /\ Kinds[1] \in Buffering /\ ~x.s.eof => b = 0
  PROVE  \E p, h, g \in Place :
             /\ Lands(y, a, p, h, g, f)
             /\ Linked(i) => h <= g /\ (h # g => Lost(i) \/ Drops(x, y, i))
<1>1. /\ x \in ViewType /\ x.s = st[i] /\ x.s.kind = Kinds[i] /\ phase # "over" /\ ~done[i]
      /\ x.s.kind # "external" => ~x.s.fin
  BY PolledStage DEF Good, Running
<1>2. Links(x, y, i) /\ y \in ViewType
  BY DeliveryLinks DEF Links, Good
<1>3. Linked(i) /\ c # e => x.s.kind = "external" /\ ~x.s.live
  BY <1>1 DEF Lost
<1>4. c = e \/ y.in.data = x.in.data
  <2>1. ~Linked(i) => i = 1 /\ x.s.kind # "read"
    BY <1>1 DEF Linked
  <2>2. c # e => Deaf(x.s, i)
    BY <1>3, <2>1 DEF Deaf
  <2> QED BY <1>2, <2>2 DEF Links
<1>5. CASE Moves(x, y, i)
  <2>1. Flow(x, y)
    BY <1>5 DEF Moves
  <2>2. CASE c = e
    <3>1. PICK p \in Place, g \in Place : Lands(y, a, p, g, g, f)
      BY <1>1, <1>2, <2>1, <2>2, FlowLands
    <3>2. g <= g
      BY DEF Place
    <3> QED BY <3>1, <3>2
  <2>3. CASE c # e
    <3>1. PICK p \in Place : Lands(y, a, p, c, e, f)
      BY <1>1, <1>2, <1>4, <2>1, <2>3, FlowLands
    <3> QED BY <2>3, <3>1
  <2> QED BY <2>2, <2>3
<1>6. CASE Drops(x, y, i)
  <2>1. PICK p \in Place, h \in Place, g \in Place : Lands(y, a, p, h, g, f) /\ (c = e => h <= g)
    BY <1>1, <1>2, <1>4, <1>6, SpillLands DEF Drops
  <2>2. Linked(i) => c = e
    BY <1>3, <1>6 DEF Drops, Buffering
  <2> QED BY <1>6, <2>1, <2>2
<1>7. CASE Starts(x, y, i)
  <2>1. /\ i = 1 /\ x.s.kind \in Buffering /\ ~x.s.eof /\ y.in.data = x.in.data
        /\ y.out.data = x.out.data /\ Payload(HeldBy(y.s)) = Source
    BY <1>7 DEF Starts
  <2>2. ~Linked(i) /\ b = 0
    BY <1>1, <2>1 DEF Linked, Buffering
  <2>3. PICK n : n = Len(Source)
    OBVIOUS
  <2>4. n \in Place /\ n >= 0 /\ b \in Place /\ Source = Seg(0, n)
    BY <2>2, <2>3, StreamingAssumption, SegFacts DEF Place
  <2>5. Piece(x.out.data, a, b) /\ Piece(x.in.data, e, f)
    BY DEF Lands
  <2>6. Lands(y, a, b, n, e, f)
    BY <2>1, <2>2, <2>4, <2>5 DEF Lands, Piece
  <2> QED BY <2>2, <2>4, <2>6
<1> QED BY <1>5, <1>6, <1>7 DEF Delivers

(* A poll that loses bytes leaves a stage that has lost them.                 *)
LEMMA LossKept ==
  ASSUME Base, Order, NEW i \in 1..N, Running(i), NEW x, x = View(i), NEW y, Leaves(i, y),
         Delivers(x, y, i)
  PROVE  /\ Lost(i) \/ Drops(x, y, i) => Lost(i)'
         /\ \A j \in 1..N : j # i /\ Lost(j) => Lost(j)'
<1>1. /\ Good(x, i) /\ x.s = st[i] /\ x.out = pipes[i] /\ x.s.kind = Kinds[i]
      /\ (x.s.kind # "external" => ~x.s.fin) /\ Config /\ phase # "over" /\ N \in Nat /\ ~done[i]
  BY PolledStage, ConfigFacts DEF Running
<1>2. Links(x, y, i) /\ Keeps(x, y) /\ y.s.kind = x.s.kind /\ (y.s.live => x.s.live)
  BY DeliveryLinks DEF Links, Keeps, KeepsStage
<1>3. /\ st'[i] = y.s /\ done'[i] = (y.res = "exited")
      /\ \A j \in 1..N : j # i => st'[j] = st[j] /\ done'[j] = done[j]
  BY <1>2, LeavesFacts
<1>4. (Trusty' <=> Trusty) /\ conf' = conf
  BY <1>1, SameConf DEF Leaves
<1>5. \A j \in 1..N : Gave(st[j]) => Gave(st'[j])
  BY PollOrder
<1>6. \A j \in 1..N : Cause(j) => Cause(j)'
  <2>1. \A j \in 0..N : Cause(j) => Cause(j)'
    BY <1>1, <1>4, <1>5, CauseKept
  <2> QED BY <1>1, <2>1
<1>7. ASSUME Lost(i)
      PROVE  Lost(i)'
  <2>1. y.s.kind = "external" /\ ~y.s.live
    BY <1>1, <1>2, <1>7 DEF Lost
  <2>2. Trusty => Gave(st'[i]) \/ Cause(i)'
    BY <1>5, <1>6, <1>7 DEF Lost
  <2> QED BY <1>3, <1>4, <2>1, <2>2 DEF Lost
<1>8. ASSUME Drops(x, y, i)
      PROVE  Lost(i)'
  <2>1. (y.s.kind = "external" /\ ~y.s.live) \/ (y.s.kind \in Buffering /\ done'[i])
    BY <1>2, <1>3, <1>8 DEF Drops
  <2>2. ~x.s.fin
    <3>1. x.s.fin => y.s = x.s
      BY DEF Delivers
    <3> QED BY <1>1, <1>8, <3>1 DEF Drops, Buffering
  <2>3. Trusty /\ x.out.read_closed => Cause(i)
    <3>1. Reasoned(i)
      BY <1>1 DEF Order
    <3> QED BY <1>1, <2>2, <3>1 DEF Reasoned
  <2>4. Trusty => Gave(st'[i]) \/ Cause(i)'
    BY <1>3, <1>6, <1>8, <2>3 DEF Drops
  <2> QED BY <1>3, <1>4, <2>1, <2>4 DEF Lost
<1>9. ASSUME NEW j \in 1..N, j # i, Lost(j)
      PROVE  Lost(j)'
  <2>1. st'[j] = st[j] /\ done'[j] = done[j]
    BY <1>3, <1>9
  <2>2. Trusty => Gave(st'[j]) \/ Cause(j)'
    BY <1>5, <1>6, <1>9 DEF Lost
  <2>3. (st[j].kind = "external" /\ ~st[j].live) \/ (st[j].kind \in Buffering /\ done[j])
    BY <1>1, <1>9 DEF Lost
  <2> QED BY <1>4, <2>1, <2>2, <2>3 DEF Lost
<1> QED BY <1>7, <1>8, <1>9

(* A poll of stage i moves the places of its bytes and of no others.          *)
Moved(i, put, have, got, put2, have2, got2) ==
    /\ put2 \in [0..N -> Place] /\ have2 \in [0..N -> Place] /\ got2 \in [0..N -> Place]
    /\ \A j \in 0..N : j # i => put2[j] = put[j] /\ have2[j] = have[j]
    /\ \A j \in 0..N : j # i - 1 => got2[j] = got[j]

(* A poll keeps every byte in its place or says where it went.                *)
LEMMA PollPlaces ==
  ASSUME Base, Order, NEW i \in 1..N, Running(i), NEW y, Leaves(i, y), Delivers(View(i), y, i),
         NEW put \in [0..N -> Place], NEW have \in [0..N -> Place],
         NEW got \in [0..N -> Place], Flows(put, have, got)
  PROVE  \E put2, have2, got2 :
             Moved(i, put, have, got, put2, have2, got2) /\ Flows(put2, have2, got2)'
<1>1. PICK x : x = View(i)
  OBVIOUS
<1>2. /\ x.s = st[i] /\ x.in = pipes[i - 1] /\ x.out = pipes[i] /\ Config /\ N \in Nat
      /\ i \in 0..N /\ i - 1 \in 0..N /\ i \in Nat
  BY <1>1, PolledStage, ConfigFacts
<1>3. Keeps(x, y) /\ Delivers(x, y, i)
  BY <1>1, DeliveryLinks DEF Links
<1>4. /\ st'[i] = y.s /\ pipes'[i - 1] = y.in /\ pipes'[i] = y.out
      /\ \A j \in 1..N : j # i => st'[j] = st[j] /\ done'[j] = done[j]
      /\ \A j \in 0..N : j # i - 1 /\ j # i => pipes'[j] = pipes[j]
  BY <1>1, <1>3, LeavesFacts
<1>5. N' = N /\ Kinds' = Kinds /\ (\A j : Linked(j)' <=> Linked(j)) /\ out' = out
  BY <1>2, SameConf DEF Leaves
<1>6. Flows(put, have, got)
  OBVIOUS
<1>7. Lands(x, got[i], put[i], have[i], got[i - 1], put[i - 1])
  BY <1>2, <1>6 DEF Lands, Flows
<1>8. Linked(i) => have[i] <= got[i - 1] /\ (have[i] # got[i - 1] => Lost(i))
  BY <1>6 DEF Flows
<1>9. i = 1 /\ Kinds[1] \in Buffering /\ ~x.s.eof => put[i] = 0
  BY <1>2, <1>6 DEF Flows
<1>10. PICK p \in Place, h \in Place, g \in Place :
          /\ Lands(y, got[i], p, h, g, put[i - 1])
          /\ Linked(i) => h <= g /\ (h # g => Lost(i) \/ Drops(x, y, i))
  <2>1. /\ got[i] \in Place /\ put[i] \in Place /\ have[i] \in Place /\ got[i - 1] \in Place
        /\ put[i - 1] \in Place
    BY <1>2
  <2> QED BY SMTT(30), <1>1, <1>3, <1>7, <1>8, <1>9, <2>1, DeliveryLands
<1>11. PICK put2 : put2 = [put EXCEPT ![i] = p]
  OBVIOUS
<1>12. PICK have2 : have2 = [have EXCEPT ![i] = h]
  OBVIOUS
<1>13. PICK got2 : got2 = [got EXCEPT ![i - 1] = g]
  OBVIOUS
<1>14. /\ put2 \in [0..N -> Place] /\ have2 \in [0..N -> Place] /\ got2 \in [0..N -> Place]
       /\ put2[i] = p /\ have2[i] = h /\ got2[i - 1] = g /\ got2[i] = got[i]
       /\ put2[i - 1] = put[i - 1] /\ got2[N] = got[N] /\ put2[0] = put[0]
       /\ \A j \in 0..N : j # i => put2[j] = put[j] /\ have2[j] = have[j]
       /\ \A j \in 0..N : j # i - 1 => got2[j] = got[j]
  BY <1>2, <1>6, <1>11, <1>12, <1>13
<1>15. Piece(y.out.data, got[i], p) /\ Piece(HeldBy(y.s), p, h) /\ Piece(y.in.data, g, put[i - 1])
  BY <1>10 DEF Lands
<1>16. \A j \in 0..N : Piece(pipes'[j].data, got2[j], put2[j])
  <2>1. \A j \in 0..N : Piece(pipes[j].data, got[j], put[j])
    BY <1>6 DEF Flows
  <2> QED BY <1>4, <1>14, <1>15, <2>1
<1>17. \A j \in 1..N : Piece(HeldBy(st'[j]), put2[j], have2[j])
  <2>1. \A j \in 1..N : Piece(HeldBy(st[j]), put[j], have[j]) /\ j \in 0..N
    BY <1>2, <1>6 DEF Flows
  <2> QED BY <1>4, <1>14, <1>15, <2>1
<1>18. ASSUME NEW j \in 1..N, Linked(j)
       PROVE  have2[j] <= got2[j - 1] /\ (have2[j] # got2[j - 1] => Lost(j)')
  <2>1. /\ Lost(i) \/ Drops(x, y, i) => Lost(i)'
        /\ \A k \in 1..N : k # i /\ Lost(k) => Lost(k)'
    BY <1>1, <1>3, LossKept
  <2>2. CASE j = i
    BY <1>10, <1>14, <1>18, <2>1, <2>2
  <2>3. CASE j # i
    <3>1. j - 1 # i - 1 /\ j - 1 \in 0..N /\ j \in 0..N
      BY <1>2, <2>3
    <3>2. have[j] <= got[j - 1] /\ (have[j] # got[j - 1] => Lost(j))
      BY <1>6, <1>18 DEF Flows
    <3> QED BY <1>14, <2>1, <2>3, <3>1, <3>2
  <2> QED BY <2>2, <2>3
<1>19. Kinds[1] \in Buffering /\ ~st'[1].eof => put2[1] = 0
  <2>1. CASE i = 1
    <3>1. x.s.kind = Kinds[1]
      BY <1>1, <2>1, PolledStage
    <3> QED BY <1>3, <1>4, <2>1, <3>1 DEF Delivers
  <2>2. CASE i # 1
    <3>1. 1 \in 1..N /\ 1 \in 0..N
      BY <1>2, ConfigFacts
    <3> QED BY <1>4, <1>6, <1>14, <2>2, <3>1 DEF Flows
  <2> QED BY <2>1, <2>2
<1>20. Piece(out', 0, got2[N]) /\ put2[0] = Len(Source)
  BY <1>5, <1>6, <1>14 DEF Flows
<1>21. Flows(put2, have2, got2)'
  BY <1>5, <1>16, <1>17, <1>18, <1>19, <1>20 DEF Flows, Piece
<1>22. Moved(i, put, have, got, put2, have2, got2)
  BY <1>14 DEF Moved
<1> QED BY <1>21, <1>22

LEMMA PollFlows ==
  ASSUME Base, Order, FlowInv, NEW i \in 1..N, Running(i), NEW y, Leaves(i, y),
         Delivers(View(i), y, i)
  PROVE  FlowInv'
<1>1. PICK put \in [0..N -> Place], have \in [0..N -> Place], got \in [0..N -> Place] :
          Flows(put, have, got)
  BY DEF FlowInv
<1>2. PICK put2, have2, got2 :
          Moved(i, put, have, got, put2, have2, got2) /\ Flows(put2, have2, got2)'
  BY <1>1, PollPlaces
<1>3. N' = N
  BY SameConf DEF Base, Leaves
<1> QED BY <1>2, <1>3 DEF FlowInv, Moved

-----------------------------------------------------------------------------
(* The other steps: no stage is polled; stdout may take the first n bytes of  *)
(* the last pipe, and every stage may be closed.                              *)

Shut(s, t) ==
    SameBuffers(s, t) /\ t.eof = s.eof /\ t.left = s.left /\ (Gave(s) => Gave(t))

Rests(n) ==
    /\ conf' = conf
    /\ \A j \in 1..N : Shut(st[j], st'[j])
    /\ \/ phase' = "over"
       \/ phase # "over" /\ \A j \in 1..N : st'[j].live = st[j].live /\ done'[j] = done[j]
    /\ \A j \in 0..N : j # N => pipes'[j].data = pipes[j].data
    /\ pipes'[N].data = DropBytes(pipes[N].data, n)
    /\ out' = out \o TakeBytes(pipes[N].data, n)

(* Such a step moves bytes to stdout, in order, and nothing else.             *)
LEMMA RestPlaces ==
  ASSUME Base, NEW n, n \in 0..Len(pipes[N].data), Rests(n),
         NEW put \in [0..N -> Place], NEW have \in [0..N -> Place],
         NEW got \in [0..N -> Place], Flows(put, have, got)
  PROVE  \E got2 \in [0..N -> Place] :
             (\A j \in 0..N : j # N => got2[j] = got[j]) /\ Flows(put, have, got2)'
<1>1. Config /\ N \in Nat /\ N > 0 /\ N \in 0..N /\ \A j \in 1..N : j \in 0..N /\ j - 1 \in 0..N
  BY ConfigFacts DEF Base
<1>2. N' = N /\ Kinds' = Kinds /\ (Trusty' <=> Trusty) /\ (\A j : Linked(j)' <=> Linked(j))
  BY <1>1, SameConf DEF Rests
<1>3. Flows(put, have, got)
  OBVIOUS
<1>4. PICK d : d = pipes[N].data
  OBVIOUS
<1>5. PICK u : u = TakeBytes(d, n)
  OBVIOUS
<1>6. PICK v : v = DropBytes(d, n)
  OBVIOUS
<1>7. /\ d \in Seq(Nat) /\ u \in Seq(Nat) /\ v \in Seq(Nat) /\ d = u \o v
      /\ pipes'[N].data = v /\ out' = out \o u /\ out \in Seq(Nat)
  <2>1. d \in Seq(Byte) /\ out \in Seq(Byte)
    BY <1>1, <1>4 DEF Base, TypeOK, PipeType
  <2>2. u \in Seq(Byte) /\ v \in Seq(Byte) /\ u \o v = d
    BY <1>4, <1>5, <1>6, <2>1, Cut
  <2> QED BY <1>4, <1>5, <1>6, <2>1, <2>2, BytesAreNat DEF Rests
<1>8. Piece(d, got[N], put[N]) /\ Piece(out, 0, got[N]) /\ got[N] \in Place /\ put[N] \in Place
  BY <1>1, <1>3, <1>4 DEF Flows
<1>9. PICK g \in Place : got[N] <= g /\ Payload(u) = Seg(got[N], g) /\ Piece(v, g, put[N])
  BY <1>7, <1>8, InputDivides
<1>10. Piece(out', 0, g)
  <2>1. 0 \in Place /\ 0 <= got[N] /\ Payload(out) = Seg(0, got[N])
    BY <1>8, StreamingAssumption DEF Piece, Place
  <2>2. Seg(0, got[N]) \o Seg(got[N], g) = Seg(0, g)
    BY <1>8, <1>9, <2>1, SegFacts
  <2>3. Payload(out') = Payload(out) \o Payload(u)
    BY <1>7, PayloadConcat
  <2>4. 0 <= g
    BY DEF Place
  <2> QED BY <1>9, <2>1, <2>2, <2>3, <2>4 DEF Piece
<1>11. PICK got2 : got2 = [got EXCEPT ![N] = g]
  OBVIOUS
<1>12. /\ got2 \in [0..N -> Place] /\ got2[N] = g
       /\ \A j \in 0..N : j # N => got2[j] = got[j]
       /\ \A j \in 1..N : got2[j - 1] = got[j - 1]
  BY <1>1, <1>11
<1>13. \A j \in 0..N : Piece(pipes'[j].data, got2[j], put[j])
  <2>1. \A j \in 0..N : Piece(pipes[j].data, got[j], put[j])
    BY <1>3 DEF Flows
  <2> QED BY <1>7, <1>9, <1>12, <2>1 DEF Rests
<1>14. \A j \in 1..N : Piece(HeldBy(st'[j]), put[j], have[j])
  <2>1. \A j \in 1..N : Piece(HeldBy(st[j]), put[j], have[j])
    BY <1>3 DEF Flows
  <2>2. \A j \in 1..N : HeldBy(st'[j]) = HeldBy(st[j])
    BY SameHeld DEF Rests, Shut
  <2> QED BY <2>1, <2>2
<1>15. ASSUME NEW j \in 1..N, Lost(j)
       PROVE  Lost(j)'
  <2>1. Trusty => Gave(st'[j]) \/ Cause(j)'
    <3>1. \A k \in 1..N : Gave(st[k]) => Gave(st'[k])
      BY DEF Rests, Shut
    <3>2. Cause(j) => Cause(j)'
      BY <1>1, <3>1, CauseKept DEF Rests
    <3> QED BY <1>15, <3>1, <3>2 DEF Lost
  <2>2. st'[j].kind = st[j].kind
    BY DEF Rests, Shut, SameBuffers
  <2>3. CASE phase' = "over"
    BY <1>2, <2>1, <2>3 DEF Lost
  <2>4. CASE phase # "over" /\ st'[j].live = st[j].live /\ done'[j] = done[j]
    BY <1>2, <1>15, <2>1, <2>2, <2>4 DEF Lost
  <2> QED BY <2>3, <2>4 DEF Rests
<1>16. ASSUME NEW j \in 1..N, Linked(j)
       PROVE  have[j] <= got2[j - 1] /\ (have[j] # got2[j - 1] => Lost(j)')
  <2>1. have[j] <= got[j - 1] /\ (have[j] # got[j - 1] => Lost(j))
    BY <1>3, <1>16 DEF Flows
  <2> QED BY <1>12, <1>15, <2>1
<1>17. put[0] = Len(Source) /\ (Kinds[1] \in Buffering /\ ~st'[1].eof => put[1] = 0)
  <2>1. 1 \in 1..N
    BY <1>1
  <2> QED BY <1>3, <2>1 DEF Flows, Rests, Shut
<1>18. Flows(put, have, got2)'
  BY <1>2, <1>10, <1>12, <1>13, <1>14, <1>16, <1>17 DEF Flows, Piece
<1> QED BY <1>12, <1>18

LEMMA RestFlows ==
  ASSUME Base, FlowInv, NEW n, n \in 0..Len(pipes[N].data), Rests(n)
  PROVE  FlowInv'
<1>1. PICK put \in [0..N -> Place], have \in [0..N -> Place], got \in [0..N -> Place] :
          Flows(put, have, got)
  BY DEF FlowInv
<1>2. PICK got2 \in [0..N -> Place] : Flows(put, have, got2)'
  BY <1>1, RestPlaces
<1>3. N' = N
  BY SameConf DEF Base, Rests
<1> QED BY <1>1, <1>2, <1>3 DEF FlowInv

(* A step in which stdout takes nothing.                                      *)
LEMMA NothingDrained ==
  ASSUME Base, out' = out, \A j \in 0..N : pipes'[j].data = pipes[j].data
  PROVE  /\ 0 \in 0..Len(pipes[N].data) /\ pipes'[N].data = DropBytes(pipes[N].data, 0)
         /\ out' = out \o TakeBytes(pipes[N].data, 0)
<1>1. PICK d : d = pipes[N].data
  OBVIOUS
<1>2. d \in Seq(Byte) /\ out \in Seq(Byte) /\ pipes'[N].data = d
  BY <1>1, ConfigFacts DEF Base, TypeOK, PipeType
<1>3. Len(d) \in Nat /\ 0 \in 0..Len(d)
  BY <1>2
<1>4. DropBytes(d, 0) = d /\ TakeBytes(d, 0) = <<>>
  BY <1>2, <1>3 DEF DropBytes, TakeBytes
<1>5. out \o <<>> = out
  BY <1>2
<1> QED BY <1>1, <1>2, <1>3, <1>4, <1>5

(* A step that leaves the pipeline's flags alone, and one that ends it.       *)
LEMMA QuietOrder ==
  ASSUME Base, Order, conf' = conf, st' = st, done' = done, phase # "over",
         \A j \in 0..N : /\ pipes'[j].read_closed = pipes[j].read_closed
                         /\ pipes'[j].write_closed = pipes[j].write_closed
  PROVE  Order'
<1>1. Config /\ N \in Nat /\ \A j \in 1..N : j \in 0..N /\ j - 1 \in 0..N
  BY ConfigFacts DEF Base
<1>2. N' = N /\ Kinds' = Kinds /\ Faults' = Faults /\ (Trusty' <=> Trusty)
  BY <1>1, SameConf
<1>3. Kinds'[1] \in {"read", "external"} \cup Buffering
  BY <1>2 DEF Order
<1>4. ASSUME NEW j \in 1..N
      PROVE  (Sane(st[j], j) /\ AtEnd(st[j], pipes[j - 1], j) /\ Reasoned(j))'
  <2>1. Sane(st[j], j) /\ AtEnd(st[j], pipes[j - 1], j) /\ Reasoned(j)
    BY DEF Order
  <2>2. Sane(st[j], j)'
    BY <1>2, <2>1 DEF Sane
  <2>3. AtEnd(st[j], pipes[j - 1], j)'
    BY <1>1, <2>1 DEF AtEnd
  <2>4. Reasoned(j)'
    <3>1. Cause(j) => Cause(j)'
      BY <1>2 DEF Cause
    <3> QED BY <1>1, <1>2, <2>1, <3>1 DEF Reasoned
  <2> QED BY <2>2, <2>3, <2>4
<1> QED BY <1>2, <1>3, <1>4 DEF Order

(* Once a pipeline is over only the kind of its first stage matters.          *)
LEMMA OverOrder ==
  ASSUME Base, Order, conf' = conf, phase' = "over"
  PROVE  Order'
<1>1. Kinds' = Kinds
  BY SameConf DEF Base
<1> QED BY <1>1 DEF Order

(* A step that only moves the scheduler.                                      *)
LEMMA QuietStep ==
  ASSUME Base, Order, FlowInv, phase # "over", UNCHANGED <<conf, pipes, st, done, out>>
  PROVE  Order' /\ FlowInv'
<1>1. Order'
  BY QuietOrder
<1>2. Rests(0) /\ 0 \in 0..Len(pipes[N].data)
  BY NothingDrained DEF Rests, Shut, SameBuffers
<1> QED BY <1>1, <1>2, RestFlows

(* close, of each kind of stage, throws no byte away.                         *)
LEMMA CloseShuts ==
  ASSUME NEW x \in ViewType, Fit(x.s), NEW c, c = Close(x)
  PROVE  Shut(x.s, c.s)
<1>1. x.s \in Stage /\ x.s.kind \in Kind
  BY ViewParts DEF Stage
<1>2. Closes(x, c)
  BY CloseFreesStage
<1>3. /\ SameBuffers(x.s, c.s) /\ c.s.eof = x.s.eof /\ c.s.left = x.s.left
  <2>1. CASE x.s.kind = "external"
    <3>1. PICK t : t = [x.s EXCEPT !.live = FALSE, !.fin = TRUE]
      OBVIOUS
    <3>2. c = [s |-> t, in |-> CloseRead(x.in), out |-> CloseWrite(x.out), res |-> x.res]
      BY <2>1, <3>1 DEF Close, ExternalClose
    <3>3. c.s = t
      BY <3>2
    <3>4. SameBuffers(x.s, t) /\ t.eof = x.s.eof /\ t.left = x.s.left
      BY <1>1, <3>1 DEF Stage, SameBuffers
    <3> QED BY <3>3, <3>4
  <2>2. CASE x.s.kind \in {"buffered", "bounded"}
    <3>1. PICK t : t = [x.s EXCEPT !.staging = FALSE]
      OBVIOUS
    <3>2. c = [x EXCEPT !.s = t]
      BY <2>2, <3>1 DEF Close, BufferedClose
    <3>3. c.s = t
      BY <3>2 DEF ViewType
    <3>4. SameBuffers(x.s, t) /\ t.eof = x.s.eof /\ t.left = x.s.left
      BY <1>1, <3>1 DEF Stage, SameBuffers
    <3> QED BY <3>3, <3>4
  <2>3. CASE x.s.kind \notin {"external", "buffered", "bounded"}
    <3>1. c = x \/ c = [x EXCEPT !.in = CloseRead(x.in)]
      BY <1>1, <2>3 DEF Close, Kind
    <3>2. c.s = x.s
      BY <3>1 DEF ViewType
    <3> QED BY <3>2 DEF SameBuffers
  <2> QED BY <2>1, <2>2, <2>3
<1> QED BY <1>2, <1>3 DEF Shut, Gave, Closes

(* Closing every stage.                                                       *)
LEMMA ClosedStagesShut ==
  ASSUME Base
  PROVE  \A j \in 1..N : Shut(st[j], ClosedStages[j])
<1> SUFFICES ASSUME NEW j \in 1..N
             PROVE  Shut(st[j], ClosedStages[j])
  OBVIOUS
<1>1. View(j) \in ViewType /\ View(j).s = st[j] /\ Fit(st[j])
  BY ViewFacts DEF Base, Shape
<1>2. Shut(View(j).s, Close(View(j)).s)
  BY <1>1, CloseShuts
<1> QED BY <1>1, <1>2 DEF ClosedStages

(* A step that ends the pipeline leaves every byte where it is.               *)
LEMMA OverStep ==
  ASSUME Base, Order, FlowInv, conf' = conf, phase' = "over",
         \A j \in 1..N : Shut(st[j], st'[j]), out' = out,
         \A j \in 0..N : pipes'[j].data = pipes[j].data
  PROVE  Order' /\ FlowInv'
<1>1. Order'
  BY OverOrder
<1>2. Rests(0) /\ 0 \in 0..Len(pipes[N].data)
  BY NothingDrained DEF Rests
<1> QED BY <1>1, <1>2, RestFlows

(* The step budget refuses another pass of drive_streaming_pipeline.          *)
LEMMA StepsRefusedFlows ==
  ASSUME Base, Order, FlowInv, StepsRefused
  PROVE  Order' /\ FlowInv'
<1>1. PICK qs : qs = ClosedPipes(pipes)
  OBVIOUS
<1>2. qs \in [0..N -> PipeType(Byte)] /\ \A j \in 0..N : qs[j].data = pipes[j].data
  BY <1>1, ClosedPipesKeep DEF Base, TypeOK
<1>3. N \in 0..N
  BY ConfigFacts DEF Base
<1>4. CloseRead(qs[N]).data = qs[N].data
  BY <1>2, <1>3, CloseFacts
<1>5. pipes' = [qs EXCEPT ![N] = CloseRead(qs[N])] /\ st' = ClosedStages /\ phase' = "over"
      /\ conf' = conf /\ out' = out
  BY <1>1 DEF StepsRefused, Over
<1>6. \A j \in 0..N : pipes'[j].data = pipes[j].data
  BY <1>2, <1>4, <1>5
<1>7. \A j \in 1..N : Shut(st[j], st'[j])
  BY <1>5, ClosedStagesShut
<1> QED BY <1>5, <1>6, <1>7, OverStep

(* apply_streaming_deadline: a child that is still running fails.             *)
LEMMA DeadlinePassesFlows ==
  ASSUME Base, Order, FlowInv, DeadlinePasses
  PROVE  Order' /\ FlowInv'
<1>1. PICK stages : stages = [i \in 1..N |-> IF DeadlineStatus(i)
                                             THEN [ClosedStages[i] EXCEPT !.rc = 124]
                                             ELSE ClosedStages[i]]
  OBVIOUS
<1>2. pipes' = ClosedPipes(pipes) /\ st' = stages /\ phase' = "over" /\ conf' = conf /\ out' = out
  BY <1>1 DEF DeadlinePasses, Over
<1>3. \A j \in 0..N : pipes'[j].data = pipes[j].data
  BY <1>2, ClosedPipesKeep DEF Base, TypeOK
<1>4. ASSUME NEW j \in 1..N
      PROVE  Shut(st[j], st'[j])
  <2>1. PICK c : c = ClosedStages[j]
    OBVIOUS
  <2>2. c \in Stage /\ ~c.live /\ Shut(st[j], c)
    BY <2>1, ClosedStagesFree, ClosedStagesShut
  <2>3. PICK t : t = [c EXCEPT !.rc = 124]
    OBVIOUS
  <2>4. SameBuffers(c, t) /\ t.eof = c.eof /\ t.left = c.left /\ t.live = c.live /\ t.rc = 124
    BY <2>2, <2>3 DEF Stage, SameBuffers
  <2>5. Shut(st[j], t)
    BY <2>2, <2>4 DEF Shut, SameBuffers, Gave
  <2>6. st'[j] = c \/ st'[j] = t
    BY <1>1, <1>2, <2>1, <2>3
  <2> QED BY <2>2, <2>5, <2>6
<1> QED BY <1>2, <1>3, <1>4, OverStep

(* cancel_pending_streaming_pipeline.                                         *)
LEMMA CancelFlows ==
  ASSUME Base, Order, FlowInv, Cancel
  PROVE  Order' /\ FlowInv'
<1>1. PICK qs : qs = ClosedPipes(pipes)
  OBVIOUS
<1>2. \A j \in 0..N : qs[j].data = pipes[j].data
  BY <1>1, ClosedPipesKeep DEF Base, TypeOK
<1>3. /\ pipes' = [i \in 0..N |-> IF i = 0 THEN qs[0] ELSE CloseRead(CloseWrite(pipes[i]))]
      /\ st' = ClosedStages /\ phase' = "over" /\ conf' = conf /\ out' = out
  BY <1>1 DEF Cancel
<1>4. ASSUME NEW j \in 0..N
      PROVE  CloseRead(CloseWrite(pipes[j])).data = pipes[j].data
  <2>1. pipes[j] \in PipeType(Byte)
    BY DEF Base, TypeOK
  <2>2. CloseWrite(pipes[j]) \in PipeType(Byte) /\ CloseWrite(pipes[j]).data = pipes[j].data
    BY <2>1, CloseFacts
  <2> QED BY <2>2, CloseFacts
<1>5. \A j \in 0..N : pipes'[j].data = pipes[j].data
  BY <1>2, <1>3, <1>4
<1>6. \A j \in 1..N : Shut(st[j], st'[j])
  BY <1>3, ClosedStagesShut
<1> QED BY <1>3, <1>5, <1>6, OverStep

(* The pipes after the drain; a pass that does not end the pipeline closes    *)
(* none of them.                                                              *)
LEMMA DrainedBytes ==
  ASSUME Base, NEW ps, ps = DrainedPipes, NEW n, n = IF OverPipes THEN 0 ELSE Drained
  PROVE  /\ ps[N].data = DropBytes(pipes[N].data, n) /\ n \in 0..Len(pipes[N].data)
         /\ \A j \in 0..N : j # N => ps[j] = pipes[j]
         /\ ~OverPipes /\ ~OverOutput => \A j \in 0..N :
                /\ ps[j].read_closed = pipes[j].read_closed
                /\ ps[j].write_closed = pipes[j].write_closed
<1>1. PICK p : p = pipes[N]
  OBVIOUS
<1>2. p \in PipeType(Byte) /\ p.data \in Seq(Byte) /\ Len(p.data) \in Nat /\ N \in 0..N
  BY <1>1, DrainedFacts DEF Base, TypeOK
<1>3. n \in 0..Len(p.data)
  BY <1>1, <1>2, DrainedFacts
<1>4. pipes \in [0..N -> PipeType(Byte)]
  BY DEF Base, TypeOK
<1>5. CASE OverPipes
  <2>1. DropBytes(p.data, 0) = p.data
    BY <1>2 DEF DropBytes
  <2>2. CloseRead(p).data = p.data
    BY <1>2, CloseFacts
  <2>3. ps = pipes \/ ps = [pipes EXCEPT ![N] = CloseRead(p)]
    BY <1>1, <1>5 DEF DrainedPipes
  <2> QED BY <1>1, <1>2, <1>3, <1>4, <1>5, <2>1, <2>2, <2>3
<1>6. CASE ~OverPipes
  <2>1. PICK r \in BOOLEAN : r = (p.read_closed \/ OverOutput)
    OBVIOUS
  <2>2. PICK q : q = [data |-> DropBytes(p.data, n), read_closed |-> r,
                      write_closed |-> p.write_closed]
    OBVIOUS
  <2>3. ps = [pipes EXCEPT ![N] = q]
    BY <1>1, <1>6, <2>1, <2>2 DEF DrainedPipes
  <2>4. /\ q.data = DropBytes(p.data, n) /\ q.write_closed = p.write_closed
        /\ ~OverOutput => q.read_closed = p.read_closed
    BY <1>2, <2>1, <2>2 DEF PipeType
  <2>5. ps[N] = q /\ \A j \in 0..N : j # N => ps[j] = pipes[j]
    BY <1>2, <1>4, <2>3
  <2> QED BY <1>1, <1>3, <2>4, <2>5
<1> QED BY <1>5, <1>6

(* The end of a pass, which closes the stages or leaves them alone.           *)
LEMMA EndPassRests ==
  ASSUME Base, EndPass, NEW n, n = IF OverPipes THEN 0 ELSE Drained
  PROVE  /\ n \in 0..Len(pipes[N].data) /\ Rests(n) /\ phase = "drain"
         /\ \/ phase' = "over"
            \/ /\ st' = st /\ done' = done /\ \A j \in 0..N : j # N => pipes'[j] = pipes[j]
               /\ \A j \in 0..N : /\ pipes'[j].read_closed = pipes[j].read_closed
                                  /\ pipes'[j].write_closed = pipes[j].write_closed
<1>1. PICK over \in BOOLEAN :
          over = (\/ OverPipes \/ OverOutput
                  \/ \A i \in 1..N : done[i]
                  \/ conf.mode = "sync" /\ ~progressed /\ Drained = 0)
  OBVIOUS
<1>2. PICK ps : ps = DrainedPipes
  OBVIOUS
<1>3. n = IF OverPipes THEN 0 ELSE Drained
  OBVIOUS
<1>4. /\ ps[N].data = DropBytes(pipes[N].data, n) /\ n \in 0..Len(pipes[N].data)
      /\ \A j \in 0..N : j # N => ps[j] = pipes[j]
      /\ ~OverPipes /\ ~OverOutput => \A j \in 0..N :
             /\ ps[j].read_closed = pipes[j].read_closed
             /\ ps[j].write_closed = pipes[j].write_closed
  BY <1>2, <1>3, DrainedBytes
<1>5. ps \in [0..N -> PipeType(Byte)] /\ N \in 0..N
  BY <1>2, DrainedPipesKeep, DrainedFacts
<1>6. out' = out \o TakeBytes(pipes[N].data, n)
  <2>1. pipes[N].data \in Seq(Byte) /\ out \in Seq(Byte)
    BY DrainedFacts DEF Base, TypeOK
  <2>2. TakeBytes(pipes[N].data, 0) = <<>> /\ out \o <<>> = out
    BY <2>1 DEF TakeBytes
  <2>3. out' = IF OverPipes THEN out ELSE out \o TakeBytes(pipes[N].data, Drained)
    BY DEF EndPass
  <2> QED BY <1>3, <2>2, <2>3
<1>7. phase = "drain" /\ conf' = conf
  BY DEF EndPass
<1>8. CASE over
  <2>1. phase' = "over" /\ st' = ClosedStages /\ pipes' = ClosedPipes(ps)
    BY <1>1, <1>2, <1>8 DEF EndPass, Over
  <2>2. \A j \in 0..N : pipes'[j].data = ps[j].data
    BY <1>5, <2>1, ClosedPipesKeep
  <2>3. \A j \in 1..N : Shut(st[j], st'[j])
    BY <2>1, ClosedStagesShut
  <2>4. Rests(n)
    BY <1>4, <1>5, <1>6, <1>7, <2>1, <2>2, <2>3 DEF Rests
  <2> QED BY <1>4, <1>7, <2>1, <2>4
<1>9. CASE ~over
  <2>1. pipes' = ps /\ st' = st /\ done' = done /\ ~OverPipes /\ ~OverOutput
    BY <1>1, <1>2, <1>9 DEF EndPass
  <2>2. Rests(n)
    BY <1>4, <1>6, <1>7, <2>1 DEF Rests, Shut, SameBuffers
  <2> QED BY <1>4, <1>7, <2>1, <2>2
<1> QED BY <1>8, <1>9

LEMMA EndPassFlows ==
  ASSUME Base, Order, FlowInv, EndPass
  PROVE  Order' /\ FlowInv'
<1>1. PICK n : n = IF OverPipes THEN 0 ELSE Drained
  OBVIOUS
<1>2. /\ n \in 0..Len(pipes[N].data) /\ Rests(n) /\ phase = "drain"
      /\ \/ phase' = "over"
         \/ /\ st' = st /\ done' = done
            /\ \A j \in 0..N : /\ pipes'[j].read_closed = pipes[j].read_closed
                               /\ pipes'[j].write_closed = pipes[j].write_closed
  BY <1>1, EndPassRests
<1>3. Order'
  BY <1>2, OverOrder, QuietOrder DEF Rests
<1> QED BY <1>2, <1>3, RestFlows

(* A poll of a stage, or of one that is done.                                 *)
LEMMA PollsFlow ==
  ASSUME Base, Order, FlowInv, Poll
  PROVE  Order' /\ FlowInv'
<1>1. PICK i \in 1..N : \/ PollRead(i) \/ PollHead(i) \/ PollBuffered(i)
                        \/ ExternalQuits(i) \/ ExternalRuns(i) \/ SkipStage(i)
  BY DEF Poll
<1>2. CASE SkipStage(i)
  <2>1. phase # "over" /\ UNCHANGED <<conf, pipes, st, done, out>>
    BY <1>2 DEF SkipStage
  <2> QED BY <2>1, QuietStep
<1>3. CASE Delivery(i) /\ Running(i)
  <2>1. PICK y : Leaves(i, y) /\ Delivers(View(i), y, i)
    BY <1>3 DEF Delivery
  <2> QED BY <1>3, <2>1, PollOrder, PollFlows
<1>4. CASE PollRead(i)
  BY <1>3, <1>4, ReadDelivery DEF PollRead
<1>5. CASE PollHead(i)
  BY <1>3, <1>5, HeadDelivery DEF PollHead
<1>6. CASE PollBuffered(i)
  BY <1>3, <1>6, BufferedDelivery DEF PollBuffered
<1>7. CASE ExternalQuits(i)
  BY <1>3, <1>7, QuitsDelivery DEF ExternalQuits
<1>8. CASE ExternalRuns(i)
  BY <1>3, <1>8, RunsDelivery DEF ExternalRuns
<1> QED BY <1>1, <1>2, <1>4, <1>5, <1>6, <1>7, <1>8

-----------------------------------------------------------------------------
(* The invariant, from the start of a pipeline to its end.                    *)

(* A new stage holds nothing, except that the child of a first stage has its  *)
(* output before it.                                                          *)
Still(s, i) ==
    /\ Sane(s, i) /\ ~s.fin /\ (\A p : AtEnd(s, p, i))
    /\ \/ Payload(HeldBy(s)) = <<>>
       \/ i = 1 /\ s.kind = "external" /\ Payload(HeldBy(s)) = Source

(* The constructors of the stages and ExternalPipeProcess::failed.            *)
LEMMA StartedStill ==
  ASSUME NEW i \in Nat, NEW k \in Kind, NEW s, s \in Started(i, k)
  PROVE  Still(s, i)
<1>1. Fresh(k, s)
  BY StartedFresh
<1>2. s \in Stage /\ s.kind = k /\ (k # "external" => ~s.eof)
  BY <1>1 DEF Fresh
<1>3. PICK inb : inb = IF k = "external" /\ i = 1 THEN Source ELSE <<>>
  OBVIOUS
<1>4. /\ ~s.fin /\ s.pend = <<>> /\ s.file = <<>> /\ s.stdin = <<>>
      /\ (s.inbox = inb \/ s.inbox = <<>>) /\ (s.se = <<>> \/ s.se = Diagnostic(i))
      /\ k # "external" => s.inbox = <<>>
      /\ \/ s.live = (k = "external") /\ ~s.sclosed /\ s.status = NoStatus
         \/ ~s.live /\ s.status = s.rc
  <2>1. CASE s = NewStage(k, i = 1)
    BY <1>3, <2>1 DEF NewStage
  <2>2. CASE k = "external" /\ s = FailedStage(i)
    <3>1. PICK n : n = NewStage("external", FALSE)
      OBVIOUS
    <3>2. PICK d : d = Diagnostic(i)
      OBVIOUS
    <3>3. /\ n \in [DOMAIN n -> {n[x] : x \in DOMAIN n}]
          /\ {"fin", "pend", "file", "stdin", "inbox", "live", "sclosed", "writable", "eof",
              "status", "rc", "se"} \subseteq DOMAIN n
          /\ ~n.fin /\ n.pend = <<>> /\ n.file = <<>> /\ n.stdin = <<>> /\ n.inbox = <<>>
      BY <3>1 DEF NewStage
    <3>4. s = [n EXCEPT !.live = FALSE, !.sclosed = TRUE, !.writable = FALSE, !.eof = TRUE,
                        !.status = 126, !.rc = 126, !.se = d]
      BY <2>2, <3>1, <3>2 DEF FailedStage
    <3>5. /\ ~s.fin /\ s.pend = <<>> /\ s.file = <<>> /\ s.stdin = <<>> /\ s.inbox = <<>>
          /\ ~s.live /\ s.status = 126 /\ s.rc = 126 /\ s.se = d
      BY <3>3, <3>4
    <3> QED BY <2>2, <3>2, <3>5
  <2> QED BY <2>1, <2>2 DEF Started
<1>5. Payload(s.se) = <<>>
  <2>1. Payload(Diagnostic(i)) = <<>>
    BY PayloadEmpty DEF Diagnostic
  <2> QED BY <1>4, <2>1, PayloadEmpty
<1>6. Sane(s, i)
  BY <1>2, <1>4, <1>5 DEF Sane, Buffering
<1>7. \A p : AtEnd(s, p, i)
  BY <1>2, <1>4 DEF AtEnd
<1>8. HeldBy(s) = s.inbox
  <2>1. s.inbox \in Seq(Nat) /\ Staged(s) = <<>>
    BY <1>2, <1>4, StageBytes DEF Staged
  <2>2. \A q \in Seq(Nat) : <<>> \o q = q /\ q \o <<>> = q
    OBVIOUS
  <2>3. <<>> \o <<>> = <<>>
    OBVIOUS
  <2> QED BY <1>4, <2>1, <2>2, <2>3 DEF HeldBy, Behind
<1>9. Payload(Source) = Source
  BY StreamingAssumption, PayloadPure
<1> QED BY <1>2, <1>3, <1>4, <1>6, <1>7, <1>8, <1>9, PayloadEmpty DEF Still

(* A pipeline starts with all its bytes at the source.                        *)
LEMMA InitPlaces ==
  ASSUME Init
  PROVE  /\ Order
         /\ \E put, have, got \in [0..N -> Place] :
                /\ Flows(put, have, got) /\ \A j \in 0..N : got[j] = 0
                /\ have[1] = Len(Payload(HeldBy(st[1])))
<1>1. Config /\ N \in Nat /\ N > 0 /\ \A i \in 1..N : Kinds[i] \in Kind
  BY InitEstablishes, ConfigFacts DEF PipelineInv
<1>2. \A i \in 1..N : Still(st[i], i)
  BY <1>1, StartedStill DEF Init
<1>3. PICK src : src = [data |-> Source, write_closed |-> TRUE, read_closed |-> FALSE]
  OBVIOUS
<1>4. /\ pipes[0].data = Source
      /\ \A i \in 1..N : pipes[i].data = <<>> /\ ~pipes[i].write_closed /\ ~pipes[i].read_closed
  <2>1. PICK np : np = NewPipe
    OBVIOUS
  <2>2. pipes = [i \in 0..N |-> IF i = 0 THEN src ELSE np]
    BY <1>3, <2>1 DEF Init
  <2>3. 0 \in 0..N /\ \A i \in 1..N : i \in 0..N /\ i # 0
    BY <1>1
  <2>4. pipes[0] = src /\ \A i \in 1..N : pipes[i] = np
    BY <2>2, <2>3
  <2> QED BY <1>3, <2>1, <2>4 DEF NewPipe
<1>5. Order
  <2>1. \A i \in 1..N : Sane(st[i], i) /\ AtEnd(st[i], pipes[i - 1], i)
    BY <1>2 DEF Still
  <2>2. \A i \in 1..N : Reasoned(i)
    BY <1>2, <1>4 DEF Reasoned, Still
  <2>3. Kinds[1] \in {"read", "external"} \cup Buffering
    BY DEF Init, Buffering
  <2> QED BY <2>1, <2>2, <2>3 DEF Order
<1>6. PICK L : L = Len(Source)
  OBVIOUS
<1>7. /\ L \in Place /\ 0 \in Place /\ 0 <= L /\ Seg(0, 0) = <<>> /\ Seg(0, L) = Source
      /\ Payload(Source) = Source /\ Payload(<<>>) = <<>>
  <2>1. L \in Place /\ 0 \in Place /\ 0 <= L
    BY <1>6, StreamingAssumption DEF Place
  <2> QED BY <1>6, <2>1, SegFacts, PayloadPure, PayloadEmpty, StreamingAssumption
<1>8. PICK put : put = [j \in 0..N |-> IF j = 0 THEN L ELSE 0]
  OBVIOUS
<1>9. PICK got : got = [j \in 0..N |-> 0]
  OBVIOUS
<1>10. PICK have : have = [j \in 0..N |-> IF j = 1 /\ Payload(HeldBy(st[j])) # <<>> THEN L ELSE 0]
  OBVIOUS
<1>11. /\ put \in [0..N -> Place] /\ got \in [0..N -> Place] /\ have \in [0..N -> Place]
       /\ put[0] = L /\ (\A j \in 1..N : put[j] = 0) /\ (\A j \in 0..N : got[j] = 0)
  BY <1>1, <1>7, <1>8, <1>9, <1>10
<1>12. Piece(out, 0, got[N])
  BY <1>1, <1>7, <1>11 DEF Init, Piece
<1>13. \A j \in 0..N : Piece(pipes[j].data, got[j], put[j])
  BY <1>4, <1>7, <1>11 DEF Piece
<1>14. ASSUME NEW j \in 1..N
       PROVE  /\ Piece(HeldBy(st[j]), put[j], have[j])
              /\ Linked(j) => have[j] = got[j - 1]
  <2>1. put[j] = 0 /\ got[j - 1] = 0
    BY <1>1, <1>11
  <2>2. have[j] = IF j = 1 /\ Payload(HeldBy(st[j])) # <<>> THEN L ELSE 0
    BY <1>1, <1>10
  <2>3. CASE Payload(HeldBy(st[j])) = <<>>
    BY <1>7, <2>1, <2>2, <2>3 DEF Piece
  <2>4. CASE Payload(HeldBy(st[j])) # <<>>
    <3>1. j = 1 /\ st[j].kind = "external" /\ Payload(HeldBy(st[j])) = Source
      BY <1>2, <2>4 DEF Still
    <3>2. st[j].kind = Kinds[j]
      BY InitEstablishes DEF PipelineInv, Shape
    <3>3. ~Linked(j)
      BY <3>1, <3>2 DEF Linked
    <3> QED BY <1>7, <2>1, <2>2, <2>4, <3>1, <3>3 DEF Piece
  <2> QED BY <2>3, <2>4
<1>15. \A j \in 1..N : Linked(j) =>
           have[j] <= got[j - 1] /\ (have[j] # got[j - 1] => Lost(j))
  <2>1. \A j \in 1..N : j - 1 \in 0..N /\ got[j - 1] = 0
    BY <1>1, <1>11
  <2> QED BY <1>14, <2>1
<1>16. put[1] = 0
  BY <1>1, <1>11
<1>17. Flows(put, have, got)
  BY <1>6, <1>11, <1>12, <1>13, <1>14, <1>15, <1>16 DEF Flows
<1>18. have[1] = Len(Payload(HeldBy(st[1])))
  <2>1. 1 \in 1..N /\ 1 \in 0..N
    BY <1>1
  <2>2. have[1] = IF Payload(HeldBy(st[1])) # <<>> THEN L ELSE 0
    BY <1>10, <2>1
  <2>3. Payload(HeldBy(st[1])) = <<>> \/ Payload(HeldBy(st[1])) = Source
    BY <1>2, <2>1 DEF Still
  <2>4. Len(<<>>) = 0
    OBVIOUS
  <2> QED BY <1>6, <2>2, <2>3, <2>4
<1> QED BY <1>5, <1>11, <1>17, <1>18

LEMMA InitFlows ==
  ASSUME Init
  PROVE  Order /\ FlowInv
BY InitPlaces DEF FlowInv

-----------------------------------------------------------------------------
(* What the invariant says of a pipeline's bytes.                             *)

(* Held, in the order of HeldBy.                                              *)
LEMMA HeldIs ==
  ASSUME Base, NEW i \in 1..N
  PROVE  Held(i) = HeldBy(st[i]) /\ HeldBy(st[i]) \in Seq(Nat)
<1>1. st[i] \in Stage /\ st[i].kind = Kinds[i]
  BY DEF Base, TypeOK, Shape
<1>2. PICK a : a = st[i].pend
  OBVIOUS
<1>3. PICK b : b = st[i].inbox
  OBVIOUS
<1>4. PICK c : c = st[i].stdin
  OBVIOUS
<1>5. PICK d : d = Staged(st[i])
  OBVIOUS
<1>6. a \in Seq(Nat) /\ b \in Seq(Nat) /\ c \in Seq(Nat) /\ d \in Seq(Nat)
  BY <1>1, <1>2, <1>3, <1>4, <1>5, StageBytes
<1>7. c \o d \in Seq(Nat) /\ a \o b \in Seq(Nat)
  BY <1>6
<1>8. Joined(a, b, c \o d) /\ Joined(a \o b, c, d)
  BY <1>6, <1>7, Assoc
<1>9. ((a \o b) \o c) \o d = a \o (b \o (c \o d))
  BY <1>8 DEF Joined
<1>10. Held(i) = ((a \o b) \o c) \o d
  BY <1>1, <1>2, <1>3, <1>4, <1>5 DEF Held, Staged, Buffering
<1>11. HeldBy(st[i]) = a \o (b \o (c \o d))
  BY <1>2, <1>3, <1>4, <1>5 DEF HeldBy, Behind
<1> QED BY <1>1, <1>9, <1>10, <1>11, StageBytes

(* The definition of InFlight, unfolded.                                      *)
Line(f) ==
    /\ f \in [0..N -> Seq(Nat)] /\ f[0] = pipes[0].data
    /\ \A k \in 1..N : f[k] = (pipes[k].data \o Held(k)) \o f[k - 1]

(* InFlight adds up the pipes and the stages one after the other.             *)
LEMMA InFlightIs ==
  ASSUME Base
  PROVE  \E f : Line(f) /\ InFlight = Payload(out \o f[N])
<1> DEFINE Step(s, k) == (pipes[k].data \o Held(k)) \o s
           g == [k \in 1..N |-> [s \in Seq(Nat) |-> Step(s, k)]]
           P == CHOOSE F : F = [k \in 0..N |-> IF k = 0 THEN pipes[0].data ELSE Step(F[k - 1], k)]
<1>1. N \in Nat
  BY ConfigFacts DEF Base
<1>2. \A k \in 0..N : pipes[k].data \in Seq(Nat)
  BY BytesAreNat DEF Base, TypeOK, PipeType
<1>3. \A k \in 1..N, s \in Seq(Nat) : Step(s, k) \in Seq(Nat)
  <2> SUFFICES ASSUME NEW k \in 1..N, NEW s \in Seq(Nat)
               PROVE  Step(s, k) \in Seq(Nat)
    OBVIOUS
  <2>1. PICK a : a = pipes[k].data
    OBVIOUS
  <2>2. PICK b : b = Held(k)
    OBVIOUS
  <2>3. a \in Seq(Nat) /\ b \in Seq(Nat)
    BY <1>1, <1>2, <2>1, <2>2, HeldIs
  <2>4. (a \o b) \o s \in Seq(Nat)
    BY <2>3
  <2> QED BY <2>1, <2>2, <2>4
<1>4. InFlight = Payload(out \o P[N])
  BY DEF InFlight
<1>5. \A s, k : Step(s, k) = (pipes[k].data \o Held(k)) \o s
  OBVIOUS
<1> HIDE DEF Step
<1>6. g \in [1..N -> [Seq(Nat) -> Seq(Nat)]]
  BY <1>3
<1>7. \A k \in 1..N, s \in Seq(Nat) : g[k][s] = Step(s, k)
  OBVIOUS
<1> HIDE DEF g
<1>8. PICK f : /\ f \in [0..N -> Seq(Nat)] /\ f[0] = pipes[0].data
               /\ \A k \in 1..N : f[k] = g[k][f[k - 1]]
  <2>1. pipes[0].data \in Seq(Nat)
    BY <1>1, <1>2
  <2>2. \E f : Iterates(f, N, Seq(Nat), pipes[0].data, g)
    BY <1>1, <1>6, <2>1, ByRecursion DEF Steps
  <2> QED BY <2>2 DEF Iterates
<1>9. f = [k \in 0..N |-> IF k = 0 THEN pipes[0].data ELSE Step(f[k - 1], k)]
  <2>1. \A k \in 1..N : f[k - 1] \in Seq(Nat) /\ g[k][f[k - 1]] = Step(f[k - 1], k)
    BY <1>1, <1>7, <1>8
  <2>2. \A k \in 0..N : f[k] = IF k = 0 THEN pipes[0].data ELSE Step(f[k - 1], k)
    BY <1>1, <1>8, <2>1
  <2> QED BY <1>8, <2>2
<1>10. P = [k \in 0..N |-> IF k = 0 THEN pipes[0].data ELSE Step(P[k - 1], k)]
  BY <1>9
<1> HIDE DEF P
<1>11. \A k \in 0..N : P[k] = f[k]
  <2> DEFINE T == {k \in 0..N : P[k] = f[k]}
  <2>1. 0 \in T
    BY <1>1, <1>8, <1>10
  <2>2. \A k \in 1..N : k - 1 \in T => k \in T
    <3> SUFFICES ASSUME NEW k \in 1..N, k - 1 \in T
                 PROVE  P[k] = f[k]
      OBVIOUS
    <3>1. P[k] = Step(P[k - 1], k)
      BY <1>1, <1>10
    <3>2. f[k] = Step(f[k - 1], k)
      BY <1>1, <1>9
    <3> QED BY <3>1, <3>2
  <2> HIDE DEF T
  <2>3. \A k \in 0..N : k \in T
    BY <1>1, <2>1, <2>2, UpTo
  <2> QED BY <2>3 DEF T
<1>12. Line(f)
  <2>1. \A k \in 1..N : f[k] = Step(f[k - 1], k)
    BY <1>1, <1>9
  <2> QED BY <1>5, <1>8, <2>1 DEF Line
<1>13. InFlight = Payload(out \o f[N])
  BY <1>1, <1>4, <1>11
<1> QED BY <1>12, <1>13

(* stdout is a prefix of the source.                                          *)
LEMMA FlowsInOrder ==
  ASSUME Base, FlowInv
  PROVE  InOrder
<1>1. PICK put \in [0..N -> Place], have \in [0..N -> Place], got \in [0..N -> Place] :
          Flows(put, have, got)
  BY DEF FlowInv
<1>2. got[N] \in Place /\ 0 \in Place /\ 0 <= got[N] /\ got[N] \in Nat
  BY <1>1, ConfigFacts, StreamingAssumption DEF Base, Place
<1>3. Payload(out) = Seg(0, got[N])
  BY <1>1 DEF Flows, Piece
<1>4. Len(Seg(0, got[N])) = got[N]
  BY <1>2, SegFacts
<1>5. TakeBytes(Source, got[N]) = Seg(0, got[N])
  BY DEF TakeBytes, Seg
<1> QED BY <1>3, <1>4, <1>5 DEF InOrder

(* When no stage has given up, none has lost a byte.                          *)
LEMMA IntactLosesNothing ==
  ASSUME Base, Intact, NEW i \in 1..N
  PROVE  ~Lost(i)
<1>1. N \in Nat /\ \A j \in (i + 1)..N : j \in 1..N
  BY ConfigFacts DEF Base
<1>2. \A j \in 1..N : ~Gave(st[j])
  BY DEF Intact, Gave
<1>3. ~Cause(i) /\ Trusty
  BY <1>1, <1>2 DEF Cause, Intact, Trusty
<1> QED BY <1>2, <1>3 DEF Lost

(* Then what is on its way makes up the source.                               *)
LEMMA FlowsAddUp ==
  ASSUME Base, FlowInv, Intact, Kinds[1] = "read"
  PROVE  InFlight = Source
<1>1. N \in Nat /\ N > 0 /\ \A k \in 1..N : k \in 0..N /\ k - 1 \in 0..N
  BY ConfigFacts DEF Base
<1>2. PICK put \in [0..N -> Place], have \in [0..N -> Place], got \in [0..N -> Place] :
          Flows(put, have, got)
  BY DEF FlowInv
<1>3. \A k \in 1..N : have[k] = got[k - 1]
  BY <1>1, <1>2, IntactLosesNothing DEF Flows, Linked
<1>4. PICK f : Line(f) /\ InFlight = Payload(out \o f[N])
  BY InFlightIs
<1>5. PICK L : L = Len(Source)
  OBVIOUS
<1>6. L \in Place /\ 0 \in Place
  BY <1>5, StreamingAssumption DEF Place
<1> DEFINE T == {k \in 0..N : Piece(f[k], got[k], L)}
<1>7. 0 \in T
  BY <1>1, <1>2, <1>4, <1>5 DEF Line, Flows
<1>8. ASSUME NEW k \in 1..N, k - 1 \in T
      PROVE  k \in T
  <2>1. PICK a : a = pipes[k].data
    OBVIOUS
  <2>2. PICK b : b = Held(k)
    OBVIOUS
  <2>3. PICK c : c = f[k - 1]
    OBVIOUS
  <2>4. a \in Seq(Nat) /\ b \in Seq(Nat) /\ c \in Seq(Nat) /\ b = HeldBy(st[k])
    BY <1>1, <1>4, <2>1, <2>2, <2>3, BytesAreNat, HeldIs DEF Line, Base, TypeOK, PipeType
  <2>5. f[k] = (a \o b) \o c
    BY <1>4, <2>1, <2>2, <2>3 DEF Line
  <2>6. /\ got[k] \in Place /\ put[k] \in Place /\ got[k - 1] \in Place
        /\ Piece(a, got[k], put[k]) /\ Piece(b, put[k], got[k - 1]) /\ Piece(c, got[k - 1], L)
    BY <1>1, <1>2, <1>3, <1>8, <2>1, <2>3, <2>4 DEF Flows
  <2>7. a \o b \in Seq(Nat)
    BY <2>4
  <2>8. Payload(a \o b) = Payload(a) \o Payload(b)
    BY <2>4, PayloadConcat
  <2>9. Payload((a \o b) \o c) = Payload(a \o b) \o Payload(c)
    BY <2>4, <2>7, PayloadConcat
  <2>10. /\ got[k] <= put[k] /\ put[k] <= got[k - 1] /\ got[k - 1] <= L
         /\ Payload(a) = Seg(got[k], put[k]) /\ Payload(b) = Seg(put[k], got[k - 1])
         /\ Payload(c) = Seg(got[k - 1], L)
    BY <2>6 DEF Piece
  <2>11. Seg(got[k], put[k]) \o Seg(put[k], got[k - 1]) = Seg(got[k], got[k - 1])
    BY <2>6, <2>10, SegFacts
  <2>12. got[k] <= got[k - 1] /\ got[k] <= L
    BY <1>6, <2>6, <2>10 DEF Place
  <2>13. Seg(got[k], got[k - 1]) \o Seg(got[k - 1], L) = Seg(got[k], L)
    BY <1>6, <2>6, <2>10, <2>12, SegFacts
  <2>14. Payload(f[k]) = Seg(got[k], L)
    BY <2>5, <2>8, <2>9, <2>10, <2>11, <2>13
  <2> QED BY <1>1, <2>12, <2>14 DEF Piece
<1> HIDE DEF T
<1>9. N \in T
  <2>1. \A k \in 0..N : k \in T
    BY <1>1, <1>7, <1>8, UpTo
  <2> QED BY <1>1, <2>1
<1>10. Piece(f[N], got[N], L) /\ Piece(out, 0, got[N]) /\ got[N] \in Place
  BY <1>1, <1>2, <1>9 DEF T, Flows
<1>11. PICK fn : fn = f[N]
  OBVIOUS
<1>12. fn \in Seq(Nat) /\ out \in Seq(Nat)
  BY <1>1, <1>4, <1>11, BytesAreNat DEF Line, Base, TypeOK
<1>13. Payload(out \o fn) = Payload(out) \o Payload(fn)
  BY <1>12, PayloadConcat
<1>14. /\ 0 <= got[N] /\ got[N] <= L /\ Payload(out) = Seg(0, got[N])
       /\ Payload(fn) = Seg(got[N], L)
  BY <1>10, <1>11 DEF Piece
<1>15. Seg(0, got[N]) \o Seg(got[N], L) = Seg(0, L)
  BY <1>6, <1>10, <1>14, SegFacts
<1>16. 0 <= L
  BY <1>6 DEF Place
<1>17. Seg(0, L) = Source
  BY <1>5, <1>6, <1>16, SegFacts
<1> QED BY <1>4, <1>11, <1>13, <1>14, <1>15, <1>17

-----------------------------------------------------------------------------
(* Every byte stays in its place or moves on with the step that takes it.     *)
LEMMA FlowInvariant == Spec => [](PipelineInv /\ Order /\ FlowInv)
<1> DEFINE Inv == Order /\ FlowInv
<1>1. PipelineInv => Base
  BY DEF PipelineInv, Base
<1>2. Init => Inv
  BY InitFlows
<1>3. PipelineInv /\ Inv /\ [Next]_vars => Inv'
  <2> SUFFICES ASSUME Base, Order, FlowInv, [Next]_vars
               PROVE  Order' /\ FlowInv'
    BY <1>1
  <2>1. CASE BeginPass
    BY <2>1, QuietStep DEF BeginPass
  <2>2. CASE Poll
    BY <2>2, PollsFlow
  <2>3. CASE EndPass
    BY <2>3, EndPassFlows
  <2>4. CASE DeadlinePasses
    BY <2>4, DeadlinePassesFlows
  <2>5. CASE StepsRefused
    BY <2>5, StepsRefusedFlows
  <2>6. CASE ClockPasses
    BY <2>6, QuietStep DEF ClockPasses
  <2>7. CASE Cancel
    BY <2>7, CancelFlows
  <2>8. CASE UNCHANGED vars
    <3>1. UNCHANGED <<conf, pipes, st, done, phase, out>>
      BY <2>8 DEF vars
    <3>2. CASE phase = "over"
      <4>1. \A j \in 1..N : Shut(st[j], st'[j])
        BY <3>1 DEF Shut, SameBuffers
      <4> QED BY <3>1, <3>2, <4>1, OverStep
    <3>3. CASE phase # "over"
      BY <3>1, <3>3, QuietStep
    <3> QED BY <3>2, <3>3
  <2> QED BY <2>1, <2>2, <2>3, <2>4, <2>5, <2>6, <2>7, <2>8 DEF Next, Scheduler
<1> QED BY <1>2, <1>3, PipelineInvariant, PTL DEF Spec

(* However the passes, the partial writes and the host's answers fall, stdout *)
(* shows the bytes of the source in order, once and nothing else, and as long *)
(* as no stage has failed or had enough every byte of it is still there: in   *)
(* stdout, in a pipe or in a stage (write, read and poll of pipe.rs and of    *)
(* the five process types, drain_final_pipe_to_stdout).                       *)
THEOREM BytesConserved == Spec => []Conserved
<1>1. PipelineInv /\ Order /\ FlowInv => Conserved
  BY FlowsInOrder, FlowsAddUp DEF Conserved, PipelineInv, Base
<1> QED BY <1>1, FlowInvariant, PTL
=============================================================================
