--------------------------- MODULE StreamingPipeline ---------------------------
(* The pipeline schedulers of wasmsh-runtime: drive_streaming_pipeline for    *)
(* built-in pipelines (mode "sync") and poll_pending_streaming_pipeline for   *)
(* pipelines with external processes under StartRun (mode "pending").         *)
(*                                                                            *)
(* Stage i reads pipes[i-1] and writes pipes[i]; one pass polls the stages    *)
(* from last to first, drains the last pipe to stdout and decides whether to  *)
(* go on.  pipes[0] stands for the reader of a first stage that has its data  *)
(* in memory or in a file.  Every stage copies its input, so what reaches     *)
(* stdout can be compared with the source; what a real filter computes is     *)
(* left out.                                                                  *)
EXTENDS PipeBuffer, FiniteSets

CONSTANTS
    Scenarios,   \* the pipelines run, sequences of stage kinds, each with what may go wrong
    Source,      \* the bytes the first stage produces
    Capacity,    \* EXTERNAL_STREAM_PIPE_CAPACITY
    Chunk,       \* the 4096-byte scratch buffers and stream_chunk_bytes
    HeadBytes,   \* the n of `head -c n`
    MaxInput,    \* max_input_bytes, under "limits"
    MaxOutput,   \* max_output_bytes, under "limits"
    PipeLimit,   \* pipe_byte_limit, under "budget"; 0 is unlimited
    OutputLimit, \* output_byte_limit of the run, under "budget"; 0 is unlimited
    PipeStderr   \* the stages joined by |& rather than |

(* "bounded" is a buffered stage whose command is a registered external.      *)
Kind  == {"read", "head", "tee", "buffered", "bounded", "external"}
Fault == {"spawn", "exit", "stderr", "error", "block", "over", "flood", "io", "steps",
          "limits", "budget"}
Byte  == {Source[k] : k \in DOMAIN Source} \cup {0}    \* 0: a byte of stderr
NoStatus == -1

ASSUME StreamingAssumption ==
    /\ Scenarios \subseteq [kinds : Seq(Kind), faults : SUBSET Fault]
    /\ \A c \in Scenarios : Len(c.kinds) > 0
    /\ Source \in Seq(Nat \ {0})
    /\ Capacity \in Nat \ {0} /\ Chunk \in Nat \ {0} /\ HeadBytes \in Nat
    /\ MaxInput \in Nat \ {0} /\ MaxOutput \in Nat \ {0}
    /\ PipeLimit \in Nat /\ OutputLimit \in Nat
    /\ PipeStderr \subseteq Nat

VARIABLES
    conf,        \* the pipeline: its kinds, its scheduler, pipefail and what may go wrong
    pipes,       \* output_pipes, and the source as pipes[0]
    st,          \* processes
    done,        \* finished, the scheduler's view of the processes
    phase,       \* "begin" (between passes), "poll", "drain", "over"
    cur,         \* the stage polled next
    late,        \* the clock has passed deadline_ms
    progressed,  \* whether this pass moved anything
    exhausted,   \* exec.resource_exhausted
    out,         \* stdout
    ended,       \* history: why the pipeline is over
    result       \* vm.state.last_status after the pipeline, if it is set

vars == <<conf, pipes, st, done, phase, cur, late, progressed, exhausted, out, ended, result>>

Kinds == conf.kinds
N     == Len(Kinds)
Faults == conf.faults
Cap   == IF conf.mode = "sync" THEN 1 ELSE Capacity

(* One record for the five process types.                                     *)
Stage ==
    [kind : Kind, fin : BOOLEAN,      \* finished
     pend : Seq(Byte),                \* pending bytes for the output pipe
     se : Seq(Byte),                  \* stderr bytes waiting for the output pipe
     eof : BOOLEAN,                   \* reader_done, command_ran, stdout and stderr EOF
     rc : Nat,                        \* stage_status
     left : Nat,                      \* head: bytes still wanted
     file : Seq(Byte),                \* tee: its target; buffered: the staging file
     staging : BOOLEAN,               \* buffered: the staging file exists
     live : BOOLEAN,                  \* external: process is Some
     stdin : Seq(Byte),               \* external: pending_stdin
     sclosed : BOOLEAN, writable : BOOLEAN,
     nin : Nat, nout : Nat,           \* external: stdin_bytes, output_bytes
     status : Nat \cup {NoStatus},
     inbox : Seq(Byte)]               \* external host: bytes accepted, not yet echoed

(* The constructors; an external may fail to start (ExternalPipeProcess::failed). *)
NewStage(kind, first) ==
    [kind |-> kind, fin |-> FALSE, pend |-> <<>>, se |-> <<>>, eof |-> FALSE, rc |-> 0,
     left |-> HeadBytes, file |-> <<>>, staging |-> FALSE,
     live |-> kind = "external", stdin |-> <<>>, sclosed |-> FALSE,
     writable |-> kind = "external", nin |-> 0, nout |-> 0, status |-> NoStatus,
     inbox |-> IF kind = "external" /\ first THEN Source ELSE <<>>]

Diagnostic(i) == IF i \in PipeStderr THEN <<0>> ELSE <<>>

FailedStage(i) ==
    [NewStage("external", FALSE) EXCEPT
        !.live = FALSE, !.sclosed = TRUE, !.writable = FALSE, !.eof = TRUE,
        !.status = 126, !.rc = 126, !.se = Diagnostic(i)]

Started(i, k) ==
    {NewStage(k, i = 1)}
        \cup IF k = "external" /\ "spawn" \in Faults THEN {FailedStage(i)} ELSE {}

(* A pipeline with an external stage is polled by the run's poll, any other   *)
(* is driven to its end at once.                                              *)
SchedulerOf(kinds) ==
    IF \E i \in DOMAIN kinds : kinds[i] = "external" THEN "pending" ELSE "sync"

Init ==
    /\ conf \in { [kinds |-> c.kinds, mode |-> SchedulerOf(c.kinds), pipefail |-> pf,
                   faults |-> c.faults] : c \in Scenarios, pf \in BOOLEAN }
    /\ Kinds[1] \in {"read", "external", "buffered", "bounded"}
    /\ pipes = [i \in 0..N |-> IF i = 0 THEN [data |-> Source, write_closed |-> TRUE,
                                              read_closed |-> FALSE]
                               ELSE NewPipe]
    /\ st \in [1..N -> UNION {Started(i, Kinds[i]) : i \in 1..N}]
    /\ \A i \in 1..N : st[i] \in Started(i, Kinds[i])
    /\ done = [i \in 1..N |-> FALSE]
    /\ phase = "begin" /\ cur = 0 /\ late = FALSE
    /\ progressed = FALSE /\ exhausted = FALSE
    /\ out = <<>> /\ ended = "no" /\ result = NoStatus

-----------------------------------------------------------------------------
(* Polling a stage.  A view is the stage with the pipes it touches and the    *)
(* PipeProcessPoll it returns; "going" means the poll goes on.                *)

View(i) == [s |-> st[i], in |-> pipes[i - 1], out |-> pipes[i], res |-> "going"]

Return(x, res) == [x EXCEPT !.res = res]

(* Mutant of Finish: the output is left open.                                 *)
FinishOpen(x) ==
    [s   |-> [x.s EXCEPT !.fin = TRUE], in |-> CloseRead(x.in),
     out |-> x.out, res |-> "exited"]

(* finish: PipeReadProcess, TeePipeProcess and HeadPipeProcess give up their  *)
(* reader (PipeReader::drop closes the read end) and close the output.        *)
Finish(x) ==
    [s   |-> [x.s EXCEPT !.fin = TRUE], in |-> CloseRead(x.in),
     out |-> CloseWrite(x.out), res |-> "exited"]

(* read_drain_pending, tee_drain_pending: tee copies what the pipe accepted.  *)
DrainPending(x) ==
    LET w == Write(x.out, x.s.pend, Cap)
    IN  IF w.res = "broken" THEN Finish(x)
        ELSE [s   |-> [x.s EXCEPT !.pend = DropBytes(@, w.n),
                                  !.file = IF x.s.kind = "tee"
                                           THEN @ \o TakeBytes(x.s.pend, w.n) ELSE @],
              in  |-> x.in, out |-> w.pipe,
              res |-> IF w.n = 0 THEN "pending_write" ELSE "ready"]

(* poll_stderr, tee_drain_stderr.                                             *)
DrainStderr(x) ==
    LET w == Write(x.out, x.s.se, Cap)
    IN  IF w.res = "broken" THEN Finish(x)
        ELSE [s   |-> [x.s EXCEPT !.se = DropBytes(@, w.n)],
              in  |-> x.in, out |-> w.pipe,
              res |-> IF w.n = 0 THEN "pending_write" ELSE "ready"]

(* PipeReadProcess::poll and TeePipeProcess::poll once their reader has been  *)
(* asked: what is pending, then stderr, then the end.                         *)
Deliver(x) ==
    IF x.s.pend # <<>> THEN DrainPending(x)
    ELSE IF x.s.se # <<>> THEN DrainStderr(x)
    ELSE IF x.s.eof THEN Finish(x) ELSE x

ReadPoll(x) ==
    LET d == Deliver(x)
        r == Read(x.in, Chunk)
        y == [s   |-> [x.s EXCEPT !.pend = r.bytes, !.eof = (r.res = "eof")],
              in  |-> r.pipe, out |-> x.out, res |-> "going"]
    IN  IF d.res # "going" THEN d
        ELSE IF r.res = "would_block" THEN Return(x, "pending_read")
        ELSE Deliver(y)

(* A reader of a first stage that fails: status 1 and a diagnostic.           *)
ReadFails(x, i) ==
    Deliver([x EXCEPT !.s = [x.s EXCEPT !.rc = 1, !.eof = TRUE, !.se = @ \o Diagnostic(i)]])

(* HeadPipeProcess::try_flush_pending, and its poll loop around reads of one  *)
(* byte; the limit closes the input before the byte has been passed on.       *)
HeadFlush(x) ==
    LET d == DrainPending(x)
    IN  IF d.res = "ready" /\ d.s.pend = <<>> /\ d.s.eof THEN Finish(d) ELSE d

HeadPoll(x) ==
    LET r    == Read(x.in, 1)
        more == IF x.s.left > 0 THEN x.s.left - 1 ELSE 0
        y    == [s   |-> [x.s EXCEPT !.pend = r.bytes, !.left = more, !.eof = (more = 0)],
                 in  |-> IF more = 0 THEN CloseRead(r.pipe) ELSE r.pipe,
                 out |-> x.out, res |-> "going"]
    IN  IF x.s.pend # <<>> THEN HeadFlush(x)
        ELSE IF x.s.eof \/ r.res = "eof" THEN Finish(x)
        ELSE IF r.res = "would_block" THEN Return(x, "pending_read")
        ELSE HeadFlush(y)

-----------------------------------------------------------------------------
(* BufferedPipeProcess.                                                       *)

(* close: the staging file is removed.                                        *)
BufferedClose(x) == [x EXCEPT !.s = [x.s EXCEPT !.staging = FALSE]]

(* close_write, finished.  The input pipe is left as it is.                   *)
BufferedEnd(x) ==
    [s |-> [x.s EXCEPT !.fin = TRUE], in |-> x.in, out |-> CloseWrite(x.out), res |-> "exited"]

(* run_command: the command gets the staging file as stdin, which is removed  *)
(* when it returns, and its output is captured.                               *)
RunCommand(x, input) ==
    LET y == [x EXCEPT !.s = [x.s EXCEPT !.staging = FALSE, !.eof = TRUE, !.pend = input,
                                         !.file = <<>>]]
    IN  IF input = <<>> THEN BufferedEnd(y) ELSE Return(y, "ready")

BufferedDrain(x) ==
    LET w == Write(x.out, x.s.pend, Cap)
        y == [s  |-> [x.s EXCEPT !.pend = DropBytes(@, w.n)],
              in |-> x.in, out |-> w.pipe, res |-> "going"]
    IN  IF w.res = "broken" \/ y.s.pend = <<>> THEN BufferedEnd(y)
        ELSE Return(y, IF w.n = 0 THEN "pending_write" ELSE "ready")

(* emit_input_limit_error and emit_error: the input pipe is not closed.       *)
BufferedRefuses(x, status) ==
    BufferedEnd(BufferedClose([x EXCEPT !.s = [x.s EXCEPT !.rc = status]]))

(* input_limit, which only registered externals have.                         *)
OverInput(s, bytes) == "limits" \in Faults /\ s.kind = "bounded" /\ Len(s.file \o bytes) > MaxInput

(* buffered_pump_input; broken: the staging file cannot be written.           *)
BufferedPump(x, first, broken) ==
    LET r == Read(x.in, Chunk)
        y == [x EXCEPT !.in = r.pipe]
    IN  IF first THEN RunCommand(x, Source)
        ELSE IF r.res = "eof" THEN RunCommand([y EXCEPT !.in = CloseRead(@)], x.s.file)
        ELSE IF r.res = "would_block" THEN Return(x, "pending_read")
        ELSE IF OverInput(x.s, r.bytes) THEN BufferedRefuses(y, 125)
        ELSE IF broken THEN BufferedRefuses(y, 1)
        ELSE Return([y EXCEPT !.s = [y.s EXCEPT !.file = @ \o r.bytes, !.staging = TRUE]], "ready")

BufferedPoll(x, first, broken) ==
    IF x.s.pend # <<>> THEN BufferedDrain(x)
    ELSE IF x.s.eof THEN BufferedEnd(x)
    ELSE BufferedPump(x, first, broken)

-----------------------------------------------------------------------------
(* ExternalPipeProcess.                                                       *)

(* cancel_process: the child is cancelled, both pipes are closed.             *)
CancelProcess(x, status) ==
    LET code == IF x.s.status # NoStatus THEN x.s.status ELSE status
    IN  [s   |-> [x.s EXCEPT !.live = FALSE, !.stdin = <<>>, !.sclosed = TRUE,
                             !.status = code, !.rc = code, !.fin = TRUE],
         in  |-> CloseRead(x.in), out |-> CloseWrite(x.out), res |-> "exited"]

(* can_finish and the ends of poll: close_write, finished.                    *)
ExternalEnd(x) ==
    [s |-> [x.s EXCEPT !.fin = TRUE], in |-> x.in, out |-> CloseWrite(x.out), res |-> "exited"]

(* flush_pending_output: stdout first, then the stderr of a |& stage.         *)
FlushPart(x, bytes) == Write(x.out, bytes, Cap)

(* Mutant of Flush: blocked on stderr, it forgets that stdout was written.    *)
FlushRepeats(x) ==
    LET a == FlushPart(x, x.s.pend)
        y == [s  |-> [x.s EXCEPT !.pend = DropBytes(@, a.n)],
              in |-> x.in, out |-> a.pipe, res |-> "going"]
        b == FlushPart(y, x.s.se)
        z == [s  |-> [y.s EXCEPT !.se = DropBytes(@, b.n)],
              in |-> x.in, out |-> b.pipe, res |-> "going"]
    IN  IF x.s.pend # <<>> /\ a.res = "broken" THEN CancelProcess(x, 141)
        ELSE IF y.s.pend # <<>> THEN Return(y, "pending_write")
        ELSE IF x.s.se # <<>> /\ b.res = "broken" THEN CancelProcess(y, 141)
        ELSE IF z.s.se # <<>>
        THEN Return([z EXCEPT !.s = [z.s EXCEPT !.pend = x.s.pend]], "pending_write")
        ELSE z

Flush(x) ==
    LET a == FlushPart(x, x.s.pend)
        y == [s  |-> [x.s EXCEPT !.pend = DropBytes(@, a.n)],
              in |-> x.in, out |-> a.pipe, res |-> "going"]
        b == FlushPart(y, x.s.se)
        z == [s  |-> [y.s EXCEPT !.se = DropBytes(@, b.n)],
              in |-> x.in, out |-> b.pipe, res |-> "going"]
    IN  IF x.s.pend # <<>> /\ a.res = "broken" THEN CancelProcess(x, 141)
        ELSE IF y.s.pend # <<>> THEN Return(y, "pending_write")
        ELSE IF x.s.se # <<>> /\ b.res = "broken" THEN CancelProcess(y, 141)
        ELSE IF z.s.se # <<>> THEN Return(z, "pending_write")
        ELSE z

(* fail: the child is cancelled and the diagnostic queued behind its output.  *)
Fail(x, status, i) ==
    LET y == [s   |-> [x.s EXCEPT !.live = FALSE, !.stdin = <<>>, !.sclosed = TRUE,
                                  !.status = status, !.rc = status, !.eof = TRUE,
                                  !.se = @ \o Diagnostic(i)],
              in  |-> CloseRead(x.in), out |-> x.out, res |-> "going"]
        f == Flush(y)
    IN  IF f.res # "going" THEN Return(f, "pending_write") ELSE ExternalEnd(f)

(* fill_stdin; the first stage of a pipeline has no input.                    *)
FillStdin(x, first) ==
    LET r == Read(x.in, Chunk)
    IN  IF x.s.sclosed \/ ~x.s.writable \/ x.s.stdin # <<>> THEN x
        ELSE IF first \/ r.res = "eof"
        THEN [s   |-> [x.s EXCEPT !.sclosed = TRUE],
              in  |-> IF first THEN x.in ELSE CloseRead(x.in), out |-> x.out, res |-> "going"]
        ELSE [s   |-> [x.s EXCEPT !.stdin = r.bytes], in |-> r.pipe, out |-> x.out, res |-> "going"]

(* The host's answers to write_stdin: it accepts a part, and may ask to wait, *)
(* have lost its child ("exit") or claim more than it was given ("over").     *)
HostWrites(s) ==
    [accepted    : 0..(Len(s.stdin) + IF "over" \in Faults THEN 1 ELSE 0),
     would_block : IF "block" \in Faults THEN BOOLEAN ELSE {FALSE},
     closed      : IF "exit" \in Faults THEN BOOLEAN ELSE {FALSE}]

Writing(s) == ~s.sclosed /\ s.stdin # <<>> /\ s.writable

(* write_stdin_chunk.                                                         *)
WriteStdin(x, w, i) ==
    LET y == [x EXCEPT !.s = [x.s EXCEPT !.stdin = DropBytes(@, w.accepted),
                                         !.inbox = @ \o TakeBytes(x.s.stdin, w.accepted)]]
        z == [y EXCEPT !.s = [y.s EXCEPT !.nin = @ + w.accepted, !.writable = ~w.would_block]]
    IN  IF ~Writing(x.s) THEN x
        ELSE IF w.accepted > Len(x.s.stdin) THEN Fail(x, 126, i)
        ELSE IF w.closed THEN Fail(y, 141, i)
        ELSE IF "limits" \in Faults /\ z.s.nin > MaxInput THEN Fail(y, 125, i)
        ELSE z

(* The host's answers to poll.  The child echoes its input and exits when it  *)
(* has seen EOF; its status may be known before its output has been read to   *)
(* the end.  Under "exit" it may exit at any time, with any status.  The host *)
(* has no error to report of a child that came to its own end.                *)
HostPolls(s) ==
    { r \in [stdout   : 0..Least(Len(s.inbox), Chunk + IF "flood" \in Faults THEN 1 ELSE 0),
             stderr   : 0..(IF "stderr" \in Faults THEN 1 ELSE 0), eof : BOOLEAN,
             exits    : BOOLEAN, status : 0..(IF "exit" \in Faults THEN 1 ELSE 0),
             writable : IF "block" \in Faults THEN BOOLEAN ELSE {TRUE},
             error    : IF "error" \in Faults THEN BOOLEAN ELSE {FALSE}] :
        /\ ~r.exits => r.status = 0
        /\ "exit" \notin Faults =>
               /\ r.eof => s.sclosed /\ r.stdout = Len(s.inbox)
               /\ r.exits => s.sclosed
               /\ r.error => ~r.exits /\ s.status = NoStatus }

(* append_poll_output: too much output or a chunk too large is refused whole; *)
(* a host error comes after its bytes have been queued.                       *)
AppendOutput(x, r, i) ==
    LET total == x.s.nout + r.stdout + r.stderr
        s2 == [x.s EXCEPT !.nout = total, !.inbox = DropBytes(@, r.stdout),
                          !.pend = @ \o TakeBytes(x.s.inbox, r.stdout),
                          !.se = IF r.stderr > 0 THEN @ \o Diagnostic(i) ELSE @,
                          !.eof = IF r.eof THEN TRUE ELSE @,
                          !.status = IF r.exits THEN r.status ELSE @,
                          !.rc = IF r.exits THEN r.status ELSE @,
                          !.writable = r.writable]
        y  == [x EXCEPT !.s = s2]
    IN  IF "limits" \in Faults /\ total > MaxOutput THEN Fail(x, 125, i)
        ELSE IF r.stdout > Chunk THEN Fail(x, 126, i)
        ELSE IF r.error THEN Fail(y, IF s2.status # NoStatus THEN s2.status ELSE 126, i)
        ELSE y

(* Mutant of ExternalSettle: the child's end finishes the stage though its    *)
(* output has not been handed on.                                             *)
ExternalSettleEarly(x) ==
    LET f == Flush(x)
    IN  IF x.res # "going" THEN x
        ELSE IF f.s.eof /\ f.s.status # NoStatus THEN ExternalEnd(f)
        ELSE IF f.res # "going" THEN f ELSE Return(f, "ready")

(* The end of poll: flush, and finish once everything has been handed on; the *)
(* pending scheduler takes no notice of the other outcomes.                   *)
(* The input pipe is not closed when the child ends by itself.                *)
ExternalSettle(x) ==
    LET f == Flush(x)
    IN  IF x.res # "going" THEN x
        ELSE IF f.res # "going" THEN f
        ELSE IF f.s.eof /\ f.s.status # NoStatus THEN ExternalEnd(f)
        ELSE Return(f, "ready")

(* Mutant of ExternalClose: the child is not cancelled.                       *)
ExternalCloseKeeps(x) ==
    [s  |-> [x.s EXCEPT !.fin = TRUE],
     in |-> CloseRead(x.in), out |-> CloseWrite(x.out), res |-> x.res]

(* close.                                                                     *)
ExternalClose(x) ==
    [s  |-> [x.s EXCEPT !.live = FALSE, !.fin = TRUE],
     in |-> CloseRead(x.in), out |-> CloseWrite(x.out), res |-> x.res]

-----------------------------------------------------------------------------
(* The schedulers.                                                            *)

Running(i) == phase = "poll" /\ cur = i /\ ~done[i]

(* One poll of stage i leaves behind one of these views.                      *)
Polled(i, views) == \E x \in views :
    /\ st' = [st EXCEPT ![i] = x.s]
    /\ pipes' = [pipes EXCEPT ![i - 1] = x.in, ![i] = x.out]
    /\ done' = [done EXCEPT ![i] = (x.res = "exited")]
    /\ progressed' = (progressed \/ x.res \in {"ready", "exited"})
    /\ cur' = i - 1
    /\ phase' = IF i = 1 THEN "drain" ELSE "poll"
    /\ UNCHANGED <<conf, late, exhausted, out, ended, result>>

PollRead(i) ==
    /\ Running(i) /\ Kinds[i] \in {"read", "tee"}
    /\ \/ Polled(i, {ReadPoll(View(i))})
       \/ /\ i = 1 /\ "io" \in Faults /\ Deliver(View(i)).res = "going"
          /\ Polled(i, {ReadFails(View(i), i)})

PollHead(i) == Running(i) /\ Kinds[i] = "head" /\ Polled(i, {HeadPoll(View(i))})

PollBuffered(i) ==
    /\ Running(i) /\ Kinds[i] \in {"buffered", "bounded"}
    /\ Polled(i, {BufferedPoll(View(i), i = 1, broken) :
                     broken \in IF "io" \in Faults THEN BOOLEAN ELSE {FALSE}})

(* ExternalPipeProcess::poll up to the host calls: a stage that is finished,  *)
(* whose reader has gone, whose output is still blocked or whose child is     *)
(* gone returns without them.                                                 *)
Quits(x) == x.s.fin \/ x.out.read_closed \/ Flush(x).res # "going" \/ ~x.s.live

ExternalQuits(i) ==
    LET x == View(i) IN
    /\ Running(i) /\ Kinds[i] = "external" /\ Quits(x)
    /\ Polled(i, {IF x.s.fin THEN Return(x, "exited")
                  ELSE IF x.out.read_closed THEN CancelProcess(x, 141)
                  ELSE IF Flush(x).res # "going" THEN Flush(x)
                  ELSE ExternalEnd(Flush(x))})

(* ... and from the host calls on.  A write that failed the stage ends it,    *)
(* dropping a diagnostic that is still waiting for room.                      *)
ExternalRuns(i) ==
    /\ Running(i) /\ Kinds[i] = "external" /\ ~Quits(View(i))
    /\ \E y \in {FillStdin(Flush(View(i)), i = 1)} :
       \E z \in {WriteStdin(y, w, i) : w \in HostWrites(y.s)} :
          IF ~z.s.live THEN Polled(i, {ExternalEnd(z)})
          ELSE \E a \in {AppendOutput(z, r, i) : r \in HostPolls(z.s)} :
                  Polled(i, {ExternalSettle(a)})

SkipStage(i) ==
    /\ phase = "poll" /\ cur = i /\ done[i]
    /\ cur' = i - 1 /\ phase' = IF i = 1 THEN "drain" ELSE "poll"
    /\ UNCHANGED <<conf, pipes, st, done, late, progressed, exhausted, out, ended, result>>

(* StreamingPipeProcess::close.                                               *)
Close(x) ==
    CASE x.s.kind = "external"                -> ExternalClose(x)
      [] x.s.kind \in {"buffered", "bounded"} -> BufferedClose(x)
      [] x.s.kind = "tee"                     -> [x EXCEPT !.in = CloseRead(@)]
      [] OTHER                                -> x

(* Closing every stage; a stage's close touches its own two pipes.            *)
ClosedStages == [i \in 1..N |-> Close(View(i)).s]
ClosedPipes(ps) ==
    [i \in 0..N |->
        [data         |-> ps[i].data,
         read_closed  |-> ps[i].read_closed \/ (i < N /\ Close(View(i + 1)).in.read_closed),
         write_closed |-> ps[i].write_closed \/ (i > 0 /\ Close(View(i)).out.write_closed)]]

(* resolve_pipeline_exit_status.                                              *)
Resolve(rc) ==
    LET bad == {i \in 1..N : rc[i] # 0}
    IN  IF ~conf.pipefail THEN rc[N]
        ELSE IF bad = {} THEN 0
        ELSE rc[CHOOSE i \in bad : \A j \in bad : j <= i]

(* finish_pending_streaming_pipeline and the end of                           *)
(* execute_scheduled_pipeline: the status is set unless a limit was hit.      *)
Over(why, stages, ps, spent) ==
    /\ phase' = "over" /\ ended' = why /\ exhausted' = spent
    /\ st' = stages /\ pipes' = ps
    /\ result' = IF spent THEN NoStatus ELSE Resolve([i \in 1..N |-> stages[i].rc])

(* A pass begins unless the deadline has passed.                              *)
BeginPass ==
    /\ phase = "begin"
    /\ ~late
    /\ phase' = "poll" /\ cur' = N /\ progressed' = FALSE
    /\ UNCHANGED <<conf, pipes, st, done, late, exhausted, out, ended, result>>

(* drive_streaming_pipeline: the step budget refuses another pass.            *)
StepsRefused ==
    /\ phase = "begin" /\ conf.mode = "sync" /\ "steps" \in Faults
    /\ Over("exhausted", ClosedStages, [ClosedPipes(pipes) EXCEPT ![N] = CloseRead(@)], TRUE)
    /\ UNCHANGED <<conf, done, cur, late, progressed, out>>

(* Mutant of ClockPasses: a stage without a timeout disarms the deadline.     *)
ClockPassesAllExternal ==
    /\ phase # "over" /\ conf.mode = "pending" /\ ~late
    /\ \A i \in 1..N : Kinds[i] = "external"
    /\ late' = TRUE
    /\ UNCHANGED <<conf, pipes, st, done, phase, cur, progressed, exhausted, out, ended, result>>

(* Every registered external has a timeout_ms, so the clock passes the        *)
(* deadline of a pending pipeline at some time, and every pass looks at it.   *)
ClockPasses ==
    /\ phase # "over" /\ conf.mode = "pending" /\ ~late
    /\ late' = TRUE
    /\ UNCHANGED <<conf, pipes, st, done, phase, cur, progressed, exhausted, out, ended, result>>

(* apply_streaming_deadline.                                                  *)
DeadlineStatus(i) == st[i].kind = "external" /\ ~done[i] /\ st[i].live

DeadlinePasses ==
    /\ phase = "begin" /\ late
    /\ Over("deadline",
            [i \in 1..N |-> IF DeadlineStatus(i) THEN [ClosedStages[i] EXCEPT !.rc = 124]
                            ELSE ClosedStages[i]],
            ClosedPipes(pipes), FALSE)
    /\ done' = [i \in 1..N |-> TRUE]
    /\ UNCHANGED <<conf, cur, late, progressed, out>>

(* cancel_pending_streaming_pipeline: the status is left alone.               *)
Cancel ==
    /\ phase = "begin" /\ conf.mode = "pending"
    /\ phase' = "over" /\ ended' = "cancelled"
    /\ st' = ClosedStages
    /\ pipes' = [i \in 0..N |-> IF i = 0 THEN ClosedPipes(pipes)[0]
                                ELSE CloseRead(CloseWrite(pipes[i]))]
    /\ UNCHANGED <<conf, done, cur, late, progressed, exhausted, out, result>>

(* sync_pipe_budget counts the bytes in all output pipes.                     *)
Buffered ==
    LET F[i \in 0..N] == IF i = 0 THEN 0 ELSE F[i - 1] + Len(pipes[i].data) IN F[N]
OverPipes == "budget" \in Faults /\ PipeLimit > 0 /\ Buffered > PipeLimit

(* drain_final_pipe_to_stdout: chunk after chunk, until the pipe is empty or  *)
(* a chunk has taken the run over its output limit.                           *)
Drained ==
    LET have == Len(pipes[N].data)
        need == OutputLimit + 1 - Len(out)
        upto == IF need <= 0 THEN Chunk ELSE ((need + Chunk - 1) \div Chunk) * Chunk
    IN  IF "budget" \notin Faults \/ OutputLimit = 0 THEN have ELSE Least(have, upto)
OverOutput ==
    "budget" \in Faults /\ OutputLimit > 0 /\ Drained > 0 /\ Len(out) + Drained > OutputLimit

(* The pipes after the drain; a limit closes the read end of the last one.    *)
DrainedPipes ==
    IF OverPipes
    THEN IF conf.mode = "sync" THEN [pipes EXCEPT ![N] = CloseRead(@)] ELSE pipes
    ELSE [pipes EXCEPT ![N] =
            [data         |-> DropBytes(pipes[N].data, Drained),
             read_closed  |-> pipes[N].read_closed \/ OverOutput,
             write_closed |-> pipes[N].write_closed]]

(* The end of a pass, in both schedulers: the pipe budget, the drain, and the *)
(* reasons to stop.  Only drive_streaming_pipeline stops for lack of          *)
(* progress; draining counts as progress.                                     *)
EndPass ==
    LET spent   == OverPipes \/ OverOutput
        all     == \A i \in 1..N : done[i]
        stalled == conf.mode = "sync" /\ ~progressed /\ Drained = 0
    IN  /\ phase = "drain"
        /\ out' = IF OverPipes THEN out ELSE out \o TakeBytes(pipes[N].data, Drained)
        /\ IF spent \/ all \/ stalled
           THEN /\ Over(IF spent THEN "exhausted" ELSE IF all THEN "finished" ELSE "stalled",
                        ClosedStages, ClosedPipes(DrainedPipes), spent)
                /\ done' = IF conf.mode = "pending" THEN [i \in 1..N |-> TRUE] ELSE done
           ELSE /\ phase' = "begin" /\ pipes' = DrainedPipes
                /\ UNCHANGED <<st, done, exhausted, ended, result>>
        /\ UNCHANGED <<conf, cur, late, progressed>>

Poll ==
    \E i \in 1..N :
        \/ PollRead(i) \/ PollHead(i) \/ PollBuffered(i)
        \/ ExternalQuits(i) \/ ExternalRuns(i) \/ SkipStage(i)

Scheduler == BeginPass \/ Poll \/ EndPass \/ DeadlinePasses

Next == Scheduler \/ StepsRefused \/ ClockPasses \/ Cancel

(* A turn of the scheduler: each of its steps moves phase or cur, and only    *)
(* StepsRefused and Cancel, which end the pipeline, move them too.  Fairness  *)
(* is stated of the turn rather than of Scheduler, which it equals on the     *)
(* behaviours of [][Next]_vars, because it is far cheaper to evaluate.        *)
Turn ==
    /\ phase # "over"
    /\ \E p \in {"begin", "poll", "drain", "over"}, c \in 0..N : phase' = p /\ cur' = c

(* The scheduler runs whenever it is called, the run is polled until its Exit *)
(* and time goes on; nothing is assumed of the external hosts.                *)
Spec == Init /\ [][Next]_vars /\ WF_<<phase, cur>>(Turn) /\ WF_late(ClockPasses)

-----------------------------------------------------------------------------
(* Properties.                                                                *)

(* Every stage and pipe of the graph stays in its type.                       *)
TypeOK ==
    /\ pipes \in [0..N -> PipeType(Byte)]
    /\ st \in [1..N -> Stage]
    /\ done \in [1..N -> BOOLEAN]
    /\ phase \in {"begin", "poll", "drain", "over"} /\ cur \in 0..N /\ late \in BOOLEAN
    /\ progressed \in BOOLEAN /\ exhausted \in BOOLEAN
    /\ out \in Seq(Byte) /\ result \in Nat \cup {NoStatus}
    /\ ended \in {"no", "finished", "deadline", "cancelled", "exhausted", "stalled"}

(* The bytes of the source that a buffer holds, without merged stderr.        *)
Payload(buf) ==
    LET F[k \in 0..Len(buf)] ==
            IF k = 0 THEN <<>>
            ELSE IF buf[k] = 0 THEN F[k - 1] ELSE Append(F[k - 1], buf[k])
    IN  F[Len(buf)]

(* What stage i holds between its input and its output, oldest byte first.    *)
Held(i) ==
    st[i].pend \o st[i].inbox \o st[i].stdin
        \o (IF Kinds[i] \in {"buffered", "bounded"} THEN st[i].file ELSE <<>>)

(* Everything on its way, from stdout back to the source.                     *)
InFlight ==
    LET F[i \in 0..N] ==
            IF i = 0 THEN pipes[0].data ELSE pipes[i].data \o Held(i) \o F[i - 1]
    IN  Payload(out \o F[N])

(* No stage has failed, and no head has got all it wanted.  (A child that     *)
(* reports an error beside the status 0 of an early exit fails its stage with *)
(* that status, so its failure cannot be seen.)                               *)
Intact ==
    /\ \A i \in 1..N : st[i].rc = 0 /\ (st[i].kind = "head" => st[i].left > 0)
    /\ ~({"exit", "error"} \subseteq Faults)

(* stdout is a prefix of the source.                                          *)
InOrder == Payload(out) = TakeBytes(Source, Len(Payload(out)))

(* Whatever happens, stdout never shows a byte out of order, twice or         *)
(* invented: it is a prefix of the source.  And however the passes, the       *)
(* partial writes and the host's answers fall, what stdout has, followed by   *)
(* everything still in the pipes and the stages' buffers, is the source, byte *)
(* for byte, as long as no stage failed or had enough, even when a limit, the *)
(* deadline or a cancellation ends the pipeline.  (A first stage that makes   *)
(* its data itself still owes what pipes[0] holds.)                           *)
Conserved == InOrder /\ ((Intact /\ Kinds[1] = "read") => InFlight = Source)

(* A head counts the stderr that a child merges into its output (|&) as well. *)
Merged ==
    /\ "head" \in {Kinds[i] : i \in 1..N}
    /\ PipeStderr # {} /\ {"stderr", "error"} \cap Faults # {}

(* A pipeline that ran to its end and reports success under pipefail has      *)
(* delivered its whole source (or what head asked for) to stdout, unless a    *)
(* child chose to exit before it had read its input or merged stderr has used *)
(* up what head asked for.                                                    *)
NoSilentLoss ==
    (ended = "finished" /\ conf.pipefail /\ result = 0 /\ "exit" \notin Faults /\ ~Merged) =>
        Payload(out) = IF "head" \in {Kinds[i] : i \in 1..N}
                       THEN TakeBytes(Source, Least(HeadBytes, Len(Source))) ELSE Source

(* When a pipeline is over, by whatever way, no child process and no staging  *)
(* file of it is left.                                                        *)
Released ==
    phase = "over" => \A i \in 1..N : ~st[i].live /\ ~st[i].staging

(* The built-in scheduler stops for lack of progress only when a stage has    *)
(* refused its input: stages and one-byte pipes never wait for each other in  *)
(* a circle.                                                                  *)
NoStall == ended = "stalled" => \E i \in 1..N : st[i].rc # 0

(* Every pipeline comes to an end, a pending one by its deadline at the       *)
(* latest, whatever its external processes do.                                *)
Ends == <>(phase = "over")

=============================================================================
