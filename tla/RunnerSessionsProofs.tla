------------------------- MODULE RunnerSessionsProofs -------------------------
(* Proofs about RunnerSessions, for every set of requests and every number of *)
(* restore slots.                                                             *)
EXTENDS RunnerSessions, FiniteSetTheorems, TLAPS

-----------------------------------------------------------------------------
(* Types.                                                                     *)

(* Replacing one request's record.                                            *)
LEMMA PutType ==
    ASSUME job \in [Jobs -> Job], NEW j \in Jobs, NEW rec \in Job
    PROVE  /\ [job EXCEPT ![j] = rec] \in [Jobs -> Job]
           /\ [job EXCEPT ![j] = rec][j] = rec
           /\ \A k \in Jobs \ {j} : [job EXCEPT ![j] = rec][k] = job[k]
OBVIOUS

(* Math.max(0, n - 1) of a counter.                                           *)
LEMMA LessType ==
    ASSUME NEW n \in Nat
    PROVE  Less(n) \in Nat /\ (n > 0 => Less(n) = n - 1)
BY DEF Less

(* What releaseRestoreSlot leaves: the first waiter, if there is one, has the *)
(* slot, and everything else is as the caller left it.                        *)
LEMMA ReleaseType ==
    ASSUME NEW jobs \in [Jobs -> Job], NEW counts \in Gauge, waiters \in Seq(Jobs),
           ReleaseSlot(jobs, counts)
    PROVE  /\ job' \in [Jobs -> Job] /\ gauge' \in Gauge /\ waiters' \in Seq(Jobs)
           /\ gauge'.pending = Less(counts.pending)
           /\ gauge'.inflight = IF waiters = <<>> THEN Less(counts.inflight)
                                ELSE Less(counts.inflight) + 1
           /\ waiters = <<>> => job' = jobs /\ waiters' = waiters
           /\ waiters # <<>> =>
                 /\ Head(waiters) \in Jobs /\ waiters' = Tail(waiters)
                 /\ job'[Head(waiters)] = [jobs[Head(waiters)] EXCEPT !.pc = "slot"]
                 /\ \A k \in Jobs \ {Head(waiters)} : job'[k] = jobs[k]
<1>1. gauge' \in Gauge /\ gauge'.pending = Less(counts.pending)
      /\ gauge'.inflight = IF waiters = <<>> THEN Less(counts.inflight)
                           ELSE Less(counts.inflight) + 1
  <2> DEFINE m == IF waiters = <<>> THEN Less(counts.inflight) ELSE Less(counts.inflight) + 1
  <2>1. counts.pending \in Nat /\ counts.inflight \in Nat
        BY DEF Gauge
  <2>2. /\ Less(counts.pending) \in Nat /\ Less(counts.inflight) \in Nat
        BY <2>1, LessType
  <2>3. gauge' = [counts EXCEPT !.pending = Less(counts.pending), !.inflight = m]
        BY DEF ReleaseSlot
  <2>4. m \in Nat BY <2>2
  <2> HIDE DEF m
  <2>5. gauge' \in Gauge /\ gauge'.pending = Less(counts.pending) /\ gauge'.inflight = m
        BY <2>2, <2>3, <2>4 DEF Gauge
  <2> QED BY <2>5 DEF m
<1>2. CASE waiters = <<>>
      BY <1>1, <1>2 DEF ReleaseSlot
<1>3. CASE waiters # <<>>
  <2>1. Head(waiters) \in Jobs /\ Tail(waiters) \in Seq(Jobs)
        BY <1>3
  <2>2. [jobs[Head(waiters)] EXCEPT !.pc = "slot"] \in Job
        BY <2>1 DEF Job
  <2> QED BY <1>1, <1>3, <2>1, <2>2 DEF ReleaseSlot
<1> QED BY <1>2, <1>3

(* The requests f differ from the present ones in that of j, whose fields are *)
(* as listed.                                                                 *)
Shows(f, j, id, pc, worker, killed, closed, close, runs) ==
    /\ f \in [Jobs -> Job]
    /\ \A k \in Jobs \ {j} : f[k] = job[k]
    /\ f[j].id = id /\ f[j].pc = pc /\ f[j].worker = worker /\ f[j].killed = killed
    /\ f[j].closed = closed /\ f[j].close = close /\ f[j].runs = runs

(* The actions on one request, field by field.                                *)
LEMMA StartRestoreShows ==
    ASSUME TypeOK, NEW j \in Jobs, StartRestore(j)
    PROVE  Shows(job', j, job[j].id, "spawning", "starting", job[j].killed, job[j].closed,
                 job[j].close, job[j].runs)
BY DEF TypeOK, StartRestore, Job, Shows

(* The step WorkerReady.                                                      *)
LEMMA WorkerReadyShows ==
    ASSUME TypeOK, NEW j \in Jobs, WorkerReady(j)
    PROVE  Shows(job', j, job[j].id, "init", "up", job[j].killed, job[j].closed, job[j].close,
                 job[j].runs)
BY DEF TypeOK, WorkerReady, Job, Shows

(* The step ReadyFails.                                                       *)
LEMMA ReadyFailsShows ==
    ASSUME TypeOK, NEW j \in Jobs, ReadyFails(j)
    PROVE  Shows(job', j, job[j].id, "stopping", job[j].worker, TRUE, job[j].closed,
                 job[j].close, job[j].runs)
BY DEF TypeOK, ReadyFails, Job, Shows

(* The step Run.                                                              *)
LEMMA RunShows ==
    ASSUME TypeOK, NEW j \in Jobs, Run(j)
    PROVE  Shows(job', j, job[j].id, job[j].pc, job[j].worker, job[j].killed, job[j].closed,
                 job[j].close, job[j].runs + 1)
<1> DEFINE n == job[j].runs + 1
<1>1. n \in 0..MaxRuns BY RunnerAssumption DEF RunnerAssumption, TypeOK, Job, Run
<1>2. job' = [job EXCEPT ![j] = [job[j] EXCEPT !.runs = n]] BY DEF Run
<1>3. Shows(job', j, job[j].id, job[j].pc, job[j].worker, job[j].killed, job[j].closed,
            job[j].close, n)
  <2> HIDE DEF n
  <2> QED BY <1>1, <1>2 DEF TypeOK, Job, Shows
<1> QED BY <1>3

(* The step RunReplies.                                                       *)
LEMMA RunRepliesShows ==
    ASSUME TypeOK, NEW j \in Jobs, RunReplies(j)
    PROVE  Shows(job', j, job[j].id, job[j].pc, job[j].worker, job[j].killed, job[j].closed,
                 job[j].close, job[j].runs - 1)
<1> DEFINE n == job[j].runs - 1
<1>1. n \in 0..MaxRuns BY RunnerAssumption DEF RunnerAssumption, TypeOK, Job, RunReplies
<1>2. job' = [job EXCEPT ![j] = [job[j] EXCEPT !.runs = n]] BY DEF RunReplies
<1>3. Shows(job', j, job[j].id, job[j].pc, job[j].worker, job[j].killed, job[j].closed,
            job[j].close, n)
  <2> HIDE DEF n
  <2> QED BY <1>1, <1>2 DEF TypeOK, Job, Shows
<1> QED BY <1>3

(* The step RunTimesOut.                                                      *)
LEMMA RunTimesOutShows ==
    ASSUME TypeOK, NEW j \in Jobs, RunTimesOut(j)
    PROVE  Shows(job', j, job[j].id, job[j].pc, job[j].worker, TRUE, TRUE, job[j].close,
                 job[j].runs - 1)
<1> DEFINE n == job[j].runs - 1
<1>1. n \in 0..MaxRuns BY RunnerAssumption DEF RunnerAssumption, TypeOK, Job, RunTimesOut
<1>2. job' = [job EXCEPT ![j] = [job[j] EXCEPT !.runs = n, !.killed = TRUE, !.closed = TRUE]]
  BY DEF RunTimesOut
<1>3. Shows(job', j, job[j].id, job[j].pc, job[j].worker, TRUE, TRUE, job[j].close, n)
  <2> HIDE DEF n
  <2> QED BY ZenonT(40), <1>1, <1>2 DEF TypeOK, Job, Shows
<1> QED BY <1>3

(* The step FileTimesOut.                                                     *)
LEMMA FileTimesOutShows ==
    ASSUME TypeOK, NEW j \in Jobs, FileTimesOut(j)
    PROVE  Shows(job', j, job[j].id, job[j].pc, job[j].worker, TRUE, job[j].closed, job[j].close,
                 job[j].runs)
BY DEF TypeOK, FileTimesOut, Job, Shows

(* The step BrokerFails.                                                      *)
LEMMA BrokerFailsShows ==
    ASSUME TypeOK, NEW j \in Jobs, BrokerFails(j)
    PROVE  Shows(job', j, job[j].id, job[j].pc, job[j].worker, TRUE, job[j].closed,
                 (IF job[j].close = "asked" THEN "stopping" ELSE job[j].close), 0)
<1> DEFINE c == IF job[j].close = "asked" THEN "stopping" ELSE job[j].close
<1>1. 0 \in 0..MaxRuns BY RunnerAssumption DEF RunnerAssumption, TypeOK, Job, BrokerFails
<1>2. c \in {"no", "asked", "exiting", "stopping", "ended"}
  BY RunnerAssumption DEF RunnerAssumption, TypeOK, Job, BrokerFails
<1>3. job' = [job EXCEPT ![j] = [job[j] EXCEPT !.runs = 0, !.killed = TRUE, !.close = c]]
  BY DEF BrokerFails
<1>4. Shows(job', j, job[j].id, job[j].pc, job[j].worker, TRUE, job[j].closed, c, 0)
  <2> HIDE DEF c
  <2> QED BY ZenonT(40), <1>1, <1>2, <1>3 DEF TypeOK, Job, Shows
<1> QED BY <1>4

(* The step CloseReplies.                                                     *)
LEMMA CloseRepliesShows ==
    ASSUME TypeOK, NEW j \in Jobs, CloseReplies(j)
    PROVE  Shows(job', j, job[j].id, job[j].pc, job[j].worker, job[j].killed, job[j].closed,
                 "exiting", job[j].runs)
BY DEF TypeOK, CloseReplies, Job, Shows

(* The step CloseRejected.                                                    *)
LEMMA CloseRejectedShows ==
    ASSUME TypeOK, NEW j \in Jobs, CloseRejected(j)
    PROVE  Shows(job', j, job[j].id, job[j].pc, job[j].worker, TRUE, job[j].closed, "stopping",
                 job[j].runs)
BY DEF TypeOK, CloseRejected, Job, Shows

(* The step WorkerExits.                                                      *)
LEMMA WorkerExitsShows ==
    ASSUME TypeOK, NEW j \in Jobs, WorkerExits(j)
    PROVE  Shows(job', j, job[j].id, job[j].pc, "dead", job[j].killed, job[j].closed,
                 (IF job[j].close \in {"asked", "exiting", "stopping"} THEN "ended"
                  ELSE job[j].close), 0)
<1> DEFINE c == IF job[j].close \in {"asked", "exiting", "stopping"} THEN "ended" ELSE job[j].close
<1>1. 0 \in 0..MaxRuns BY RunnerAssumption DEF RunnerAssumption, TypeOK, Job, WorkerExits
<1>2. c \in {"no", "asked", "exiting", "stopping", "ended"}
  BY RunnerAssumption DEF RunnerAssumption, TypeOK, Job, WorkerExits
<1>3. job' = [job EXCEPT ![j] = [job[j] EXCEPT !.worker = "dead", !.runs = 0, !.close = c]]
  BY DEF WorkerExits
<1>4. Shows(job', j, job[j].id, job[j].pc, "dead", job[j].killed, job[j].closed, c, 0)
  <2> HIDE DEF c
  <2> QED BY ZenonT(40), <1>1, <1>2, <1>3 DEF TypeOK, Job, Shows
<1> QED BY <1>4

(* The step WorkerCrashes.                                                    *)
LEMMA WorkerCrashesShows ==
    ASSUME TypeOK, NEW j \in Jobs, WorkerCrashes(j)
    PROVE  Shows(job', j, job[j].id, job[j].pc, "crashed", job[j].killed, job[j].closed,
                 (IF job[j].close \in {"asked", "stopping"} THEN "ended" ELSE job[j].close), 0)
<1> DEFINE c == IF job[j].close \in {"asked", "stopping"} THEN "ended" ELSE job[j].close
<1>1. 0 \in 0..MaxRuns BY RunnerAssumption DEF RunnerAssumption, TypeOK, Job, WorkerCrashes
<1>2. c \in {"no", "asked", "exiting", "stopping", "ended"}
  BY RunnerAssumption DEF RunnerAssumption, TypeOK, Job, WorkerCrashes
<1>3. job' = [job EXCEPT ![j] = [job[j] EXCEPT !.worker = "crashed", !.runs = 0, !.close = c]]
  BY DEF WorkerCrashes
<1>4. Shows(job', j, job[j].id, job[j].pc, "crashed", job[j].killed, job[j].closed, c, 0)
  <2> HIDE DEF c
  <2> QED BY ZenonT(40), <1>1, <1>2, <1>3 DEF TypeOK, Job, Shows
<1> QED BY <1>4

(* session.close, in its three cases.                                         *)
LEMMA CloseStartsShows ==
    ASSUME TypeOK, NEW j \in Jobs, CloseStarts(j)
    PROVE  \/ job[j].closed /\ UNCHANGED <<job, registry, gauge>>
           \/ /\ ~job[j].closed /\ job[j].worker = "up" /\ UNCHANGED <<registry, gauge>>
              /\ Shows(job', j, job[j].id, job[j].pc, job[j].worker, job[j].killed, TRUE,
                       "asked", job[j].runs)
           \/ /\ ~job[j].closed /\ job[j].worker # "up" /\ Forget(j)
              /\ Shows(job', j, job[j].id, job[j].pc, job[j].worker, job[j].killed, TRUE,
                       "ended", job[j].runs)
<1>1. CASE job[j].closed
      BY <1>1 DEF CloseStarts
<1>2. CASE ~job[j].closed /\ job[j].worker = "up"
  <2>1. /\ job' = [job EXCEPT ![j] = [job[j] EXCEPT !.closed = TRUE, !.close = "asked"]]
        /\ UNCHANGED <<registry, gauge>>
        BY <1>2 DEF CloseStarts
  <2> QED BY <1>2, <2>1 DEF TypeOK, Job, Shows
<1>3. CASE ~job[j].closed /\ job[j].worker # "up"
  <2>1. Forget(j) /\ job' = [job EXCEPT ![j] = [job[j] EXCEPT !.closed = TRUE, !.close = "ended"]]
        BY <1>3 DEF CloseStarts
  <2> QED BY ZenonT(40), <1>3, <2>1 DEF TypeOK, Job, Shows
<1> QED BY <1>1, <1>2, <1>3

(* registry.delete and sessionClosed.                                         *)
LEMMA ForgetType ==
    ASSUME TypeOK, NEW j \in Jobs, Forget(j)
    PROVE  /\ registry' \in [Ids -> Jobs \cup {None}] /\ gauge' \in Gauge
           /\ gauge'.inflight = gauge.inflight /\ gauge'.pending = gauge.pending
<1>1. gauge.active \in Nat BY DEF TypeOK, Gauge
<1>2. Less(gauge.active) \in Nat BY <1>1, LessType
<1> QED BY <1>2 DEF TypeOK, Forget, Gauge

-----------------------------------------------------------------------------
(* The slots.  Seen from the pool a step does one of four things.             *)

Injective == \A a, b \in 1..Len(waiters) : waiters[a] = waiters[b] => a = b

(* The queue of promises holds the waiting requests, each once, and only      *)
(* while every slot is taken: a slot given back is never left free behind a   *)
(* waiter, so no newcomer can take it.                                        *)
QueueInv ==
    /\ Injective
    /\ \A a \in 1..Len(waiters) : job[waiters[a]].pc = "waiting"
    /\ \A j \in Waiting : \E a \in 1..Len(waiters) : waiters[a] = j
    /\ waiters # <<>> => gauge.inflight = RestoreSlots

Quiet ==
    /\ Holders' = Holders /\ Waiting' = Waiting /\ waiters' = waiters
    /\ gauge'.inflight = gauge.inflight /\ gauge'.pending = gauge.pending

Took(j) ==
    /\ j \notin Holders /\ j \notin Waiting /\ gauge.inflight < RestoreSlots
    /\ Holders' = Holders \cup {j} /\ Waiting' = Waiting /\ waiters' = waiters
    /\ gauge'.inflight = gauge.inflight + 1 /\ gauge'.pending = gauge.pending + 1

Joined(j) ==
    /\ j \notin Holders /\ j \notin Waiting /\ ~(gauge.inflight < RestoreSlots)
    /\ Holders' = Holders /\ Waiting' = Waiting \cup {j} /\ waiters' = Append(waiters, j)
    /\ gauge'.inflight = gauge.inflight /\ gauge'.pending = gauge.pending + 1

Gave(j) ==
    /\ j \in Holders
    /\ gauge'.pending = Less(gauge.pending)
    /\ \/ /\ waiters = <<>> /\ waiters' = waiters
          /\ Holders' = Holders \ {j} /\ Waiting' = Waiting
          /\ gauge'.inflight = Less(gauge.inflight)
       \/ /\ waiters # <<>> /\ waiters' = Tail(waiters) /\ Head(waiters) \in Waiting
          /\ Holders' = (Holders \ {j}) \cup {Head(waiters)}
          /\ Waiting' = Waiting \ {Head(waiters)}
          /\ gauge'.inflight = Less(gauge.inflight) + 1

PoolStep == Quiet \/ \E j \in Jobs : Took(j) \/ Joined(j) \/ Gave(j)

(* A request that the event did not concern, or that it woke.                 *)
Bystander(k) ==
    \/ job'[k] = job[k]
    \/ /\ job[k].pc = "waiting" /\ job'[k].pc = "slot" /\ job'[k].id = job[k].id
       /\ job'[k].worker = job[k].worker /\ job'[k].killed = job[k].killed
       /\ job'[k].closed = job[k].closed /\ job'[k].close = job[k].close
       /\ job'[k].runs = job[k].runs

(* The end of a create that held a slot.                                      *)
Ends(j, pc, worker, killed) ==
    /\ job' \in [Jobs -> Job] /\ gauge' \in Gauge /\ waiters' \in Seq(Jobs)
    /\ job'[j].id = job[j].id /\ job'[j].pc = pc /\ job'[j].worker = worker
    /\ job'[j].killed = killed /\ job'[j].closed = job[j].closed
    /\ job'[j].close = job[j].close /\ job'[j].runs = job[j].runs
    /\ \A k \in Jobs \ {j} : Bystander(k)
    /\ Gave(j)

(* A release in an event that ends the create of j.                           *)
LEMMA ReleaseEnds ==
    ASSUME TypeOK, QueueInv, NEW j \in Jobs, job[j].pc \in {"slot", "stopping", "init"},
           NEW pc \in {"failed", "open"}, NEW worker, NEW killed,
           NEW jobs, NEW counts \in Gauge,
           Shows(jobs, j, job[j].id, pc, worker, killed, job[j].closed, job[j].close, job[j].runs),
           counts.pending = gauge.pending, counts.inflight = gauge.inflight,
           ReleaseSlot(jobs, counts)
    PROVE  Ends(j, pc, worker, killed)
<1> DEFINE h == Head(waiters)
<1>1. jobs \in [Jobs -> Job] /\ waiters \in Seq(Jobs)
      BY DEF Shows, TypeOK
<1>2. /\ job' \in [Jobs -> Job] /\ gauge' \in Gauge /\ waiters' \in Seq(Jobs)
      /\ gauge'.pending = Less(gauge.pending)
      /\ gauge'.inflight = IF waiters = <<>> THEN Less(gauge.inflight) ELSE Less(gauge.inflight) + 1
      /\ waiters = <<>> => job' = jobs /\ waiters' = waiters
      /\ waiters # <<>> =>
           /\ h \in Jobs /\ waiters' = Tail(waiters)
           /\ job'[h] = [jobs[h] EXCEPT !.pc = "slot"]
           /\ \A k \in Jobs \ {h} : job'[k] = jobs[k]
      BY <1>1, ReleaseType
<1>3. j \in Holders /\ j \notin Waiting
      BY DEF Holders, Waiting
<1>4. CASE waiters = <<>>
  <2>1. Gave(j)
        BY <1>2, <1>3, <1>4 DEF Gave, Shows, Holders, Waiting
  <2> QED BY <1>2, <1>4, <2>1 DEF Ends, Shows, Bystander
<1>5. CASE waiters # <<>>
  <2>1. h \in Jobs /\ job[h].pc = "waiting" /\ h # j /\ h \in Waiting
        BY <1>1, <1>2, <1>5 DEF QueueInv, Waiting
  <2>2. jobs[h] = job[h] /\ job[h] \in Job
        BY <2>1 DEF Shows, TypeOK
  <2>3. Bystander(h) /\ job'[h].pc = "slot"
        BY <1>2, <1>5, <2>1, <2>2 DEF Bystander, Job
  <2>4. \A k \in Jobs \ {h} : job'[k] = jobs[k]
        BY <1>2, <1>5
  <2>5. \A k \in Jobs \ {j} : Bystander(k)
        BY <2>1, <2>3, <2>4 DEF Bystander, Shows
  <2>6. Holders' = (Holders \ {j}) \cup {h}
        BY <2>1, <2>3, <2>4 DEF Holders, Shows
  <2>7. Waiting' = Waiting \ {h}
        BY <2>1, <2>3, <2>4 DEF Waiting, Shows
  <2>8. Gave(j)
        BY <1>2, <1>3, <1>5, <2>1, <2>6, <2>7 DEF Gave
  <2> QED BY <1>2, <2>1, <2>4, <2>5, <2>8 DEF Ends, Shows
<1> QED BY <1>4, <1>5

(* The step FilesRefused.                                                     *)
LEMMA FilesRefusedEnds ==
    ASSUME TypeOK, QueueInv, NEW j \in Jobs, FilesRefused(j)
    PROVE  Ends(j, "failed", job[j].worker, job[j].killed)
<1> DEFINE jobs   == [job EXCEPT ![j] = [@ EXCEPT !.pc = "failed"]]
           counts == [gauge EXCEPT !.restores = @ + 1]
<1>1. Shows(jobs, j, job[j].id, "failed", job[j].worker, job[j].killed, job[j].closed,
            job[j].close, job[j].runs)
      BY DEF TypeOK, Job, Shows
<1>2. counts \in Gauge /\ counts.pending = gauge.pending /\ counts.inflight = gauge.inflight
      BY DEF TypeOK, Gauge
<1>3. ReleaseSlot(jobs, counts) /\ job[j].pc = "slot"
      BY DEF FilesRefused
<1> HIDE DEF jobs, counts
<1> QED BY <1>1, <1>2, <1>3, ReleaseEnds

(* The step RestoreStopped.                                                   *)
LEMMA RestoreStoppedEnds ==
    ASSUME TypeOK, QueueInv, NEW j \in Jobs, RestoreStopped(j)
    PROVE  Ends(j, "failed", "dead", job[j].killed)
<1> DEFINE jobs == [job EXCEPT ![j] = [@ EXCEPT !.pc = "failed", !.worker = "dead"]]
<1>1. Shows(jobs, j, job[j].id, "failed", "dead", job[j].killed, job[j].closed,
            job[j].close, job[j].runs)
      BY ZenonT(40) DEF TypeOK, Job, Shows
<1>2. gauge \in Gauge
      BY DEF TypeOK
<1>3. ReleaseSlot(jobs, gauge) /\ job[j].pc = "stopping"
      BY DEF RestoreStopped
<1> HIDE DEF jobs
<1> QED BY <1>1, <1>2, <1>3, ReleaseEnds

(* The step InitFails.                                                        *)
LEMMA InitFailsEnds ==
    ASSUME TypeOK, QueueInv, NEW j \in Jobs, NEW w \in {"up", "crashed", "dead"}, InitFails(j, w)
    PROVE  Ends(j, "failed", w, (w = "up"))
<1> DEFINE b    == (w = "up")
           jobs == [job EXCEPT ![j] = [@ EXCEPT !.pc = "failed", !.worker = w, !.killed = b]]
<1>1. b \in BOOLEAN
      OBVIOUS
<1>2. ReleaseSlot(jobs, gauge) /\ job[j].pc = "init"
      BY DEF InitFails
<1>3. Ends(j, "failed", w, b)
  <2> HIDE DEF b
  <2>1. Shows(jobs, j, job[j].id, "failed", w, b, job[j].closed, job[j].close, job[j].runs)
        BY ZenonT(40), <1>1 DEF TypeOK, Job, Shows
  <2>2. gauge \in Gauge
        BY DEF TypeOK
  <2> HIDE DEF jobs
  <2> QED BY <1>2, <2>1, <2>2, ReleaseEnds
<1> QED BY <1>3

(* The step InitReplies.                                                      *)
LEMMA InitRepliesEnds ==
    ASSUME TypeOK, QueueInv, NEW j \in Jobs, InitReplies(j)
    PROVE  /\ registry[job[j].id] # None => Ends(j, "failed", "up", job[j].killed)
           /\ registry[job[j].id] = None => Ends(j, "open", "up", job[j].killed)
<1> DEFINE p      == IF registry[job[j].id] # None THEN "failed" ELSE "open"
           jobs   == [job EXCEPT ![j] = [@ EXCEPT !.pc = p]]
           a      == gauge.active + 1
           r      == Less(gauge.restores)
           counts == [gauge EXCEPT !.restores = r, !.active = a]
<1>1. a \in Nat /\ r \in Nat
  <2>1. gauge.active \in Nat /\ gauge.restores \in Nat BY DEF TypeOK, Gauge
  <2> QED BY <2>1, LessType
<1>2. ReleaseSlot(jobs, counts) /\ job[j].pc = "init" /\ job[j].worker = "up"
      BY DEF InitReplies
<1>3. p \in {"failed", "open"}
      OBVIOUS
<1>4. Ends(j, p, "up", job[j].killed)
  <2> HIDE DEF p, a, r
  <2>1. Shows(jobs, j, job[j].id, p, "up", job[j].killed, job[j].closed, job[j].close, job[j].runs)
        BY <1>2, <1>3 DEF TypeOK, Job, Shows
  <2>2. counts \in Gauge /\ counts.pending = gauge.pending /\ counts.inflight = gauge.inflight
        BY <1>1 DEF TypeOK, Gauge
  <2> HIDE DEF jobs, counts
  <2> QED BY <1>2, <1>3, <2>1, <2>2, ReleaseEnds
<1> QED BY <1>4

(* The request is refused, takes a slot, or joins the queue.                  *)
LEMMA CreateShows ==
    ASSUME TypeOK, NEW j \in Jobs, NEW i \in Ids, CreateSession(j, i)
    PROVE  /\ job[j].pc = "new" /\ gauge' \in Gauge /\ waiters' \in Seq(Jobs)
           /\ \E pc \in {"failed", "slot", "waiting"} :
                 Shows(job', j, i, pc, job[j].worker, job[j].killed, job[j].closed,
                       job[j].close, job[j].runs)
           /\ Quiet \/ Took(j) \/ Joined(j)
<1> DEFINE refused == draining \/ registry[i] # None
           free    == gauge.inflight < RestoreSlots
           p       == IF refused THEN "failed" ELSE IF free THEN "slot" ELSE "waiting"
           m       == IF free THEN gauge.inflight + 1 ELSE gauge.inflight
           n       == gauge.pending + 1
<1>1. /\ job[j].pc = "new"
      /\ job' = [job EXCEPT ![j] = [@ EXCEPT !.id = i, !.pc = p]]
      /\ gauge' = IF refused THEN gauge
                  ELSE [gauge EXCEPT !.pending = n, !.inflight = m]
      /\ waiters' = IF refused \/ free THEN waiters ELSE Append(waiters, j)
      BY DEF CreateSession
<1>2. gauge.pending \in Nat /\ gauge.inflight \in Nat
      BY DEF TypeOK, Gauge
<1>3. p \in {"failed", "slot", "waiting"} /\ m \in Nat /\ n \in Nat
      BY <1>2
<1>4. Shows(job', j, i, p, job[j].worker, job[j].killed, job[j].closed, job[j].close, job[j].runs)
  <2> HIDE DEF p
  <2> QED BY <1>1, <1>3 DEF TypeOK, Job, Shows
<1>5. /\ gauge' \in Gauge
      /\ ~refused => gauge'.pending = n /\ gauge'.inflight = m
      /\ refused => gauge' = gauge
  <2> HIDE DEF m, n, refused
  <2> QED BY <1>1, <1>3 DEF TypeOK, Gauge
<1>6. waiters' \in Seq(Jobs)
      BY <1>1 DEF TypeOK
<1>7. j \notin Holders /\ j \notin Waiting
      BY <1>1 DEF Holders, Waiting
<1>8. CASE refused
  <2>1. Holders' = Holders /\ Waiting' = Waiting
        BY <1>1, <1>4, <1>8 DEF Holders, Waiting, Shows
  <2>2. Quiet BY <1>1, <1>5, <1>8, <2>1 DEF Quiet
  <2> QED BY <1>1, <1>3, <1>4, <1>5, <1>6, <2>2
<1>9. CASE ~refused /\ free
  <2>1. Holders' = Holders \cup {j} /\ Waiting' = Waiting
        BY <1>1, <1>4, <1>9 DEF Holders, Waiting, Shows
  <2>2. Took(j) BY <1>1, <1>5, <1>7, <1>9, <2>1 DEF Took
  <2> QED BY <1>1, <1>3, <1>4, <1>5, <1>6, <2>2
<1>10. CASE ~refused /\ ~free
  <2>1. Holders' = Holders /\ Waiting' = Waiting \cup {j}
        BY <1>1, <1>4, <1>10 DEF Holders, Waiting, Shows
  <2>2. Joined(j) BY <1>1, <1>5, <1>7, <1>10, <2>1 DEF Joined
  <2> QED BY <1>1, <1>3, <1>4, <1>5, <1>6, <2>2
<1> QED BY <1>8, <1>9, <1>10

(* A step that leaves every request where it was with respect to the slots.   *)
LEMMA StayQuiet ==
    ASSUME \A k \in Jobs : /\ job'[k].pc \in {"slot", "spawning", "stopping", "init"}
                              <=> job[k].pc \in {"slot", "spawning", "stopping", "init"}
                           /\ job'[k].pc = "waiting" <=> job[k].pc = "waiting",
           waiters' = waiters,
           gauge'.inflight = gauge.inflight, gauge'.pending = gauge.pending
    PROVE  Quiet
BY DEF Quiet, Holders, Waiting

(* A step is one of the four, and keeps the types.                            *)
LEMMA StepKeeps ==
    ASSUME TypeOK, QueueInv, [Next]_vars
    PROVE  TypeOK' /\ PoolStep
<1>1. gauge.restores \in Nat /\ gauge.active \in Nat /\ Less(gauge.restores) \in Nat
      /\ gauge.restores + 1 \in Nat
  <2>1. gauge.restores \in Nat /\ gauge.active \in Nat BY DEF TypeOK, Gauge
  <2> QED BY <2>1, LessType
<1>2. ASSUME NEW j \in Jobs, NEW i \in Ids, CreateSession(j, i)
      PROVE  TypeOK' /\ PoolStep
      BY <1>2, CreateShows DEF CreateSession, TypeOK, Shows, PoolStep
<1>3. ASSUME NEW j \in Jobs, StartRestore(j)
      PROVE  TypeOK' /\ PoolStep
  <2>1. gauge' \in Gauge /\ gauge'.inflight = gauge.inflight /\ gauge'.pending = gauge.pending
        BY <1>1, <1>3 DEF StartRestore, TypeOK, Gauge
  <2>2. Quiet
        BY <1>3, <2>1, StartRestoreShows, StayQuiet DEF StartRestore, Shows
  <2> QED BY <1>3, <2>1, <2>2, StartRestoreShows DEF StartRestore, TypeOK, Shows, PoolStep
<1>4. ASSUME NEW j \in Jobs, ReadyFails(j)
      PROVE  TypeOK' /\ PoolStep
  <2>1. gauge' \in Gauge /\ gauge'.inflight = gauge.inflight /\ gauge'.pending = gauge.pending
        BY <1>1, <1>4 DEF ReadyFails, TypeOK, Gauge
  <2>2. Quiet
        BY <1>4, <2>1, ReadyFailsShows, StayQuiet DEF ReadyFails, Shows
  <2> QED BY <1>4, <2>1, <2>2, ReadyFailsShows DEF ReadyFails, TypeOK, Shows, PoolStep
<1>5. ASSUME NEW j \in Jobs, WorkerReady(j)
      PROVE  TypeOK' /\ PoolStep
  <2>1. Quiet
        BY <1>5, WorkerReadyShows, StayQuiet DEF WorkerReady, Shows
  <2> QED BY <1>5, <2>1, WorkerReadyShows DEF WorkerReady, TypeOK, Shows, PoolStep
<1>6. ASSUME NEW j \in Jobs, Run(j)
      PROVE  TypeOK' /\ PoolStep
  <2>1. Quiet
        BY <1>6, RunShows, StayQuiet DEF Run, Shows
  <2> QED BY <1>6, <2>1, RunShows DEF Run, TypeOK, Shows, PoolStep
<1>7. ASSUME NEW j \in Jobs, RunReplies(j)
      PROVE  TypeOK' /\ PoolStep
  <2>1. Quiet
        BY <1>7, RunRepliesShows, StayQuiet DEF RunReplies, Shows
  <2> QED BY <1>7, <2>1, RunRepliesShows DEF RunReplies, TypeOK, Shows, PoolStep
<1>8. ASSUME NEW j \in Jobs, FileTimesOut(j)
      PROVE  TypeOK' /\ PoolStep
  <2>1. Quiet
        BY <1>8, FileTimesOutShows, StayQuiet DEF FileTimesOut, Shows
  <2> QED BY <1>8, <2>1, FileTimesOutShows DEF FileTimesOut, TypeOK, Shows, PoolStep
<1>9. ASSUME NEW j \in Jobs, BrokerFails(j)
      PROVE  TypeOK' /\ PoolStep
  <2>1. Quiet
        BY <1>9, BrokerFailsShows, StayQuiet DEF BrokerFails, Shows
  <2> QED BY <1>9, <2>1, BrokerFailsShows DEF BrokerFails, TypeOK, Shows, PoolStep
<1>10. ASSUME NEW j \in Jobs, CloseReplies(j)
      PROVE  TypeOK' /\ PoolStep
  <2>1. Quiet
        BY <1>10, CloseRepliesShows, StayQuiet DEF CloseReplies, Shows
  <2> QED BY <1>10, <2>1, CloseRepliesShows DEF CloseReplies, TypeOK, Shows, PoolStep
<1>11. ASSUME NEW j \in Jobs, CloseRejected(j)
      PROVE  TypeOK' /\ PoolStep
  <2>1. Quiet
        BY <1>11, CloseRejectedShows, StayQuiet DEF CloseRejected, Shows
  <2> QED BY <1>11, <2>1, CloseRejectedShows DEF CloseRejected, TypeOK, Shows, PoolStep
<1>12. ASSUME NEW j \in Jobs, FilesRefused(j)
      PROVE  TypeOK' /\ PoolStep
      BY <1>12, FilesRefusedEnds DEF FilesRefused, TypeOK, Ends, PoolStep
<1>13. ASSUME NEW j \in Jobs, RestoreStopped(j)
      PROVE  TypeOK' /\ PoolStep
      BY <1>13, RestoreStoppedEnds DEF RestoreStopped, TypeOK, Ends, PoolStep
<1>14. ASSUME NEW j \in Jobs, NEW w \in {"up", "crashed", "dead"}, InitFails(j, w)
      PROVE  TypeOK' /\ PoolStep
      BY <1>14, InitFailsEnds DEF InitFails, TypeOK, Ends, PoolStep
<1>15. ASSUME NEW j \in Jobs, InitReplies(j)
      PROVE  TypeOK' /\ PoolStep
      BY <1>15, InitRepliesEnds DEF InitReplies, TypeOK, Ends, PoolStep
<1>16. ASSUME NEW j \in Jobs, RunTimesOut(j)
      PROVE  TypeOK' /\ PoolStep
  <2>1. Forget(j) \/ UNCHANGED <<registry, gauge>>
        BY <1>16 DEF RunTimesOut
  <2>2. /\ registry' \in [Ids -> Jobs \cup {None}] /\ gauge' \in Gauge
        /\ gauge'.inflight = gauge.inflight /\ gauge'.pending = gauge.pending
        BY <2>1, ForgetType DEF TypeOK
  <2>3. Quiet
        BY <1>16, <2>2, RunTimesOutShows, StayQuiet DEF RunTimesOut, Shows
  <2> QED BY <1>16, <2>2, <2>3, RunTimesOutShows DEF RunTimesOut, TypeOK, Shows, PoolStep
<1>17. ASSUME NEW j \in Jobs, WorkerExits(j)
      PROVE  TypeOK' /\ PoolStep
  <2>1. Forget(j) \/ UNCHANGED <<registry, gauge>>
        BY <1>17 DEF WorkerExits
  <2>2. /\ registry' \in [Ids -> Jobs \cup {None}] /\ gauge' \in Gauge
        /\ gauge'.inflight = gauge.inflight /\ gauge'.pending = gauge.pending
        BY <2>1, ForgetType DEF TypeOK
  <2>3. Quiet
        BY <1>17, <2>2, WorkerExitsShows, StayQuiet DEF WorkerExits, Shows
  <2> QED BY <1>17, <2>2, <2>3, WorkerExitsShows DEF WorkerExits, TypeOK, Shows, PoolStep
<1>18. ASSUME NEW j \in Jobs, WorkerCrashes(j)
      PROVE  TypeOK' /\ PoolStep
  <2>1. Forget(j) \/ UNCHANGED <<registry, gauge>>
        BY <1>18 DEF WorkerCrashes
  <2>2. /\ registry' \in [Ids -> Jobs \cup {None}] /\ gauge' \in Gauge
        /\ gauge'.inflight = gauge.inflight /\ gauge'.pending = gauge.pending
        BY <2>1, ForgetType DEF TypeOK
  <2>3. Quiet
        BY <1>18, <2>2, WorkerCrashesShows, StayQuiet DEF WorkerCrashes, Shows
  <2> QED BY <1>18, <2>2, <2>3, WorkerCrashesShows DEF WorkerCrashes, TypeOK, Shows, PoolStep
<1>19. ASSUME NEW j \in Jobs, Close(j)
      PROVE  TypeOK' /\ PoolStep
  <2>1. /\ job' \in [Jobs -> Job] /\ \A k \in Jobs : job'[k].pc = job[k].pc
        /\ Forget(j) \/ UNCHANGED <<registry, gauge>>
        BY <1>19, CloseStartsShows DEF Close, TypeOK, Shows
  <2>2. /\ registry' \in [Ids -> Jobs \cup {None}] /\ gauge' \in Gauge
        /\ gauge'.inflight = gauge.inflight /\ gauge'.pending = gauge.pending
        BY <2>1, ForgetType DEF TypeOK
  <2>3. Quiet
        BY <1>19, <2>1, <2>2, StayQuiet DEF Close
  <2>4. shut' \in [on : BOOLEAN, todo : SUBSET Jobs, cur : Jobs \cup {None}]
        BY <1>19 DEF Close, TypeOK
  <2> QED BY <1>19, <2>1, <2>2, <2>3, <2>4 DEF Close, TypeOK, PoolStep
<1>20. ASSUME NEW j \in Jobs, ShutdownCloses(j)
      PROVE  TypeOK' /\ PoolStep
  <2>1. /\ job' \in [Jobs -> Job] /\ \A k \in Jobs : job'[k].pc = job[k].pc
        /\ Forget(j) \/ UNCHANGED <<registry, gauge>>
        BY <1>20, CloseStartsShows DEF ShutdownCloses, TypeOK, Shows
  <2>2. /\ registry' \in [Ids -> Jobs \cup {None}] /\ gauge' \in Gauge
        /\ gauge'.inflight = gauge.inflight /\ gauge'.pending = gauge.pending
        BY <2>1, ForgetType DEF TypeOK
  <2>3. Quiet
        BY <1>20, <2>1, <2>2, StayQuiet DEF ShutdownCloses
  <2>4. shut' \in [on : BOOLEAN, todo : SUBSET Jobs, cur : Jobs \cup {None}]
        BY <1>20 DEF ShutdownCloses, TypeOK
  <2> QED BY <1>20, <2>1, <2>2, <2>3, <2>4 DEF ShutdownCloses, TypeOK, PoolStep
<1>21. CASE Drain
      BY <1>21, StayQuiet DEF Drain, TypeOK, PoolStep
<1>22. CASE ShutdownStarts
      BY <1>22, StayQuiet DEF ShutdownStarts, TypeOK, PoolStep
<1>23. CASE UNCHANGED vars
      BY <1>23, StayQuiet DEF vars, TypeOK, PoolStep
<1> QED BY <1>2, <1>3, <1>4, <1>5, <1>6, <1>7, <1>8, <1>9, <1>10, <1>11, <1>12, <1>13, <1>14,
           <1>15, <1>16, <1>17, <1>18, <1>19, <1>20, <1>21, <1>22, <1>23 DEF Next

(* How many hold a slot and how many wait, after each of the four.            *)
LEMMA SetsFinite ==
    /\ IsFiniteSet(Holders) /\ Cardinality(Holders) \in Nat
    /\ IsFiniteSet(Waiting) /\ Cardinality(Waiting) \in Nat
<1>1. IsFiniteSet(Jobs) BY RunnerAssumption DEF RunnerAssumption
<1>2. Holders \subseteq Jobs /\ Waiting \subseteq Jobs BY DEF Holders, Waiting
<1> QED BY <1>1, <1>2, FS_Subset, FS_CardinalityType

(* The queue, and the counters against the requests they count.               *)
PoolInv == QueueInv /\ SlotsConserved

(* The slots in use and free still add up after any step.                     *)
LEMMA PoolStepKeepsCounts ==
    ASSUME TypeOK, PoolInv, PoolStep
    PROVE  SlotsConserved'
<1> USE RunnerAssumption DEF RunnerAssumption
<1>1. /\ gauge.inflight \in Nat /\ gauge.pending \in Nat
      /\ gauge.inflight = Cardinality(Holders) /\ gauge.inflight <= RestoreSlots
      /\ gauge.pending = gauge.inflight + Cardinality(Waiting)
      BY DEF TypeOK, Gauge, PoolInv, SlotsConserved
<1>2. CASE Quiet
      BY <1>1, <1>2 DEF Quiet, SlotsConserved
<1>3. ASSUME NEW j \in Jobs, Took(j)
      PROVE  SlotsConserved'
  <2>1. Cardinality(Holders \cup {j}) = Cardinality(Holders) + 1
        BY <1>3, SetsFinite, FS_AddElement DEF Took
  <2> QED BY <1>1, <1>3, <2>1, SetsFinite DEF Took, SlotsConserved
<1>4. ASSUME NEW j \in Jobs, Joined(j)
      PROVE  SlotsConserved'
  <2>1. Cardinality(Waiting \cup {j}) = Cardinality(Waiting) + 1
        BY <1>4, SetsFinite, FS_AddElement DEF Joined
  <2> QED BY <1>1, <1>4, <2>1, SetsFinite DEF Joined, SlotsConserved
<1>5. ASSUME NEW j \in Jobs, Gave(j)
      PROVE  SlotsConserved'
  <2>1. /\ Cardinality(Holders \ {j}) = Cardinality(Holders) - 1
        /\ IsFiniteSet(Holders \ {j})
        BY <1>5, SetsFinite, FS_RemoveElement DEF Gave
  <2>2. Cardinality(Holders \ {j}) \in Nat
        BY <2>1, FS_CardinalityType
  <2>3. Less(gauge.inflight) = gauge.inflight - 1 /\ Less(gauge.pending) = gauge.pending - 1
        BY <1>1, <2>1, <2>2, SetsFinite, LessType
  <2>4. CASE waiters = <<>>
    <3>1. /\ Holders' = Holders \ {j} /\ Waiting' = Waiting
          /\ gauge'.inflight = gauge.inflight - 1 /\ gauge'.pending = gauge.pending - 1
          BY <1>1, <1>5, <2>3, <2>4 DEF Gave
    <3> QED BY <1>1, <2>1, <3>1, SetsFinite DEF SlotsConserved
  <2>5. CASE waiters # <<>>
    <3>1. Head(waiters) \in Waiting /\ Head(waiters) \notin Holders
          BY <1>5, <2>5 DEF Gave, Holders, Waiting
    <3>2. Cardinality((Holders \ {j}) \cup {Head(waiters)}) = Cardinality(Holders \ {j}) + 1
          BY <2>1, <3>1, FS_AddElement
    <3>3. Cardinality(Waiting \ {Head(waiters)}) = Cardinality(Waiting) - 1
          BY <3>1, SetsFinite, FS_RemoveElement
    <3>4. gauge'.inflight = gauge.inflight /\ gauge'.pending = gauge.pending - 1
          BY <1>1, <1>5, <2>3, <2>5 DEF Gave
    <3>5. Holders' = (Holders \ {j}) \cup {Head(waiters)} /\ Waiting' = Waiting \ {Head(waiters)}
          BY <1>5, <2>5 DEF Gave
    <3> QED BY <1>1, <2>1, <3>2, <3>3, <3>4, <3>5, SetsFinite DEF SlotsConserved
  <2> QED BY <2>4, <2>5
<1> QED BY <1>2, <1>3, <1>4, <1>5 DEF PoolStep

(* The queue of waiting creates still names exactly the jobs that wait.       *)
LEMMA PoolStepKeepsQueue ==
    ASSUME TypeOK, PoolInv, PoolStep
    PROVE  QueueInv'
<1> USE RunnerAssumption DEF RunnerAssumption
<1>1. /\ gauge.inflight \in Nat /\ gauge.inflight <= RestoreSlots
      /\ gauge.inflight = Cardinality(Holders)
      /\ waiters \in Seq(Jobs)
      /\ \A a, b \in 1..Len(waiters) : waiters[a] = waiters[b] => a = b
      /\ \A a \in 1..Len(waiters) : waiters[a] \in Waiting
      /\ \A j \in Waiting : \E a \in 1..Len(waiters) : waiters[a] = j
      /\ waiters # <<>> => gauge.inflight = RestoreSlots
      BY DEF TypeOK, Gauge, PoolInv, SlotsConserved, QueueInv, Injective, Waiting
<1>2. SUFFICES /\ \A a, b \in 1..Len(waiters') : waiters'[a] = waiters'[b] => a = b
               /\ \A a \in 1..Len(waiters') : waiters'[a] \in Waiting'
               /\ \A j \in Waiting' : \E a \in 1..Len(waiters') : waiters'[a] = j
               /\ waiters' # <<>> => gauge'.inflight = RestoreSlots
      BY DEF QueueInv, Injective, Waiting
<1>3. CASE Quiet
      BY <1>1, <1>3 DEF Quiet
<1>4. ASSUME NEW j \in Jobs, Took(j)
      PROVE  /\ \A a, b \in 1..Len(waiters') : waiters'[a] = waiters'[b] => a = b
             /\ \A a \in 1..Len(waiters') : waiters'[a] \in Waiting'
             /\ \A k \in Waiting' : \E a \in 1..Len(waiters') : waiters'[a] = k
             /\ waiters' # <<>> => gauge'.inflight = RestoreSlots
      BY <1>1, <1>4 DEF Took
<1>5. ASSUME NEW j \in Jobs, Joined(j)
      PROVE  /\ \A a, b \in 1..Len(waiters') : waiters'[a] = waiters'[b] => a = b
             /\ \A a \in 1..Len(waiters') : waiters'[a] \in Waiting'
             /\ \A k \in Waiting' : \E a \in 1..Len(waiters') : waiters'[a] = k
             /\ waiters' # <<>> => gauge'.inflight = RestoreSlots
  <2>1. /\ waiters' = Append(waiters, j) /\ Waiting' = Waiting \cup {j} /\ j \notin Waiting
        /\ gauge'.inflight = RestoreSlots
        BY <1>1, <1>5 DEF Joined
  <2>2. /\ Len(waiters') = Len(waiters) + 1 /\ waiters'[Len(waiters) + 1] = j
        /\ \A a \in 1..Len(waiters) : waiters'[a] = waiters[a]
        BY <1>1, <2>1
  <2> QED BY <1>1, <2>1, <2>2
<1>6. ASSUME NEW j \in Jobs, Gave(j)
      PROVE  /\ \A a, b \in 1..Len(waiters') : waiters'[a] = waiters'[b] => a = b
             /\ \A a \in 1..Len(waiters') : waiters'[a] \in Waiting'
             /\ \A k \in Waiting' : \E a \in 1..Len(waiters') : waiters'[a] = k
             /\ waiters' # <<>> => gauge'.inflight = RestoreSlots
  <2>1. CASE waiters = <<>>
        BY <1>1, <1>6, <2>1 DEF Gave
  <2>2. CASE waiters # <<>>
    <3>1. /\ waiters' = Tail(waiters) /\ Waiting' = Waiting \ {Head(waiters)}
          /\ gauge'.inflight = Less(gauge.inflight) + 1
          BY <1>6, <2>2 DEF Gave
    <3>2. /\ Len(waiters') = Len(waiters) - 1 /\ Len(waiters) > 0 /\ Head(waiters) = waiters[1]
          /\ \A a \in 1..Len(waiters') : waiters'[a] = waiters[a + 1]
          BY <1>1, <2>2, <3>1
    <3>3. gauge'.inflight = RestoreSlots
          BY <1>1, <2>2, <3>1, LessType
    <3>4. \A a \in 1..Len(waiters') : a + 1 \in 1..Len(waiters)
          BY <1>1, <3>2
    <3>5. \A a \in 1..Len(waiters') : waiters'[a] \in Waiting'
          BY <1>1, <3>1, <3>2, <3>4
    <3>6. \A a, b \in 1..Len(waiters') : waiters'[a] = waiters'[b] => a = b
          BY <1>1, <3>2, <3>4
    <3>7. ASSUME NEW k \in Waiting'
          PROVE  \E a \in 1..Len(waiters') : waiters'[a] = k
      <4>1. PICK b \in 1..Len(waiters) : waiters[b] = k
            BY <1>1, <3>1
      <4>2. b # 1
            BY <3>1, <3>2, <4>1
      <4>3. b - 1 \in 1..Len(waiters')
            BY <1>1, <3>2, <4>2
      <4> QED BY <3>2, <4>1, <4>3
    <3> QED BY <3>3, <3>5, <3>6, <3>7
  <2> QED BY <2>1, <2>2
<1> QED BY <1>1, <1>3, <1>4, <1>5, <1>6 DEF PoolStep

(* Initially nobody holds a slot or waits for one.                            *)
LEMMA InitPool == Init => TypeOK /\ PoolInv
<1> SUFFICES ASSUME Init PROVE TypeOK /\ PoolInv OBVIOUS
<1> USE RunnerAssumption DEF RunnerAssumption
<1>1. Fresh \in Job BY DEF Fresh, Job
<1>2. gauge \in Gauge BY DEF Init, Gauge
<1>3. shut \in [on : BOOLEAN, todo : SUBSET Jobs, cur : Jobs \cup {None}] BY DEF Init
<1>4. job \in [Jobs -> Job] BY <1>1 DEF Init
<1>5. registry \in [Ids -> Jobs \cup {None}] BY DEF Init
<1>6. load \in Loads /\ waiters \in Seq(Jobs) BY DEF Init
<1>7. draining \in BOOLEAN BY Zenon DEF Init
<1>8. Holders = {} /\ Waiting = {} BY DEF Init, Fresh, Holders, Waiting
<1>9. SlotsConserved BY <1>8, FS_EmptySet DEF Init, SlotsConserved
<1>10. QueueInv BY <1>8 DEF Init, QueueInv, Injective
<1> QED BY <1>2, <1>3, <1>4, <1>5, <1>6, <1>9, <1>10, <1>7 DEF TypeOK, PoolInv

(* Every step preserves the account of the slots.                             *)
LEMMA PoolInvStep == TypeOK /\ PoolInv /\ [Next]_vars => TypeOK' /\ PoolInv' /\ PoolStep
BY StepKeeps, PoolStepKeepsCounts, PoolStepKeepsQueue DEF PoolInv

(* The requests, the registry and the counters keep their types.              *)
THEOREM TypeCorrect == Spec => []TypeOK
<1>1. Init => TypeOK /\ PoolInv BY InitPool
<1>2. TypeOK /\ PoolInv /\ [Next]_vars => TypeOK' /\ PoolInv' BY PoolInvStep
<1> QED BY <1>1, <1>2, PTL DEF Spec

(* A slot is counted exactly once, whichever way a create ends.               *)
THEOREM SlotsAlwaysConserved == Spec => []SlotsConserved
<1>1. Init => TypeOK /\ PoolInv BY InitPool
<1>2. TypeOK /\ PoolInv /\ [Next]_vars => TypeOK' /\ PoolInv' BY PoolInvStep
<1>3. PoolInv => SlotsConserved BY DEF PoolInv
<1> QED BY <1>1, <1>2, <1>3, PTL DEF Spec

(* SlotPool counts with an instance of FiniteSets of its own.                 *)
LEMMA PoolCardinality == \A S : Pool!Cardinality(S) = Cardinality(S)
BY DEF Pool!Cardinality, Cardinality

(* The counters, promises and workers implement the pool of slots.            *)
LEMMA PoolStepRefines ==
    ASSUME TypeOK, PoolInv, PoolStep
    PROVE  [Pool!Next]_<<Holders, waiters>>
<1>1. Pool!Queued = Waiting
      BY DEF PoolInv, QueueInv, Pool!Queued, Waiting, TypeOK
<1>2. /\ gauge.inflight = Cardinality(Holders) /\ gauge.inflight <= RestoreSlots
      /\ gauge.inflight \in Nat /\ RestoreSlots \in Nat
      BY RunnerAssumption DEF RunnerAssumption, PoolInv, SlotsConserved, TypeOK, Gauge
<1>3. CASE Quiet
      BY <1>3 DEF Quiet
<1>4. ASSUME NEW j \in Jobs, Took(j)
      PROVE  Pool!Acquire(j)
      BY <1>1, <1>2, <1>4, PoolCardinality DEF Took, Pool!Acquire
<1>5. ASSUME NEW j \in Jobs, Joined(j)
      PROVE  Pool!Enqueue(j)
      BY <1>1, <1>2, <1>5, PoolCardinality DEF Joined, Pool!Enqueue
<1>6. ASSUME NEW j \in Jobs, Gave(j)
      PROVE  Pool!Release(j)
      BY <1>6 DEF Gave, Pool!Release
<1> QED BY <1>3, <1>4, <1>5, <1>6 DEF PoolStep, Pool!Next

(* No wake-up is lost and nobody overtakes: seen from the queue a runner is   *)
(* the pool of SlotPool.                                                      *)
THEOREM RunnerImplementsPool == Spec => PoolSpec
<1>1. Init => TypeOK /\ PoolInv BY InitPool
<1>2. TypeOK /\ PoolInv /\ [Next]_vars => TypeOK' /\ PoolInv' BY PoolInvStep
<1>3. Init => Pool!Init
      BY DEF Init, Pool!Init, Holders, Fresh
<1>4. TypeOK /\ PoolInv /\ [Next]_vars => [Pool!Next]_<<Holders, waiters>>
      BY PoolInvStep, PoolStepRefines
<1> QED BY <1>1, <1>2, <1>3, <1>4, PTL DEF Spec, PoolSpec, Pool!Spec, Pool!poolVars

-----------------------------------------------------------------------------
(* The registry.                                                              *)

Open(j) == job[j].pc = "open"

(* A session nobody can forget any more: its close has begun and its worker   *)
(* is gone.                                                                   *)
Gone(j) == job[j].closed /\ job[j].worker # "up"

(* The open sessions of an id that had their worker terminated.               *)
Terminated(i) == {m \in Jobs : job[m].pc = "open" /\ job[m].id = i /\ job[m].killed}

(* Only an open session closes and runs, and a close has marked it closed.    *)
SessionOf(j) ==
    /\ job[j].pc # "new" => job[j].id \in Ids
    /\ job[j].pc # "open" => job[j].close = "no" /\ ~job[j].closed /\ job[j].runs = 0
    /\ job[j].close # "no" => job[j].closed
    /\ job[j].worker # "up" => job[j].runs = 0

SessionInv == \A j \in Jobs : SessionOf(j) /\ (j \in shut.todo => job[j].pc = "open")

(* Two open sessions of one id: one of them is gone, or a worker of that id   *)
(* was terminated.  Seen from one that is not closed, the other is gone or    *)
(* some worker but its own was terminated.                                    *)
Rivals ==
    \A j, k \in Jobs : (j # k /\ Open(j) /\ Open(k) /\ job[j].id = job[k].id) =>
        /\ Gone(j) \/ Gone(k) \/ Terminated(job[k].id) # {}
        /\ Gone(j) \/ job[k].closed \/ Terminated(job[k].id) \ {k} # {}

(* An open session that could still be forgotten is the registered one.       *)
Listed ==
    \A j \in Jobs : Open(j) =>
        Gone(j) \/ registry[job[j].id] = j \/ Terminated(job[j].id) # {}

Entries ==
    \A i \in Ids : registry[i] # None =>
        /\ job[registry[i]].pc = "open" /\ job[registry[i]].id = i
        /\ job[registry[i]].close # "ended"

RegistryInv == SessionInv /\ Rivals /\ Listed /\ Entries /\ Reachable

(* Seen from the registry a step does one of three things; in all of them an  *)
(* open session stays what it is.                                             *)
Stays(k) ==
    /\ job'[k].pc = "open" /\ job'[k].id = job[k].id
    /\ job[k].closed => job'[k].closed
    /\ job[k].worker # "up" => job'[k].worker # "up"
    /\ job[k].killed => job'[k].killed

Calm ==
    /\ registry' = registry
    /\ \A k \in Jobs : /\ Open(k) => Stays(k)
                       /\ job'[k].pc = "open" => Open(k)
                       /\ (Open(k) /\ job[k].close # "ended") => job'[k].close # "ended"

Forgets(j) ==
    /\ Open(j) /\ ~Gone(j) /\ job[j].id \in Ids
    /\ registry' = [registry EXCEPT ![job[j].id] = None]
    /\ \A k \in Jobs \ {j} : job'[k] = job[k]
    /\ Stays(j) /\ job'[j].closed
    /\ job'[j].killed \/ job'[j].worker # "up"

Opens(j) ==
    /\ ~Open(j) /\ job[j].id \in Ids /\ registry[job[j].id] = None
    /\ registry' = [registry EXCEPT ![job[j].id] = j]
    /\ \A k \in Jobs \ {j} : (Open(k) => job'[k] = job[k]) /\ (job'[k].pc = "open" => Open(k))
    /\ job'[j].pc = "open" /\ job'[j].id = job[j].id /\ job'[j].close # "ended"

RegistryStep == Calm \/ \E j \in Jobs : Forgets(j) \/ Opens(j)

(* The end of a create, for the registry and the sessions.                    *)
LEMMA EndsRegistry ==
    ASSUME TypeOK, SessionInv, UNCHANGED shut,
           NEW j \in Jobs, job[j].pc \in {"slot", "stopping", "init"},
           NEW worker, NEW killed, NEW pc \in {"failed", "open"}, Ends(j, pc, worker, killed)
    PROVE  /\ SessionInv'
           /\ \A k \in Jobs \ {j} :
                  (Open(k) => job'[k] = job[k]) /\ (job'[k].pc = "open" => Open(k))
<1>1. \A k \in Jobs \ {j} : (Open(k) => job'[k] = job[k]) /\ (job'[k].pc = "open" => Open(k))
      BY DEF Ends, Bystander, Open
<1>2. SessionOf(j)' /\ j \notin shut.todo
      BY DEF Ends, SessionInv, SessionOf
<1>3. ASSUME NEW k \in Jobs \ {j}
      PROVE  SessionOf(k)' /\ (k \in shut.todo => job'[k].pc = "open")
      BY <1>3 DEF Ends, Bystander, SessionInv, SessionOf
<1> QED BY <1>1, <1>2, <1>3 DEF SessionInv

(* A step of the session object that leaves the registry alone.               *)
LEMMA CalmRegistry ==
    ASSUME SessionInv, NEW j \in Jobs, UNCHANGED <<registry, shut>>,
           \A k \in Jobs \ {j} : job'[k] = job[k],
           SessionOf(j)', job'[j].pc = "open" <=> Open(j), Open(j) => Stays(j),
           (Open(j) /\ job[j].close # "ended") => job'[j].close # "ended"
    PROVE  SessionInv' /\ Calm
<1>1. SessionInv'
      BY DEF SessionInv, SessionOf, Open
<1>2. Calm
      BY DEF Calm, Open, Stays
<1> QED BY <1>1, <1>2

(* A step that forgets a session.                                             *)
LEMMA ForgetRegistry ==
    ASSUME TypeOK, SessionInv, NEW j \in Jobs, Open(j), ~Gone(j), Forget(j),
           \A k \in Jobs : k \in shut'.todo => k \in shut.todo,
           \A k \in Jobs \ {j} : job'[k] = job[k],
           SessionOf(j)', Stays(j), job'[j].closed, job'[j].killed \/ job'[j].worker # "up"
    PROVE  SessionInv' /\ Forgets(j)
<1>1. SessionInv'
      BY DEF SessionInv, SessionOf, Open, Stays
<1>2. Forgets(j)
      BY DEF Forgets, Forget, SessionInv, SessionOf, Open
<1> QED BY <1>1, <1>2

(* A step is one of the three.                                                *)
LEMMA RegistryStepKeeps ==
    ASSUME TypeOK, QueueInv, RegistryInv, [Next]_vars
    PROVE  SessionInv' /\ RegistryStep
<1>1. SessionInv BY DEF RegistryInv
<1>2. ASSUME NEW j \in Jobs, NEW i \in Ids, CreateSession(j, i)
      PROVE  SessionInv' /\ RegistryStep
  <2>1. PICK pc \in {"failed", "slot", "waiting"} :
          Shows(job', j, i, pc, job[j].worker, job[j].killed, job[j].closed, job[j].close,
                job[j].runs)
        BY <1>2, CreateShows
  <2>2. job[j].pc = "new" /\ UNCHANGED <<registry, shut>>
        BY <1>2 DEF CreateSession
  <2>3. SessionOf(j)'
        BY <1>1, <2>1, <2>2 DEF Shows, SessionInv, SessionOf
  <2>4. ~Open(j) /\ job'[j].pc # "open"
        BY <2>1, <2>2 DEF Open, Shows
  <2>5. \A k \in Jobs \ {j} : job'[k] = job[k]
        BY <2>1 DEF Shows
  <2> QED BY <1>1, <2>2, <2>3, <2>4, <2>5, CalmRegistry DEF RegistryStep
<1>3. ASSUME NEW j \in Jobs, StartRestore(j)
      PROVE  SessionInv' /\ RegistryStep
  <2>1. /\ Shows(job', j, job[j].id, "spawning", "starting", job[j].killed, job[j].closed,
                 job[j].close, job[j].runs)
        /\ job[j].pc = "slot" /\ UNCHANGED <<registry, shut>>
        BY <1>3, StartRestoreShows DEF StartRestore
  <2>2. SessionOf(j)'
        BY <1>1, <2>1 DEF Shows, SessionInv, SessionOf
  <2>3. /\ job'[j].pc = "open" <=> Open(j)
        /\ Open(j) => Stays(j)
        /\ (Open(j) /\ job[j].close # "ended") => job'[j].close # "ended"
        BY <2>1 DEF Shows, Open, Stays
  <2>4. \A k \in Jobs \ {j} : job'[k] = job[k]
        BY <2>1 DEF Shows
  <2> QED BY <1>1, <2>1, <2>2, <2>3, <2>4, CalmRegistry DEF RegistryStep
<1>4. ASSUME NEW j \in Jobs, WorkerReady(j)
      PROVE  SessionInv' /\ RegistryStep
  <2>1. /\ Shows(job', j, job[j].id, "init", "up", job[j].killed, job[j].closed, job[j].close,
                 job[j].runs)
        /\ job[j].pc = "spawning" /\ UNCHANGED <<registry, shut>>
        BY <1>4, WorkerReadyShows DEF WorkerReady
  <2>2. SessionOf(j)'
        BY <1>1, <2>1 DEF Shows, SessionInv, SessionOf
  <2>3. /\ job'[j].pc = "open" <=> Open(j)
        /\ Open(j) => Stays(j)
        /\ (Open(j) /\ job[j].close # "ended") => job'[j].close # "ended"
        BY <2>1 DEF Shows, Open, Stays
  <2>4. \A k \in Jobs \ {j} : job'[k] = job[k]
        BY <2>1 DEF Shows
  <2> QED BY <1>1, <2>1, <2>2, <2>3, <2>4, CalmRegistry DEF RegistryStep
<1>5. ASSUME NEW j \in Jobs, ReadyFails(j)
      PROVE  SessionInv' /\ RegistryStep
  <2>1. /\ Shows(job', j, job[j].id, "stopping", job[j].worker, TRUE, job[j].closed,
                 job[j].close, job[j].runs)
        /\ job[j].pc = "spawning" /\ UNCHANGED <<registry, shut>>
        BY <1>5, ReadyFailsShows DEF ReadyFails
  <2>2. SessionOf(j)'
        BY <1>1, <2>1 DEF Shows, SessionInv, SessionOf
  <2>3. /\ job'[j].pc = "open" <=> Open(j)
        /\ Open(j) => Stays(j)
        /\ (Open(j) /\ job[j].close # "ended") => job'[j].close # "ended"
        BY <2>1 DEF Shows, Open, Stays
  <2>4. \A k \in Jobs \ {j} : job'[k] = job[k]
        BY <2>1 DEF Shows
  <2> QED BY <1>1, <2>1, <2>2, <2>3, <2>4, CalmRegistry DEF RegistryStep
<1>6. ASSUME NEW j \in Jobs, Run(j)
      PROVE  SessionInv' /\ RegistryStep
  <2>1. /\ Shows(job', j, job[j].id, job[j].pc, job[j].worker, job[j].killed, job[j].closed,
                 job[j].close, job[j].runs + 1)
        /\ job[j].pc = "open" /\ job[j].worker = "up" /\ UNCHANGED <<registry, shut>>
        BY <1>6, RunShows DEF Run
  <2>2. SessionOf(j)'
        BY <1>1, <2>1 DEF Shows, SessionInv, SessionOf
  <2>3. /\ job'[j].pc = "open" <=> Open(j)
        /\ Open(j) => Stays(j)
        /\ (Open(j) /\ job[j].close # "ended") => job'[j].close # "ended"
        BY <2>1 DEF Shows, Open, Stays
  <2>4. \A k \in Jobs \ {j} : job'[k] = job[k]
        BY <2>1 DEF Shows
  <2> QED BY <1>1, <2>1, <2>2, <2>3, <2>4, CalmRegistry DEF RegistryStep
<1>7. ASSUME NEW j \in Jobs, RunReplies(j)
      PROVE  SessionInv' /\ RegistryStep
  <2>1. /\ Shows(job', j, job[j].id, job[j].pc, job[j].worker, job[j].killed, job[j].closed,
                 job[j].close, job[j].runs - 1)
        /\ job[j].runs > 0 /\ UNCHANGED <<registry, shut>>
        BY <1>7, RunRepliesShows DEF RunReplies
  <2>2. SessionOf(j)'
        BY <1>1, <2>1 DEF Shows, SessionInv, SessionOf
  <2>3. /\ job'[j].pc = "open" <=> Open(j)
        /\ Open(j) => Stays(j)
        /\ (Open(j) /\ job[j].close # "ended") => job'[j].close # "ended"
        BY <2>1 DEF Shows, Open, Stays
  <2>4. \A k \in Jobs \ {j} : job'[k] = job[k]
        BY <2>1 DEF Shows
  <2> QED BY <1>1, <2>1, <2>2, <2>3, <2>4, CalmRegistry DEF RegistryStep
<1>8. ASSUME NEW j \in Jobs, FileTimesOut(j)
      PROVE  SessionInv' /\ RegistryStep
  <2>1. /\ Shows(job', j, job[j].id, job[j].pc, job[j].worker, TRUE, job[j].closed, job[j].close,
                 job[j].runs)
        /\ job[j].pc = "open" /\ UNCHANGED <<registry, shut>>
        BY <1>8, FileTimesOutShows DEF FileTimesOut
  <2>2. SessionOf(j)'
        BY <1>1, <2>1 DEF Shows, SessionInv, SessionOf
  <2>3. /\ job'[j].pc = "open" <=> Open(j)
        /\ Open(j) => Stays(j)
        /\ (Open(j) /\ job[j].close # "ended") => job'[j].close # "ended"
        BY <2>1 DEF Shows, Open, Stays
  <2>4. \A k \in Jobs \ {j} : job'[k] = job[k]
        BY <2>1 DEF Shows
  <2> QED BY <1>1, <2>1, <2>2, <2>3, <2>4, CalmRegistry DEF RegistryStep
<1>9. ASSUME NEW j \in Jobs, BrokerFails(j)
      PROVE  SessionInv' /\ RegistryStep
  <2>1. /\ Shows(job', j, job[j].id, job[j].pc, job[j].worker, TRUE, job[j].closed,
                 (IF job[j].close = "asked" THEN "stopping" ELSE job[j].close), 0)
        /\ job[j].runs > 0 /\ UNCHANGED <<registry, shut>>
        BY <1>9, BrokerFailsShows DEF BrokerFails
  <2>2. SessionOf(j)'
        BY <1>1, <2>1 DEF Shows, SessionInv, SessionOf
  <2>3. /\ job'[j].pc = "open" <=> Open(j)
        /\ Open(j) => Stays(j)
        /\ (Open(j) /\ job[j].close # "ended") => job'[j].close # "ended"
        BY <2>1 DEF Shows, Open, Stays
  <2>4. \A k \in Jobs \ {j} : job'[k] = job[k]
        BY <2>1 DEF Shows
  <2> QED BY <1>1, <2>1, <2>2, <2>3, <2>4, CalmRegistry DEF RegistryStep
<1>10. ASSUME NEW j \in Jobs, CloseReplies(j)
      PROVE  SessionInv' /\ RegistryStep
  <2>1. /\ Shows(job', j, job[j].id, job[j].pc, job[j].worker, job[j].killed, job[j].closed,
                 "exiting", job[j].runs)
        /\ job[j].close = "asked" /\ UNCHANGED <<registry, shut>>
        BY <1>10, CloseRepliesShows DEF CloseReplies
  <2>2. SessionOf(j)'
        BY <1>1, <2>1 DEF Shows, SessionInv, SessionOf
  <2>3. /\ job'[j].pc = "open" <=> Open(j)
        /\ Open(j) => Stays(j)
        /\ (Open(j) /\ job[j].close # "ended") => job'[j].close # "ended"
        BY <2>1 DEF Shows, Open, Stays
  <2>4. \A k \in Jobs \ {j} : job'[k] = job[k]
        BY <2>1 DEF Shows
  <2> QED BY <1>1, <2>1, <2>2, <2>3, <2>4, CalmRegistry DEF RegistryStep
<1>11. ASSUME NEW j \in Jobs, CloseRejected(j)
      PROVE  SessionInv' /\ RegistryStep
  <2>1. /\ Shows(job', j, job[j].id, job[j].pc, job[j].worker, TRUE, job[j].closed, "stopping",
                 job[j].runs)
        /\ job[j].close = "asked" /\ UNCHANGED <<registry, shut>>
        BY <1>11, CloseRejectedShows DEF CloseRejected
  <2>2. SessionOf(j)'
        BY <1>1, <2>1 DEF Shows, SessionInv, SessionOf
  <2>3. /\ job'[j].pc = "open" <=> Open(j)
        /\ Open(j) => Stays(j)
        /\ (Open(j) /\ job[j].close # "ended") => job'[j].close # "ended"
        BY <2>1 DEF Shows, Open, Stays
  <2>4. \A k \in Jobs \ {j} : job'[k] = job[k]
        BY <2>1 DEF Shows
  <2> QED BY <1>1, <2>1, <2>2, <2>3, <2>4, CalmRegistry DEF RegistryStep
<1>12. ASSUME NEW j \in Jobs, FilesRefused(j)
      PROVE  SessionInv' /\ RegistryStep
  <2>1. Ends(j, "failed", job[j].worker, job[j].killed)
        /\ job[j].pc \in {"slot", "stopping", "init"}
        BY <1>12, FilesRefusedEnds DEF FilesRefused
  <2>2. UNCHANGED <<registry, shut>>
        BY <1>12 DEF FilesRefused
  <2>3. /\ SessionInv'
        /\ \A k \in Jobs \ {j} : (Open(k) => job'[k] = job[k]) /\ (job'[k].pc = "open" => Open(k))
        BY <1>1, <2>1, <2>2, EndsRegistry
  <2>4. Calm
        BY <2>1, <2>2, <2>3 DEF Calm, Ends, Open, Stays
  <2> QED BY <2>3, <2>4 DEF RegistryStep
<1>13. ASSUME NEW j \in Jobs, RestoreStopped(j)
      PROVE  SessionInv' /\ RegistryStep
  <2>1. Ends(j, "failed", "dead", job[j].killed) /\ job[j].pc \in {"slot", "stopping", "init"}
        BY <1>13, RestoreStoppedEnds DEF RestoreStopped
  <2>2. UNCHANGED <<registry, shut>>
        BY <1>13 DEF RestoreStopped
  <2>3. /\ SessionInv'
        /\ \A k \in Jobs \ {j} : (Open(k) => job'[k] = job[k]) /\ (job'[k].pc = "open" => Open(k))
        BY <1>1, <2>1, <2>2, EndsRegistry
  <2>4. Calm
        BY <2>1, <2>2, <2>3 DEF Calm, Ends, Open, Stays
  <2> QED BY <2>3, <2>4 DEF RegistryStep
<1>14. ASSUME NEW j \in Jobs, NEW w \in {"up", "crashed", "dead"}, InitFails(j, w)
      PROVE  SessionInv' /\ RegistryStep
  <2>1. Ends(j, "failed", w, (w = "up")) /\ job[j].pc \in {"slot", "stopping", "init"}
        BY <1>14, InitFailsEnds DEF InitFails
  <2>2. UNCHANGED <<registry, shut>>
        BY <1>14 DEF InitFails
  <2>3. /\ SessionInv'
        /\ \A k \in Jobs \ {j} : (Open(k) => job'[k] = job[k]) /\ (job'[k].pc = "open" => Open(k))
        BY <1>1, <2>1, <2>2, EndsRegistry
  <2>4. Calm
        BY <2>1, <2>2, <2>3 DEF Calm, Ends, Open, Stays
  <2> QED BY <2>3, <2>4 DEF RegistryStep
<1>15. ASSUME NEW j \in Jobs, InitReplies(j)
      PROVE  SessionInv' /\ RegistryStep
  <2>1. job[j].pc = "init" /\ UNCHANGED shut /\ job[j].id \in Ids
        BY <1>1, <1>15 DEF InitReplies, SessionInv, SessionOf
  <2>2. CASE registry[job[j].id] # None
    <3>1. Ends(j, "failed", "up", job[j].killed) /\ registry' = registry
          BY <1>15, <2>2, InitRepliesEnds DEF InitReplies
    <3>2. /\ SessionInv'
          /\ \A k \in Jobs \ {j} : (Open(k) => job'[k] = job[k]) /\ (job'[k].pc = "open" => Open(k))
          BY <1>1, <2>1, <3>1, EndsRegistry
    <3>3. Calm
          BY <2>1, <3>1, <3>2 DEF Calm, Ends, Open, Stays
    <3> QED BY <3>2, <3>3 DEF RegistryStep
  <2>3. CASE registry[job[j].id] = None
    <3>1. /\ Ends(j, "open", "up", job[j].killed)
          /\ registry' = [registry EXCEPT ![job[j].id] = j]
          BY <1>15, <2>3, InitRepliesEnds DEF InitReplies
    <3>2. /\ SessionInv'
          /\ \A k \in Jobs \ {j} : (Open(k) => job'[k] = job[k]) /\ (job'[k].pc = "open" => Open(k))
          BY <1>1, <2>1, <3>1, EndsRegistry
    <3>3. job[j].close = "no"
          BY <1>1, <2>1 DEF SessionInv, SessionOf
    <3>4. Opens(j)
          BY <2>1, <2>3, <3>1, <3>2, <3>3 DEF Opens, Ends, Open
    <3> QED BY <3>2, <3>4 DEF RegistryStep
  <2> QED BY <2>2, <2>3
<1>16. ASSUME NEW j \in Jobs, RunTimesOut(j)
      PROVE  SessionInv' /\ RegistryStep
  <2>1. /\ Shows(job', j, job[j].id, job[j].pc, job[j].worker, TRUE, TRUE, job[j].close,
                 job[j].runs - 1)
        /\ job[j].runs > 0 /\ Forget(j) /\ shut' = shut
        BY <1>16, RunTimesOutShows DEF RunTimesOut
  <2>2. Open(j) /\ job[j].worker = "up"
        BY <1>1, <2>1 DEF SessionInv, SessionOf, Open
  <2>3. ~Gone(j) /\ SessionOf(j)' /\ Stays(j) /\ job'[j].closed /\ job'[j].killed
        BY <1>1, <2>1, <2>2 DEF Gone, Shows, SessionInv, SessionOf, Stays, Open
  <2>4. \A k \in Jobs \ {j} : job'[k] = job[k]
        BY <2>1 DEF Shows
  <2> QED BY <1>1, <2>1, <2>2, <2>3, <2>4, ForgetRegistry DEF RegistryStep
<1>17. ASSUME NEW j \in Jobs, WorkerExits(j)
      PROVE  SessionInv' /\ RegistryStep
  <2> DEFINE closing == job[j].close \in {"asked", "exiting", "stopping"}
  <2>1. /\ job[j].worker = "up" /\ shut' = shut
        /\ closing => Forget(j)
        /\ ~closing => registry' = registry
        BY <1>17 DEF WorkerExits
  <2>2. /\ \A k \in Jobs \ {j} : job'[k] = job[k]
        /\ job'[j].id = job[j].id /\ job'[j].pc = job[j].pc /\ job'[j].worker = "dead"
        /\ job'[j].killed = job[j].killed /\ job'[j].closed = job[j].closed /\ job'[j].runs = 0
        /\ closing => job'[j].close = "ended"
        /\ ~closing => job'[j].close = job[j].close
        BY <1>17, WorkerExitsShows DEF Shows
  <2>3. SessionOf(j)' /\ (Open(j) => Stays(j)) /\ ~Gone(j)
        BY <1>1, <2>1, <2>2 DEF SessionInv, SessionOf, Stays, Open, Gone
  <2>4. CASE closing
    <3>1. Open(j) /\ job'[j].closed /\ job'[j].worker # "up"
          BY <1>1, <2>2, <2>4 DEF SessionInv, SessionOf, Open
    <3> QED BY <1>1, <2>1, <2>2, <2>3, <2>4, <3>1, ForgetRegistry DEF RegistryStep
  <2>5. CASE ~closing
        BY <1>1, <2>1, <2>2, <2>3, <2>5, CalmRegistry DEF RegistryStep, Open
  <2> QED BY <2>4, <2>5
<1>18. ASSUME NEW j \in Jobs, WorkerCrashes(j)
      PROVE  SessionInv' /\ RegistryStep
  <2> DEFINE closing == job[j].close \in {"asked", "stopping"}
  <2>1. /\ job[j].worker = "up" /\ shut' = shut
        /\ closing => Forget(j)
        /\ ~closing => registry' = registry
        BY <1>18 DEF WorkerCrashes
  <2>2. /\ \A k \in Jobs \ {j} : job'[k] = job[k]
        /\ job'[j].id = job[j].id /\ job'[j].pc = job[j].pc /\ job'[j].worker = "crashed"
        /\ job'[j].killed = job[j].killed /\ job'[j].closed = job[j].closed /\ job'[j].runs = 0
        /\ closing => job'[j].close = "ended"
        /\ ~closing => job'[j].close = job[j].close
        BY <1>18, WorkerCrashesShows DEF Shows
  <2>3. SessionOf(j)' /\ (Open(j) => Stays(j)) /\ ~Gone(j)
        BY <1>1, <2>1, <2>2 DEF SessionInv, SessionOf, Stays, Open, Gone
  <2>4. CASE closing
    <3>1. Open(j) /\ job'[j].closed /\ job'[j].worker # "up"
          BY <1>1, <2>2, <2>4 DEF SessionInv, SessionOf, Open
    <3> QED BY <1>1, <2>1, <2>2, <2>3, <2>4, <3>1, ForgetRegistry DEF RegistryStep
  <2>5. CASE ~closing
        BY <1>1, <2>1, <2>2, <2>3, <2>5, CalmRegistry DEF RegistryStep, Open
  <2> QED BY <2>4, <2>5
<1>19. ASSUME NEW j \in Jobs, Close(j)
      PROVE  SessionInv' /\ RegistryStep
  <2>1. CloseStarts(j) /\ Open(j) /\ \A k \in Jobs : k \in shut'.todo => k \in shut.todo
        BY <1>19 DEF Close, Open
  <2>2. CASE job[j].closed /\ UNCHANGED <<job, registry, gauge>>
        BY <1>1, <2>1, <2>2 DEF SessionInv, SessionOf, RegistryStep, Calm, Open, Stays
  <2>3. CASE /\ ~job[j].closed /\ job[j].worker = "up" /\ UNCHANGED <<registry, gauge>>
             /\ Shows(job', j, job[j].id, job[j].pc, job[j].worker, job[j].killed, TRUE, "asked",
                      job[j].runs)
    <3>1. SessionOf(j)' /\ Stays(j) /\ job'[j].pc = "open" /\ job'[j].close # "ended"
          BY <1>1, <2>1, <2>3 DEF Shows, SessionInv, SessionOf, Stays, Open
    <3>2. \A k \in Jobs \ {j} : job'[k] = job[k]
          BY <2>3 DEF Shows
    <3>3. SessionInv'
          BY <1>1, <2>1, <3>1, <3>2 DEF SessionInv, SessionOf
    <3>4. Calm
          BY <2>1, <2>3, <3>1, <3>2 DEF Calm, Open, Stays
    <3> QED BY <3>3, <3>4 DEF RegistryStep
  <2>4. CASE /\ ~job[j].closed /\ job[j].worker # "up" /\ Forget(j)
             /\ Shows(job', j, job[j].id, job[j].pc, job[j].worker, job[j].killed, TRUE, "ended",
                      job[j].runs)
    <3>1. /\ SessionOf(j)' /\ Stays(j) /\ job'[j].closed /\ job'[j].worker # "up" /\ ~Gone(j)
          BY <1>1, <2>1, <2>4 DEF Shows, SessionInv, SessionOf, Stays, Open, Gone
    <3>2. \A k \in Jobs \ {j} : job'[k] = job[k]
          BY <2>4 DEF Shows
    <3> QED BY <1>1, <2>1, <2>4, <3>1, <3>2, ForgetRegistry DEF RegistryStep
  <2> QED BY <2>1, <2>2, <2>3, <2>4, CloseStartsShows
<1>20. ASSUME NEW j \in Jobs, ShutdownCloses(j)
      PROVE  SessionInv' /\ RegistryStep
  <2>1. CloseStarts(j) /\ Open(j) /\ \A k \in Jobs : k \in shut'.todo => k \in shut.todo
        BY <1>1, <1>20 DEF ShutdownCloses, SessionInv, Open
  <2>2. CASE job[j].closed /\ UNCHANGED <<job, registry, gauge>>
        BY <1>1, <2>1, <2>2 DEF SessionInv, SessionOf, RegistryStep, Calm, Open, Stays
  <2>3. CASE /\ ~job[j].closed /\ job[j].worker = "up" /\ UNCHANGED <<registry, gauge>>
             /\ Shows(job', j, job[j].id, job[j].pc, job[j].worker, job[j].killed, TRUE, "asked",
                      job[j].runs)
    <3>1. SessionOf(j)' /\ Stays(j) /\ job'[j].pc = "open" /\ job'[j].close # "ended"
          BY <1>1, <2>1, <2>3 DEF Shows, SessionInv, SessionOf, Stays, Open
    <3>2. \A k \in Jobs \ {j} : job'[k] = job[k]
          BY <2>3 DEF Shows
    <3>3. SessionInv'
          BY <1>1, <2>1, <3>1, <3>2 DEF SessionInv, SessionOf
    <3>4. Calm
          BY <2>1, <2>3, <3>1, <3>2 DEF Calm, Open, Stays
    <3> QED BY <3>3, <3>4 DEF RegistryStep
  <2>4. CASE /\ ~job[j].closed /\ job[j].worker # "up" /\ Forget(j)
             /\ Shows(job', j, job[j].id, job[j].pc, job[j].worker, job[j].killed, TRUE, "ended",
                      job[j].runs)
    <3>1. /\ SessionOf(j)' /\ Stays(j) /\ job'[j].closed /\ job'[j].worker # "up" /\ ~Gone(j)
          BY <1>1, <2>1, <2>4 DEF Shows, SessionInv, SessionOf, Stays, Open, Gone
    <3>2. \A k \in Jobs \ {j} : job'[k] = job[k]
          BY <2>4 DEF Shows
    <3> QED BY <1>1, <2>1, <2>4, <3>1, <3>2, ForgetRegistry DEF RegistryStep
  <2> QED BY <2>1, <2>2, <2>3, <2>4, CloseStartsShows
<1>21. CASE Drain
      BY <1>1, <1>21 DEF Drain, SessionInv, SessionOf, RegistryStep, Calm, Open, Stays
<1>22. CASE ShutdownStarts
  <2>1. \A j \in Jobs : j \in shut'.todo => Open(j)
        BY <1>22, RunnerAssumption DEF RunnerAssumption, ShutdownStarts, RegistryInv, Entries,
           Open
  <2>2. UNCHANGED <<job, registry>>
        BY <1>22 DEF ShutdownStarts
  <2>3. SessionInv'
        BY <1>1, <2>1, <2>2 DEF SessionInv, SessionOf, Open
  <2>4. Calm
        BY <2>2 DEF Calm, Open, Stays
  <2> QED BY <2>3, <2>4 DEF RegistryStep
<1>23. CASE UNCHANGED vars
      BY <1>1, <1>23 DEF vars, SessionInv, SessionOf, RegistryStep, Calm, Open, Stays
<1> QED BY <1>2, <1>3, <1>4, <1>5, <1>6, <1>7, <1>8, <1>9, <1>10, <1>11, <1>12, <1>13, <1>14,
           <1>15, <1>16, <1>17, <1>18, <1>19, <1>20, <1>21, <1>22, <1>23 DEF Next

(* The registry and the open sessions, after a step of each of the three      *)
(* kinds.                                                                     *)
LEMMA RegistryCalm ==
    ASSUME TypeOK, RegistryInv, Calm
    PROVE  (Rivals /\ Listed /\ Entries /\ Reachable)'
<1>1. \A k \in Jobs : (Open(k) <=> Open(k)') /\ (Open(k) => Stays(k))
      BY DEF Calm, Open, Stays
<1>2. \A k \in Jobs : Open(k)' => job'[k].id = job[k].id /\ (Gone(k) => Gone(k)')
                                  /\ (job[k].closed => job'[k].closed)
      BY <1>1 DEF Stays, Gone
<1>3. \A i : Terminated(i) \subseteq Terminated(i)'
      BY <1>1 DEF Terminated, Open, Stays
<1>4. Rivals'
      BY <1>1, <1>2, <1>3 DEF RegistryInv, Rivals
<1>5. Listed'
      BY <1>1, <1>2, <1>3 DEF RegistryInv, Listed, Calm
<1>6. Entries'
  <2> SUFFICES ASSUME NEW i \in Ids, registry'[i] # None
               PROVE  /\ job'[registry'[i]].pc = "open" /\ job'[registry'[i]].id = i
                      /\ job'[registry'[i]].close # "ended"
      BY DEF Entries
  <2>1. registry'[i] = registry[i] /\ registry[i] \in Jobs
        BY DEF Calm, TypeOK
  <2>2. Open(registry[i]) /\ job[registry[i]].id = i /\ job[registry[i]].close # "ended"
        BY <2>1 DEF RegistryInv, Entries, Open
  <2> QED BY <2>1, <2>2 DEF Calm, Stays
<1>7. Reachable'
  <2> SUFFICES ASSUME NEW j \in Jobs, Open(j)', ~job'[j].closed, registry'[job'[j].id] # j
               PROVE  \E k \in Jobs \ {j} : job'[k].pc = "open" /\ job'[k].id = job'[j].id
                      /\ job'[k].killed
      BY DEF Reachable, Open
  <2>1. Open(j) /\ ~job[j].closed /\ job'[j].id = job[j].id /\ registry[job[j].id] # j
        BY <1>1, <1>2 DEF Calm
  <2>2. PICK k \in Jobs \ {j} : Open(k) /\ job[k].id = job[j].id /\ job[k].killed
        BY <2>1 DEF RegistryInv, Reachable, Open
  <2>3. Stays(k)
        BY <1>1, <2>2
  <2> QED BY <2>1, <2>2, <2>3 DEF Stays
<1> QED BY <1>4, <1>5, <1>6, <1>7

(* A step that takes one entry out of the registry.                           *)
LEMMA RegistryForgets ==
    ASSUME TypeOK, RegistryInv, NEW j \in Jobs, Forgets(j)
    PROVE  (Rivals /\ Listed /\ Entries /\ Reachable)'
<1> DEFINE d == job[j].id
<1>1. /\ Open(j) /\ ~Gone(j) /\ d \in Ids /\ Stays(j) /\ job'[j].closed
      /\ \A k \in Jobs \ {j} : job'[k] = job[k]
      /\ Gone(j)' \/ job'[j].killed
      BY DEF Forgets, Gone
<1>2. \A k \in Jobs : (Open(k) <=> Open(k)') /\ (Open(k) => Stays(k))
      BY <1>1 DEF Open, Stays
<1>3. \A k \in Jobs : Open(k)' => job'[k].id = job[k].id /\ (Gone(k) => Gone(k)')
                                  /\ (job[k].closed => job'[k].closed)
      BY <1>2 DEF Stays, Gone
<1>4. \A i : Terminated(i) \subseteq Terminated(i)'
      BY <1>2 DEF Terminated, Open, Stays
<1>5. /\ registry' \in [Ids -> Jobs \cup {None}] /\ registry'[d] = None
      /\ \A i \in Ids \ {d} : registry'[i] = registry[i]
      BY <1>1 DEF Forgets, TypeOK
<1>6. None \notin Jobs
      BY RunnerAssumption DEF RunnerAssumption
<1>7. Rivals'
      BY <1>2, <1>3, <1>4 DEF RegistryInv, Rivals
<1>8. Listed'
  <2> SUFFICES ASSUME NEW k \in Jobs, Open(k)'
               PROVE  Gone(k)' \/ registry'[job'[k].id] = k \/ Terminated(job[k].id)' # {}
      BY DEF Listed
  <2>1. Open(k) /\ job'[k].id = job[k].id
        BY <1>2, <1>3
  <2>2. CASE k = j
        BY <1>1, <2>1, <2>2 DEF Terminated, Open, Stays
  <2>3. CASE k # j /\ job[k].id = d
    <3>1. Gone(k) \/ Terminated(d) # {}
          BY <1>1, <2>1, <2>3 DEF RegistryInv, Rivals
    <3> QED BY <1>3, <1>4, <2>1, <2>3, <3>1
  <2>4. CASE job[k].id # d
    <3>1. job[k].id \in Ids
          BY <2>1 DEF RegistryInv, SessionInv, SessionOf, Open
    <3>2. Gone(k) \/ registry[job[k].id] = k \/ Terminated(job[k].id) # {}
          BY <2>1 DEF RegistryInv, Listed
    <3> QED BY <1>3, <1>4, <1>5, <2>1, <2>4, <3>1, <3>2
  <2> QED BY <2>2, <2>3, <2>4
<1>9. Entries'
  <2> SUFFICES ASSUME NEW i \in Ids, registry'[i] # None
               PROVE  /\ job'[registry'[i]].pc = "open" /\ job'[registry'[i]].id = i
                      /\ job'[registry'[i]].close # "ended"
      BY DEF Entries
  <2>1. i # d /\ registry'[i] = registry[i] /\ registry[i] \in Jobs
        BY <1>5 DEF TypeOK
  <2>2. Open(registry[i]) /\ job[registry[i]].id = i /\ job[registry[i]].close # "ended"
        BY <2>1 DEF RegistryInv, Entries, Open
  <2>3. registry[i] # j
        BY <2>1, <2>2
  <2> QED BY <1>1, <2>1, <2>2, <2>3 DEF Open
<1>10. Reachable'
  <2> SUFFICES ASSUME NEW k \in Jobs, Open(k)', ~job'[k].closed, registry'[job'[k].id] # k
               PROVE  \E m \in Jobs \ {k} : job'[m].pc = "open" /\ job'[m].id = job'[k].id
                      /\ job'[m].killed
      BY DEF Reachable, Open
  <2>1. /\ k # j /\ Open(k) /\ ~job[k].closed /\ job'[k].id = job[k].id /\ job'[k] = job[k]
        BY <1>1, <1>2, <1>3
  <2>2. PICK m \in Jobs \ {k} : Open(m) /\ job[m].id = job[k].id /\ job[m].killed
    <3>1. CASE job[k].id = d
      <4>1. Terminated(job[k].id) \ {k} # {}
            BY <1>1, <2>1, <3>1 DEF RegistryInv, Rivals
      <4> QED BY <4>1 DEF Terminated, Open
    <3>2. CASE job[k].id # d
      <4>1. job[k].id \in Ids
            BY <2>1 DEF RegistryInv, SessionInv, SessionOf, Open
      <4>2. registry[job[k].id] # k
            BY <1>5, <2>1, <3>2, <4>1
      <4> QED BY <2>1, <4>2 DEF RegistryInv, Reachable, Open
    <3> QED BY <3>1, <3>2
  <2>3. Stays(m)
        BY <1>2, <2>2
  <2> QED BY <2>1, <2>2, <2>3 DEF Stays
<1> QED BY <1>7, <1>8, <1>9, <1>10

(* A step that opens a session and enters it.                                 *)
LEMMA RegistryOpens ==
    ASSUME TypeOK, RegistryInv, NEW j \in Jobs, Opens(j)
    PROVE  (Rivals /\ Listed /\ Entries /\ Reachable)'
<1> DEFINE d == job[j].id
<1>1. /\ ~Open(j) /\ d \in Ids /\ registry[d] = None
      /\ \A k \in Jobs \ {j} : (Open(k) => job'[k] = job[k]) /\ (job'[k].pc = "open" => Open(k))
      /\ job'[j].pc = "open" /\ job'[j].id = d /\ job'[j].close # "ended"
      BY DEF Opens
<1>2. /\ registry' \in [Ids -> Jobs \cup {None}] /\ registry'[d] = j
      /\ \A i \in Ids \ {d} : registry'[i] = registry[i]
      BY <1>1 DEF Opens, TypeOK
<1>3. None \notin Jobs
      BY RunnerAssumption DEF RunnerAssumption
<1>4. \A k \in Jobs \ {j} : Open(k)' => Open(k) /\ job'[k] = job[k] /\ (Gone(k) => Gone(k)')
      BY <1>1 DEF Open, Gone
<1>5. \A i : Terminated(i) \subseteq Terminated(i)' /\ j \notin Terminated(i)
      BY <1>1 DEF Terminated, Open
<1>6. ASSUME NEW k \in Jobs \ {j}, Open(k), job[k].id = d
      PROVE  /\ Gone(k) \/ Terminated(d) # {}
             /\ job[k].closed \/ Terminated(d) \ {k} # {}
  <2>1. registry[d] # k
        BY <1>1, <1>3
  <2>2. Gone(k) \/ Terminated(d) # {}
        BY <1>6, <2>1 DEF RegistryInv, Listed
  <2>3. job[k].closed \/ Terminated(d) \ {k} # {}
        BY <1>6, <2>1 DEF RegistryInv, Reachable, Terminated, Open
  <2> QED BY <2>2, <2>3
<1>7. Rivals'
  <2> SUFFICES ASSUME NEW a \in Jobs, NEW b \in Jobs, a # b, Open(a)', Open(b)',
                      job'[a].id = job'[b].id
               PROVE  /\ Gone(a)' \/ Gone(b)' \/ Terminated(job[b].id)' # {}
                      /\ Gone(a)' \/ job'[b].closed \/ Terminated(job[b].id)' \ {b} # {}
      BY DEF Rivals
  <2>1. CASE a # j /\ b # j
    <3>1. Open(a) /\ Open(b) /\ job'[a] = job[a] /\ job'[b] = job[b]
          BY <1>4, <2>1
    <3>2. /\ Gone(a) \/ Gone(b) \/ Terminated(job[b].id) # {}
          /\ Gone(a) \/ job[b].closed \/ Terminated(job[b].id) \ {b} # {}
          BY <3>1 DEF RegistryInv, Rivals
    <3> QED BY <1>4, <1>5, <2>1, <3>1, <3>2
  <2>2. CASE b = j
    <3>1. Open(a) /\ job'[a] = job[a] /\ job[a].id = d
          BY <1>1, <1>4, <2>2
    <3>2. Gone(a) \/ Terminated(d) # {}
          BY <1>6, <2>2, <3>1
    <3> QED BY <1>1, <1>4, <1>5, <2>2, <3>1, <3>2
  <2>3. CASE a = j /\ b # j
    <3>1. Open(b) /\ job'[b] = job[b] /\ job[b].id = d
          BY <1>1, <1>4, <2>3
    <3>2. /\ Gone(b) \/ Terminated(d) # {}
          /\ job[b].closed \/ Terminated(d) \ {b} # {}
          BY <1>6, <2>3, <3>1
    <3> QED BY <1>4, <1>5, <2>3, <3>1, <3>2
  <2> QED BY <2>1, <2>2, <2>3
<1>8. Listed'
  <2> SUFFICES ASSUME NEW k \in Jobs, Open(k)'
               PROVE  Gone(k)' \/ registry'[job'[k].id] = k \/ Terminated(job[k].id)' # {}
      BY DEF Listed
  <2>1. CASE k = j
        BY <1>1, <1>2, <2>1
  <2>2. CASE k # j
    <3>1. Open(k) /\ job'[k] = job[k] /\ (Gone(k) => Gone(k)')
          BY <1>4, <2>2
    <3>2. job[k].id \in Ids
          BY <3>1 DEF RegistryInv, SessionInv, SessionOf, Open
    <3>3. CASE job[k].id = d
          BY <1>5, <1>6, <2>2, <3>1, <3>3
    <3>4. CASE job[k].id # d
          BY <1>2, <1>5, <3>1, <3>2, <3>4 DEF RegistryInv, Listed
    <3> QED BY <3>3, <3>4
  <2> QED BY <2>1, <2>2
<1>9. Entries'
  <2> SUFFICES ASSUME NEW i \in Ids, registry'[i] # None
               PROVE  /\ job'[registry'[i]].pc = "open" /\ job'[registry'[i]].id = i
                      /\ job'[registry'[i]].close # "ended"
      BY DEF Entries
  <2>1. CASE i = d
        BY <1>1, <1>2, <2>1
  <2>2. CASE i # d
    <3>1. registry'[i] = registry[i] /\ registry[i] \in Jobs
          BY <1>2, <2>2 DEF TypeOK
    <3>2. Open(registry[i]) /\ job[registry[i]].id = i /\ job[registry[i]].close # "ended"
          BY <3>1 DEF RegistryInv, Entries, Open
    <3> QED BY <1>1, <3>1, <3>2 DEF Open
  <2> QED BY <2>1, <2>2
<1>10. Reachable'
  <2> SUFFICES ASSUME NEW k \in Jobs, Open(k)', ~job'[k].closed, registry'[job'[k].id] # k
               PROVE  \E m \in Jobs \ {k} : job'[m].pc = "open" /\ job'[m].id = job'[k].id
                      /\ job'[m].killed
      BY DEF Reachable, Open
  <2>1. k # j
        BY <1>1, <1>2
  <2>2. Open(k) /\ job'[k] = job[k] /\ ~job[k].closed
        BY <1>4, <2>1
  <2>3. job[k].id \in Ids
        BY <2>2 DEF RegistryInv, SessionInv, SessionOf, Open
  <2>4. PICK m \in Jobs \ {k} : Open(m) /\ job[m].id = job[k].id /\ job[m].killed
    <3>1. CASE job[k].id = d
      <4>1. Terminated(d) \ {k} # {}
            BY <1>6, <2>1, <2>2, <3>1
      <4> QED BY <3>1, <4>1 DEF Terminated, Open
    <3>2. CASE job[k].id # d
      <4>1. registry[job[k].id] # k
            BY <1>2, <2>2, <2>3, <3>2
      <4> QED BY <2>2, <4>1 DEF RegistryInv, Reachable, Open
    <3> QED BY <3>1, <3>2
  <2>5. m # j /\ job'[m] = job[m]
        BY <1>1, <2>4
  <2> QED BY <2>2, <2>4, <2>5 DEF Open
<1> QED BY <1>7, <1>8, <1>9, <1>10

(* The registry starts empty.                                                 *)
LEMMA InitRegistry == Init => RegistryInv
<1> SUFFICES ASSUME Init PROVE RegistryInv OBVIOUS
<1>1. \A j \in Jobs : job[j] = Fresh BY DEF Init
<1>2. \A j \in Jobs : ~Open(j) BY <1>1 DEF Fresh, Open
<1>3. SessionInv BY <1>1 DEF Init, Fresh, SessionInv, SessionOf
<1>4. Rivals /\ Listed /\ Reachable BY <1>2 DEF Rivals, Listed, Reachable, Open
<1>5. Entries BY DEF Init, Entries
<1> QED BY <1>3, <1>4, <1>5 DEF RegistryInv

(* What the registry hands out was created for that id and has not ended, and *)
(* an open session is found under its id unless a worker of another session   *)
(* of that id was terminated.                                                 *)
THEOREM RegistryAlwaysSound == Spec => []RegistrySound
<1> DEFINE Inv == TypeOK /\ PoolInv /\ RegistryInv
<1>1. Init => Inv
      BY InitPool, InitRegistry
<1>2. Inv /\ [Next]_vars => Inv'
  <2> SUFFICES ASSUME Inv, [Next]_vars PROVE Inv' OBVIOUS
  <2>1. TypeOK' /\ PoolInv'
        BY PoolInvStep
  <2>2. SessionInv' /\ RegistryStep
        BY RegistryStepKeeps DEF PoolInv
  <2>3. (Rivals /\ Listed /\ Entries /\ Reachable)'
        BY <2>2, RegistryCalm, RegistryForgets, RegistryOpens DEF RegistryStep
  <2> QED BY <2>1, <2>2, <2>3 DEF RegistryInv
<1>3. Inv => RegistrySound
      BY DEF RegistryInv, Entries, RegistrySound
<1> HIDE DEF Inv
<1> QED BY <1>1, <1>2, <1>3, PTL DEF Spec

=============================================================================
