---------------------------- MODULE RunnerSessions ----------------------------
(* The sessions of one runner-node process: createSession with its restore    *)
(* slots, restoreSessionWorker, the session object's run and close, the       *)
(* registry and the gauges the dispatcher reads (tools/runner-node/src).      *)
(*                                                                            *)
(* A job is one POST /sessions and, once it has succeeded, the session object *)
(* it made.  An action is what one event of the Node loop sets off, the       *)
(* microtasks it queues included: they all run before the next event, so a    *)
(* released slot reaches its waiter before any other request is looked at.    *)
EXTENDS Integers, Sequences, FiniteSets

CONSTANTS
    Jobs,          \* the create requests
    Ids,           \* the session ids they may ask for
    None,          \* no job
    RestoreSlots,  \* restoreSlots
    Loads,         \* which requests come, and what may go wrong meanwhile
    MaxRuns        \* bound: runs in flight on one session

(* "files": initialFiles over the inline limit; "crash": the worker's error   *)
(* event; "exit": it exits by itself; "late": a request passes its timeout;   *)
(* "broker": a broker-fetch the host cannot serve.                            *)
Fault == {"files", "crash", "exit", "late", "broker"}

ASSUME RunnerAssumption ==
    /\ RestoreSlots \in Nat \ {0}
    /\ None \notin Jobs /\ None \notin Ids
    /\ IsFiniteSet(Jobs)
    /\ Loads \subseteq [jobs : SUBSET Jobs, faults : SUBSET Fault]
    /\ MaxRuns \in Nat

VARIABLES
    load,          \* the member of Loads this behaviour is about; it never changes
    job,           \* each request, its session object and its worker
    registry,      \* session-registry.mjs: sessions
    waiters,       \* restoreWaiters
    gauge,         \* the counters of createRunner and createRunnerMetrics
    draining,
    shut           \* runner.close: the sessions it has still to close, and the one it awaits

vars == <<load, job, registry, waiters, gauge, draining, shut>>

(* pc: how far createSession has come.  close: how far session.close has.     *)
(* worker: "crashed" has had its error event (which takes the exit listener   *)
(* off), "dead" its exit event.  killed: terminate() has been called.         *)
Job ==
    [pc     : {"new", "waiting", "slot", "spawning", "stopping", "init", "open", "failed"},
     id     : Ids \cup {None},
     worker : {"none", "starting", "up", "crashed", "dead"},
     killed : BOOLEAN,
     closed : BOOLEAN,
     close  : {"no", "asked", "exiting", "stopping", "ended"},
     runs   : 0..MaxRuns]

(* pending: pendingCreates, inflight: inflightCreateRestores, restores and    *)
(* active: inflightRestores and activeSessions of the metrics.                *)
Gauge == [pending : Nat, inflight : Nat, restores : Nat, active : Nat]

Fresh == [pc |-> "new", id |-> None, worker |-> "none", killed |-> FALSE,
          closed |-> FALSE, close |-> "no", runs |-> 0]

Faults == load.faults

Init ==
    /\ load \in Loads
    /\ job = [j \in Jobs |-> Fresh]
    /\ registry = [i \in Ids |-> None]
    /\ waiters = <<>> /\ draining = FALSE
    /\ shut = [on |-> FALSE, todo |-> {}, cur |-> None]
    /\ gauge = [pending |-> 0, inflight |-> 0, restores |-> 0, active |-> 0]

(* Math.max(0, n - 1).                                                        *)
Less(n) == IF n > 0 THEN n - 1 ELSE 0

-----------------------------------------------------------------------------
(* createSession.                                                             *)

(* Mutant of CreateSession: one slot too many.                                *)
CreateSessionInclusive(j, id) ==
    /\ job[j].pc = "new" /\ j \in load.jobs
    /\ LET refused == draining \/ registry[id] # None
           free    == gauge.inflight <= RestoreSlots
       IN  /\ job' = [job EXCEPT ![j] =
                        [@ EXCEPT !.id = id,
                                  !.pc = IF refused THEN "failed"
                                         ELSE IF free THEN "slot" ELSE "waiting"]]
           /\ gauge' = IF refused THEN gauge
                       ELSE [gauge EXCEPT !.pending = @ + 1,
                                          !.inflight = IF free THEN @ + 1 ELSE @]
           /\ waiters' = IF refused \/ free THEN waiters ELSE Append(waiters, j)
    /\ UNCHANGED <<load, registry, draining, shut>>

(* The request is refused, takes a slot or queues for one (acquireRestoreSlot). *)
CreateSession(j, id) ==
    /\ job[j].pc = "new" /\ j \in load.jobs
    /\ LET refused == draining \/ registry[id] # None
           free    == gauge.inflight < RestoreSlots
       IN  /\ job' = [job EXCEPT ![j] =
                        [@ EXCEPT !.id = id,
                                  !.pc = IF refused THEN "failed"
                                         ELSE IF free THEN "slot" ELSE "waiting"]]
           /\ gauge' = IF refused THEN gauge
                       ELSE [gauge EXCEPT !.pending = @ + 1,
                                          !.inflight = IF free THEN @ + 1 ELSE @]
           /\ waiters' = IF refused \/ free THEN waiters ELSE Append(waiters, j)
    /\ UNCHANGED <<load, registry, draining, shut>>

(* Mutant of ReleaseSlot: pop() for shift(), the last waiter is woken.        *)
ReleaseSlotLast(jobs, counts) ==
    /\ job' = IF waiters = <<>> THEN jobs
              ELSE [jobs EXCEPT ![waiters[Len(waiters)]] = [@ EXCEPT !.pc = "slot"]]
    /\ gauge' = [counts EXCEPT !.pending = Less(@),
                               !.inflight = IF waiters = <<>> THEN Less(@) ELSE Less(@) + 1]
    /\ waiters' = IF waiters = <<>> THEN waiters ELSE SubSeq(waiters, 1, Len(waiters) - 1)

(* releaseRestoreSlot and the finally of createSession, on jobs and counters  *)
(* that already show the rest of the event: the first waiter gets the slot.   *)
ReleaseSlot(jobs, counts) ==
    /\ job' = IF waiters = <<>> THEN jobs
              ELSE [jobs EXCEPT ![Head(waiters)] = [@ EXCEPT !.pc = "slot"]]
    /\ gauge' = [counts EXCEPT !.pending = Less(@),
                               !.inflight = IF waiters = <<>> THEN Less(@) ELSE Less(@) + 1]
    /\ waiters' = IF waiters = <<>> THEN waiters ELSE Tail(waiters)

(* restoreSessionWorker up to the ready promise.  It starts in the event that *)
(* gives the slot; as a step of its own it may also come later, which no      *)
(* other step can tell: until then only the slot shows.                       *)
StartRestore(j) ==
    /\ job[j].pc = "slot"
    /\ job' = [job EXCEPT ![j] = [@ EXCEPT !.pc = "spawning", !.worker = "starting"]]
    /\ gauge' = [gauge EXCEPT !.restores = @ + 1]
    /\ UNCHANGED <<load, registry, waiters, draining, shut>>

(* normalizeInitialFiles throws after startRestore has counted the restore.   *)
FilesRefused(j) ==
    /\ job[j].pc = "slot" /\ "files" \in Faults
    /\ ReleaseSlot([job EXCEPT ![j] = [@ EXCEPT !.pc = "failed"]],
                   [gauge EXCEPT !.restores = @ + 1])
    /\ UNCHANGED <<load, registry, draining, shut>>

WorkerReady(j) ==
    /\ job[j].pc = "spawning"
    /\ job' = [job EXCEPT ![j] = [@ EXCEPT !.pc = "init", !.worker = "up"]]
    /\ UNCHANGED <<load, registry, waiters, gauge, draining, shut>>

(* An error message, an exit, an error event or the ready timeout before      *)
(* `ready`: restore.fail, and the worker is terminated.                       *)
ReadyFails(j) ==
    /\ job[j].pc = "spawning" /\ Faults \cap {"crash", "exit", "late"} # {}
    /\ job' = [job EXCEPT ![j] = [@ EXCEPT !.pc = "stopping", !.killed = TRUE]]
    /\ gauge' = [gauge EXCEPT !.restores = Less(@)]
    /\ UNCHANGED <<load, registry, waiters, draining, shut>>

(* Mutant of RestoreStopped: a failed restore keeps its slot.                 *)
RestoreStoppedKeeps(j) ==
    /\ job[j].pc = "stopping"
    /\ job' = [job EXCEPT ![j] = [@ EXCEPT !.pc = "failed", !.worker = "dead"]]
    /\ UNCHANGED <<load, registry, waiters, gauge, draining, shut>>

(* The worker is gone and the create throws.                                  *)
RestoreStopped(j) ==
    /\ job[j].pc = "stopping"
    /\ ReleaseSlot([job EXCEPT ![j] = [@ EXCEPT !.pc = "failed", !.worker = "dead"]], gauge)
    /\ UNCHANGED <<load, registry, draining, shut>>

(* The answer to init: restore.finish, the slot, sessionOpened and            *)
(* registry.add, which throws if the id has been taken in the meantime.       *)
InitReplies(j) ==
    LET taken == registry[job[j].id] # None IN
    /\ job[j].pc = "init" /\ job[j].worker = "up"
    /\ ReleaseSlot([job EXCEPT ![j] = [@ EXCEPT !.pc = IF taken THEN "failed" ELSE "open"]],
                   [gauge EXCEPT !.restores = Less(@), !.active = @ + 1])
    /\ registry' = IF taken THEN registry ELSE [registry EXCEPT ![job[j].id] = j]
    /\ UNCHANGED <<load, draining, shut>>

(* init is rejected, because the worker is gone or does not answer in time:   *)
(* nothing ends the restore that startRestore counted.                        *)
InitFails(j, worker) ==
    /\ job[j].pc = "init"
    /\ \/ worker = "crashed" /\ "crash" \in Faults
       \/ worker = "dead" /\ "exit" \in Faults
       \/ worker = "up" /\ "late" \in Faults
    /\ ReleaseSlot([job EXCEPT ![j] = [@ EXCEPT !.pc = "failed", !.worker = worker,
                                                !.killed = (worker = "up")]], gauge)
    /\ UNCHANGED <<load, registry, draining, shut>>

-----------------------------------------------------------------------------
(* The session object.  A handler looks the session up and may use it long    *)
(* afterwards, when it has read its request's body.                           *)

(* Mutant of Forget: the session stays registered.                            *)
ForgetGaugeOnly(j) ==
    /\ registry' = registry
    /\ gauge' = [gauge EXCEPT !.active = Less(@)]

(* registry.delete and sessionClosed: by id, whoever is registered.           *)
Forget(j) ==
    /\ registry' = [registry EXCEPT ![job[j].id] = None]
    /\ gauge' = [gauge EXCEPT !.active = Less(@)]

Run(j) ==
    /\ job[j].pc = "open" /\ job[j].worker = "up" /\ job[j].runs < MaxRuns
    /\ job' = [job EXCEPT ![j] = [job[j] EXCEPT !.runs = @ + 1]]
    /\ UNCHANGED <<load, registry, waiters, gauge, draining, shut>>

(* An answer posted before terminate() is still delivered.                    *)
RunReplies(j) ==
    /\ job[j].runs > 0
    /\ job' = [job EXCEPT ![j] = [job[j] EXCEPT !.runs = @ - 1]]
    /\ UNCHANGED <<load, registry, waiters, gauge, draining, shut>>

(* The run's timeout: the worker is terminated and the session forgotten.     *)
RunTimesOut(j) ==
    /\ job[j].runs > 0 /\ "late" \in Faults
    /\ job' = [job EXCEPT ![j] = [job[j] EXCEPT !.runs = @ - 1, !.killed = TRUE, !.closed = TRUE]]
    /\ Forget(j)
    /\ UNCHANGED <<load, waiters, draining, shut>>

(* A file request that passes its timeout terminates the worker too, but the  *)
(* session stays registered.                                                  *)
FileTimesOut(j) ==
    /\ job[j].pc = "open" /\ job[j].worker = "up" /\ ~job[j].killed /\ "late" \in Faults
    /\ job' = [job EXCEPT ![j] = [job[j] EXCEPT !.killed = TRUE]]
    /\ UNCHANGED <<load, registry, waiters, gauge, draining, shut>>

(* The host cannot serve a command's broker-fetch: what is pending is         *)
(* rejected and the worker terminated; a close goes on to its own terminate.  *)
BrokerFails(j) ==
    /\ job[j].runs > 0 /\ job[j].worker = "up" /\ "broker" \in Faults
    /\ job' = [job EXCEPT ![j] = [job[j] EXCEPT !.runs = 0, !.killed = TRUE,
                                                !.close = IF @ = "asked" THEN "stopping" ELSE @]]
    /\ UNCHANGED <<load, registry, waiters, gauge, draining, shut>>

(* session.close: at once if it is closed; without its worker the request     *)
(* throws and the finally runs.                                               *)
CloseStarts(j) ==
    IF job[j].closed THEN UNCHANGED <<job, registry, gauge>>
    ELSE IF job[j].worker = "up"
    THEN /\ job' = [job EXCEPT ![j] = [job[j] EXCEPT !.closed = TRUE, !.close = "asked"]]
         /\ UNCHANGED <<registry, gauge>>
    ELSE /\ job' = [job EXCEPT ![j] = [job[j] EXCEPT !.closed = TRUE, !.close = "ended"]]
         /\ Forget(j)

Close(j) ==
    /\ job[j].pc = "open" /\ ~job[j].closed
    /\ CloseStarts(j)
    /\ UNCHANGED <<load, waiters, draining, shut>>

CloseReplies(j) ==
    /\ job[j].close = "asked" /\ job[j].worker = "up"
    /\ job' = [job EXCEPT ![j] = [job[j] EXCEPT !.close = "exiting"]]
    /\ UNCHANGED <<load, registry, waiters, gauge, draining, shut>>

(* The answer is an error, or none comes in time: close throws after it has   *)
(* terminated the worker.                                                     *)
CloseRejected(j) ==
    /\ job[j].close = "asked" /\ (job[j].worker = "up" \/ "late" \in Faults)
    /\ job' = [job EXCEPT ![j] = [job[j] EXCEPT !.close = "stopping", !.killed = TRUE]]
    /\ UNCHANGED <<load, registry, waiters, gauge, draining, shut>>

(* The exit event rejects what is pending; whatever close waits for, its      *)
(* finally runs.                                                              *)
WorkerExits(j) ==
    LET closing == job[j].close \in {"asked", "exiting", "stopping"} IN
    /\ job[j].pc \in {"open", "failed"} /\ job[j].worker = "up"
    /\ job[j].killed \/ job[j].close = "exiting" \/ "exit" \in Faults
    /\ job' = [job EXCEPT ![j] = [job[j] EXCEPT !.worker = "dead", !.runs = 0,
                                                !.close = IF closing THEN "ended" ELSE @]]
    /\ IF closing THEN Forget(j) ELSE UNCHANGED <<registry, gauge>>
    /\ UNCHANGED <<load, waiters, draining, shut>>

(* The error event does the same but takes the exit listener off: a close     *)
(* that awaits waitForExit waits for ever.                                    *)
WorkerCrashes(j) ==
    LET closing == job[j].close \in {"asked", "stopping"} IN
    /\ job[j].pc \in {"open", "failed"} /\ job[j].worker = "up" /\ "crash" \in Faults
    /\ job' = [job EXCEPT ![j] = [job[j] EXCEPT !.worker = "crashed", !.runs = 0,
                                                !.close = IF closing THEN "ended" ELSE @]]
    /\ IF closing THEN Forget(j) ELSE UNCHANGED <<registry, gauge>>
    /\ UNCHANGED <<load, waiters, draining, shut>>

-----------------------------------------------------------------------------
(* The runner.                                                                *)

Drain ==
    /\ ~draining
    /\ draining' = TRUE
    /\ UNCHANGED <<load, job, registry, waiters, gauge, shut>>

(* runner.close: the registered sessions are closed one after the other.      *)
ShutdownStarts ==
    /\ ~shut.on
    /\ draining' = TRUE
    /\ shut' = [on |-> TRUE, todo |-> {j \in Jobs : \E i \in Ids : registry[i] = j}, cur |-> None]
    /\ UNCHANGED <<load, job, registry, waiters, gauge>>

Awaited == shut.cur # None /\ job[shut.cur].close # "ended"

(* Mutant of ShutdownCloses: it awaits the end of a close somebody else ran.  *)
ShutdownAwaits(j) ==
    /\ ~Awaited /\ j \in shut.todo
    /\ CloseStarts(j)
    /\ shut' = [shut EXCEPT !.todo = @ \ {j}, !.cur = j]
    /\ UNCHANGED <<load, waiters, draining>>

ShutdownCloses(j) ==
    /\ ~Awaited /\ j \in shut.todo
    /\ CloseStarts(j)
    /\ shut' = [shut EXCEPT !.todo = @ \ {j}, !.cur = IF job[j].closed THEN None ELSE j]
    /\ UNCHANGED <<load, waiters, draining>>

Next ==
    \/ \E j \in Jobs, i \in Ids : CreateSession(j, i)
    \/ \E j \in Jobs :
          \/ StartRestore(j) \/ FilesRefused(j) \/ WorkerReady(j) \/ ReadyFails(j)
          \/ RestoreStopped(j) \/ InitReplies(j)
          \/ \E w \in {"up", "crashed", "dead"} : InitFails(j, w)
          \/ Run(j) \/ RunReplies(j) \/ RunTimesOut(j) \/ FileTimesOut(j) \/ BrokerFails(j)
          \/ Close(j) \/ CloseReplies(j) \/ CloseRejected(j)
          \/ WorkerExits(j) \/ WorkerCrashes(j) \/ ShutdownCloses(j)
    \/ Drain \/ ShutdownStarts

(* Promises that are settled continue, the ready timer and the request timers *)
(* fire if nothing else happens, and a worker that was terminated or has      *)
(* called process.exit goes away.                                             *)
Fairness ==
    \A j \in Jobs :
        /\ WF_vars(StartRestore(j) \/ FilesRefused(j))
        /\ WF_vars(WorkerReady(j) \/ ReadyFails(j))
        /\ WF_vars(RestoreStopped(j))
        /\ WF_vars(InitReplies(j) \/ \E w \in {"up", "crashed", "dead"} : InitFails(j, w))
        /\ WF_vars(CloseReplies(j) \/ CloseRejected(j))
        /\ WF_vars((job[j].killed \/ job[j].close = "exiting") /\ WorkerExits(j))
        /\ WF_vars(ShutdownCloses(j))

Spec == Init /\ [][Next]_vars /\ Fairness

-----------------------------------------------------------------------------
(* Properties.                                                                *)

(* The requests, the registry and the counters keep their types.              *)
TypeOK ==
    /\ load \in Loads
    /\ job \in [Jobs -> Job]
    /\ registry \in [Ids -> Jobs \cup {None}]
    /\ waiters \in Seq(Jobs)
    /\ gauge \in Gauge
    /\ draining \in BOOLEAN
    /\ shut \in [on : BOOLEAN, todo : SUBSET Jobs, cur : Jobs \cup {None}]

(* The requests that hold a restore slot.                                     *)
Holders == {j \in Jobs : job[j].pc \in {"slot", "spawning", "stopping", "init"}}
Waiting == {j \in Jobs : job[j].pc = "waiting"}

(* Whichever way a create ends (a refused file, a worker that never gets      *)
(* ready, a failed init, an id taken in the meantime), its slot is counted    *)
(* exactly once: the slots in use are the requests that hold one, never more  *)
(* than there are, and pendingCreates counts them and the queue.              *)
SlotsConserved ==
    /\ gauge.inflight = Cardinality(Holders) /\ gauge.inflight <= RestoreSlots
    /\ gauge.pending = gauge.inflight + Cardinality(Waiting)

(* The abstract pool, with the requests that hold a slot and the queue of     *)
(* those that wait for one.                                                   *)
Pool == INSTANCE SlotPool WITH Clients <- Jobs, Slots <- RestoreSlots,
                               held <- Holders, queue <- waiters

(* Seen from the queue, the counters, promises and workers are a pool of      *)
(* slots: a create that finds none free waits, in the order of arrival, and   *)
(* every way out of a restore hands its slot to the longest waiter in the     *)
(* same event.  No wake-up is lost and nobody overtakes.                      *)
PoolSpec == Pool!Spec

(* An open session is found under its id.                                     *)
Reachable ==
    \A j \in Jobs : (job[j].pc = "open" /\ ~job[j].closed) =>
        \/ registry[job[j].id] = j
        \/ \E k \in Jobs \ {j} : job[k].pc = "open" /\ job[k].id = job[j].id /\ job[k].killed

(* What the registry hands out under an id is a session that was created for  *)
(* that id and whose close has not come to its end; and a session nobody has  *)
(* closed is reachable by its id, unless an earlier session of that id had a  *)
(* worker terminated by a timeout: delete goes by id, and the late end of     *)
(* such a session removes its successor.                                      *)
RegistrySound ==
    /\ \A i \in Ids : registry[i] # None =>
          /\ job[registry[i]].pc = "open" /\ job[registry[i]].id = i
          /\ job[registry[i]].close # "ended"
    /\ Reachable

(* Every create request is answered: the queue moves on whatever happens to   *)
(* the restores before it.                                                    *)
CreatesAnswered == \A j \in Jobs : job[j].pc = "waiting" ~> job[j].pc \in {"open", "failed"}

(* The end of one close, and of the loop over all sessions.                   *)
SessionsEnd ==
    \A j \in Jobs :
        job[j].close = "asked" ~> (job[j].close = "ended" \/ job[j].worker = "crashed")
ShutdownEnds ==
    shut.on ~> \/ shut.todo = {} /\ ~Awaited
               \/ \E j \in Jobs : job[j].worker = "crashed"

(* A close comes to its end, and runner.close with it, unless a worker        *)
(* crashes: its error event takes off the exit listener a close may await.    *)
ClosesEnd == SessionsEnd /\ ShutdownEnds

=============================================================================
