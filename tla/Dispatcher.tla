------------------------------ MODULE Dispatcher ------------------------------
(* The dispatcher's routing state and its request handlers                    *)
(* (crates/wasmsh-dispatcher), over runners seen through their HTTP interface. *)
(* A handler is a sequence of steps separated by its awaits: it takes the     *)
(* routing lock for one step at a time, so other handlers run between any two, *)
(* and the runners go on whether or not somebody still waits for the answer.  *)
EXTENDS Naturals, FiniteSets

CONSTANTS
    Runners, Ids,
    None,      \* no runner, no id
    MaxReqs,   \* bound: the requests of the clients
    RestoreSlots,
    Auth,      \* auth_token is set: the dispatcher mints the session ids
    Faults,    \* what may go wrong: a subset of Fault
    MaxFaults  \* bound: how many of them in a behaviour, timeouts not counted

(* "flap": a snapshot fetch fails; "dns": a lookup does; "late": an upstream  *)
(* request passes its timeout; "gone": the client goes away, which drops the  *)
(* handler at its await; "crash", "refuse", "forget": a runner crashes, ends  *)
(* a restore or a close with an error, gives a session up (a run's timeout).  *)
Fault == {"flap", "dns", "late", "gone", "crash", "refuse", "forget"}

ASSUME DispatcherAssumption ==
    /\ None \notin Runners \cup Ids
    /\ Auth \in BOOLEAN /\ Faults \subseteq Fault /\ MaxReqs \in Nat
    /\ RestoreSlots \in Nat /\ MaxFaults \in Nat

Reqs == 1..MaxReqs      \* in the order in which they arrive

VARIABLES
    known,      \* runners and runner_urls: the last snapshot, "no" without one
    affinity,   \* session_affinity
    req,        \* the handlers
    node,       \* the runners themselves
    faults      \* how many faults there have been

vars == <<known, affinity, req, node, faults>>

Kind  == {"create", "ready", "op", "close", "delete"}
Reply == {"ok", "404", "error"}
(* seen: the snapshots refresh_runners has fetched.  work: where the upstream *)
(* request is; it outlives the handler.  A 409 is an "error": both release.   *)
Req ==
    [kind   : Kind \cup {"none"},
     id     : Ids \cup {None},
     pc     : {"new", "fetch", "pick", "sent", "release", "done"},
     seen   : [Runners -> {"unasked", "failed", "free", "full"}],
     target : Runners \cup {None},
     work   : {"none", "queued", "restoring"} \cup Reply,
     res    : {"none", "ok", "error", "gone"}]
Node == [up : BOOLEAN, draining : BOOLEAN, sess : SUBSET Ids]

Unasked == [r \in Runners |-> "unasked"]

Init ==
    /\ known = [r \in Runners |-> "no"]
    /\ affinity = [i \in Ids |-> None]
    /\ req = [q \in Reqs |->
                [kind |-> "none", id |-> None, pc |-> "new", target |-> None,
                 seen |-> Unasked, work |-> "none", res |-> "none"]]
    /\ node = [r \in Runners |-> [up |-> TRUE, draining |-> FALSE, sess |-> {}]]
    /\ faults = 0

CanFail(f) == f \in Faults /\ faults < MaxFaults
Failing(b) == faults' = IF b THEN faults + 1 ELSE faults

Arrives(q) == req[q].pc = "new" /\ \A p \in 1..(q - 1) : req[p].pc # "new"
Set(q, rec) == req' = [req EXCEPT ![q] = rec]
Done(q, res) ==
    [req[q] EXCEPT !.pc = "done", !.res = res, !.seen = Unasked,
                   !.work = IF @ \in Reply THEN "none" ELSE @]

-----------------------------------------------------------------------------
(* create_session and readyz: refresh_runners, then dispatch.                 *)

Acked(i) == \E q \in Reqs : req[q].kind = "create" /\ req[q].id = i /\ req[q].res = "ok"

(* With a token every create has an id of its own.                            *)
Create(q, i) ==
    /\ Arrives(q)
    /\ Auth => \A p \in Reqs : req[p].id # i
    /\ Set(q, [req[q] EXCEPT !.kind = "create", !.id = i, !.pc = "fetch"])
    /\ UNCHANGED <<known, affinity, node, faults>>

Readyz(q) ==
    /\ Arrives(q)
    /\ Set(q, [req[q] EXCEPT !.kind = "ready", !.pc = "fetch"])
    /\ UNCHANGED <<known, affinity, node, faults>>

Fetched(q) == req[q].pc = "fetch" /\ \A r \in Runners : req[q].seen[r] # "unasked"

(* accepts_new_sessions, of a runner that is healthy once it is ready.        *)
Accepts(r) ==
    /\ ~node[r].draining
    /\ Cardinality({q \in Reqs : req[q].target = r /\ req[q].work = "restoring"}) < RestoreSlots

(* What the snapshot request to a runner may give.                            *)
Snapshots(r) ==
    (IF ~node[r].up THEN {} ELSE IF Accepts(r) THEN {"free"} ELSE {"full"}) \cup
    (IF ~node[r].up \/ CanFail("flap") THEN {"failed"} ELSE {})

(* The fetches of one refresh, without the lock.                              *)
Fetch(q) ==
    /\ req[q].pc = "fetch" /\ ~Fetched(q)
    /\ \E s \in {f \in [Runners -> {"failed", "free", "full"}] :
                    \A r \in Runners : f[r] \in Snapshots(r)} :
          /\ Set(q, [req[q] EXCEPT !.seen = s])
          /\ Failing(\E r \in Runners : node[r].up /\ s[r] = "failed")
    /\ UNCHANGED <<known, affinity, node>>

DiscoveryFails(q) ==
    /\ req[q].pc = "fetch" /\ CanFail("dns")
    /\ Set(q, Done(q, "error")) /\ Failing(TRUE)
    /\ UNCHANGED <<known, affinity, node>>

Refreshed(q) ==
    Set(q, [req[q] EXCEPT !.seen = Unasked,
                          !.pc = IF req[q].kind = "ready" THEN "done" ELSE "pick",
                          !.res = IF req[q].kind = "ready" THEN "ok" ELSE @])

(* Mutant of Refresh: the affinity of an undiscovered runner goes with it.    *)
RefreshForgets(q) ==
    /\ Fetched(q)
    /\ known' = [r \in Runners |-> IF req[q].seen[r] = "failed" THEN "no" ELSE req[q].seen[r]]
    /\ affinity' = [i \in Ids |-> IF affinity[i] # None /\ req[q].seen[affinity[i]] = "failed"
                                  THEN None ELSE affinity[i]]
    /\ Refreshed(q)
    /\ UNCHANGED <<node, faults>>

(* The end of refresh_runners, under the lock: undiscovered runners go.       *)
Refresh(q) ==
    /\ Fetched(q)
    /\ known' = [r \in Runners |-> IF req[q].seen[r] = "failed" THEN "no" ELSE req[q].seen[r]]
    /\ Refreshed(q)
    /\ UNCHANGED <<affinity, node, faults>>

Send(q, r) == Set(q, [req[q] EXCEPT !.pc = "sent", !.target = r, !.work = "queued"])

Known(a) == a # None /\ known[a] # "no"

(* Dispatcher::dispatch: the affinity if its runner is known; else it is      *)
(* dropped and an accepting runner chosen (by any of compare_runner_priority's *)
(* orders, as the loads are not modelled), or the create refused.             *)
Dispatch(q) ==
    LET i == req[q].id  a == affinity[i] IN
    /\ req[q].pc = "pick"
    /\ \/ Known(a) /\ Send(q, a) /\ UNCHANGED affinity
       \/ /\ ~Known(a)
          /\ \/ \E r \in Runners :
                   known[r] = "free" /\ Send(q, r) /\ affinity' = [affinity EXCEPT ![i] = r]
             \/ /\ \A r \in Runners : known[r] # "free"
                /\ Set(q, Done(q, "error"))
                /\ affinity' = [affinity EXCEPT ![i] = None]
    /\ UNCHANGED <<known, node, faults>>

-----------------------------------------------------------------------------
(* The requests for an existing session.                                      *)

(* runner_url_for_existing_session.  A client uses a session once it has its  *)
(* 201, which is where it learns a minted id.                                 *)
LookUp(q, kind, i) ==
    LET a == affinity[i] IN
    /\ Arrives(q)
    /\ Acked(i)
    /\ Set(q, IF Known(a)
              THEN [req[q] EXCEPT !.kind = kind, !.id = i, !.pc = "sent",
                                  !.target = a, !.work = "queued"]
              ELSE [Done(q, "error") EXCEPT !.kind = kind, !.id = i])
    /\ UNCHANGED <<known, affinity, node, faults>>

(* Mutant of Releases: a failed create keeps its affinity.                    *)
ReleasesLess(kind, reply) ==
    \/ kind \in {"close", "delete"} /\ reply = "ok"
    \/ kind \in {"op", "close"} /\ reply = "404"

(* Whether the handler goes on to release the affinity: a create that failed, *)
(* a session that was closed, a POST for a session the runner does not have.  *)
(* A DELETE that is answered 404 does not.                                    *)
Releases(kind, reply) ==
    \/ kind = "create" /\ reply # "ok"
    \/ kind \in {"close", "delete"} /\ reply = "ok"
    \/ kind \in {"op", "close"} /\ reply = "404"

Continue(q, reply) ==
    /\ Set(q, [req[q] EXCEPT !.work = IF @ \in Reply THEN "none" ELSE @,
                             !.pc = IF Releases(req[q].kind, reply) THEN "release" ELSE "done",
                             !.res = IF reply = "ok" THEN "ok" ELSE "error"])
    /\ UNCHANGED <<known, affinity, node, faults>>

Answer(q) == req[q].pc = "sent" /\ req[q].work \in Reply /\ Continue(q, req[q].work)

(* Mutant of TimesOut: a create has no timeout.                               *)
TimesOutUnlessCreate(q) ==
    req[q].pc = "sent" /\ req[q].kind # "create" /\ "late" \in Faults /\ Continue(q, "error")

(* The client's timeout, or a broken connection: what it asked for goes on.   *)
TimesOut(q) == req[q].pc = "sent" /\ "late" \in Faults /\ Continue(q, "error")

(* release_session, in its own critical section.                              *)
Release(q) ==
    /\ req[q].pc = "release"
    /\ affinity' = [affinity EXCEPT ![req[q].id] = None]
    /\ Set(q, [req[q] EXCEPT !.pc = "done"])
    /\ UNCHANGED <<known, node, faults>>

ClientGone(q) ==
    /\ req[q].pc \in {"fetch", "pick", "sent", "release"} /\ CanFail("gone")
    /\ Set(q, Done(q, "gone")) /\ Failing(TRUE)
    /\ UNCHANGED <<known, affinity, node>>

-----------------------------------------------------------------------------
(* The runners, as far as the dispatcher sees them.                           *)

(* An answer nobody waits for is lost.                                        *)
Work(q, w) ==
    Set(q, [req[q] EXCEPT !.work = IF w \in Reply /\ req[q].pc # "sent" THEN "none" ELSE w])
Refused == IF CanFail("refuse") THEN {TRUE, FALSE} ELSE {FALSE}

(* A request arrives.  A create passes createSession's two checks or is       *)
(* refused; a close takes the session away even when it ends with an error.   *)
Serve(q) ==
    LET r == req[q].target  i == req[q].id  has == i \in node[r].sess IN
    /\ req[q].work = "queued"
    /\ CASE ~node[r].up -> Work(q, "error") /\ UNCHANGED <<node, faults>>
         [] node[r].up /\ req[q].kind = "create" ->
              Work(q, IF node[r].draining \/ has THEN "error" ELSE "restoring")
              /\ UNCHANGED <<node, faults>>
         [] node[r].up /\ req[q].kind # "create" /\ ~has -> Work(q, "404") /\ UNCHANGED <<node, faults>>
         [] node[r].up /\ req[q].kind = "op" /\ has -> Work(q, "ok") /\ UNCHANGED <<node, faults>>
         [] OTHER ->
              /\ \E bad \in Refused : Work(q, IF bad THEN "error" ELSE "ok") /\ Failing(bad)
              /\ node' = [node EXCEPT ![r].sess = @ \ {i}]
    /\ UNCHANGED <<known, affinity>>

(* A restore ends: registry.add refuses an id taken in the meantime.          *)
Restored(q) ==
    LET r == req[q].target  i == req[q].id IN
    /\ req[q].work = "restoring"
    /\ \E bad \in Refused :
          /\ Work(q, IF bad \/ i \in node[r].sess THEN "error" ELSE "ok")
          /\ node' = IF bad THEN node ELSE [node EXCEPT ![r].sess = @ \cup {i}]
          /\ Failing(bad)
    /\ UNCHANGED <<known, affinity>>

(* The sessions die with the process, and its connections break.              *)
Crash(r) ==
    /\ node[r].up /\ CanFail("crash") /\ Failing(TRUE)
    /\ node' = [node EXCEPT ![r] = [@ EXCEPT !.up = FALSE, !.draining = FALSE, !.sess = {}]]
    /\ req' = [q \in Reqs |->
                 IF req[q].target = r /\ req[q].work \in {"queued", "restoring"}
                 THEN [req[q] EXCEPT !.work = IF req[q].pc = "sent" THEN "error" ELSE "none"]
                 ELSE req[q]]
    /\ UNCHANGED <<known, affinity>>

Restart(r) ==
    /\ ~node[r].up
    /\ node' = [node EXCEPT ![r].up = TRUE]
    /\ UNCHANGED <<known, affinity, req, faults>>

Drain(r) ==
    /\ node[r].up /\ ~node[r].draining
    /\ node' = [node EXCEPT ![r].draining = TRUE]
    /\ UNCHANGED <<known, affinity, req, faults>>

Forget(r, i) ==
    /\ i \in node[r].sess /\ CanFail("forget") /\ Failing(TRUE)
    /\ node' = [node EXCEPT ![r].sess = @ \ {i}]
    /\ UNCHANGED <<known, affinity, req>>

-----------------------------------------------------------------------------
Next ==
    \/ \E q \in Reqs :
          \/ \E i \in Ids : Create(q, i)
          \/ \E i \in Ids, k \in {"op", "close", "delete"} : LookUp(q, k, i)
          \/ Readyz(q) \/ Fetch(q) \/ DiscoveryFails(q) \/ Refresh(q) \/ Dispatch(q)
          \/ Answer(q) \/ TimesOut(q) \/ Release(q) \/ ClientGone(q)
          \/ Serve(q) \/ Restored(q)
    \/ \E r \in Runners :
          \/ Crash(r) \/ Restart(r) \/ Drain(r)
          \/ \E i \in Ids : Forget(r, i)

(* Every await of a handler ends: reqwest's timeouts bound the upstream ones, *)
(* and the lock is only ever held between two awaits.  Nothing is assumed of  *)
(* a runner.                                                                  *)
Fairness ==
    \A q \in Reqs :
        /\ WF_vars(Fetch(q) \/ DiscoveryFails(q) \/ Refresh(q))
        /\ WF_vars(Dispatch(q))
        /\ WF_vars(Answer(q) \/ TimesOut(q))
        /\ WF_vars(Release(q))

Spec == Init /\ [][Next]_vars /\ Fairness

-----------------------------------------------------------------------------
(* Properties.                                                                *)

(* The routing state, the handlers and the runners keep their types.          *)
TypeOK ==
    /\ known \in [Runners -> {"no", "free", "full"}]
    /\ affinity \in [Ids -> Runners \cup {None}]
    /\ req \in [Reqs -> Req]
    /\ node \in [Runners -> Node]
    /\ faults \in 0..MaxFaults

Ending(i) == \E q \in Reqs : req[q].kind \in {"close", "delete"} /\ req[q].id = i

(* A session whose create was answered 201, that its runner still has and     *)
(* that nobody has asked to close can be routed: its affinity is that runner, *)
(* through snapshot failures, drains, late and lost answers and the handlers  *)
(* of other requests.                                                         *)
Routable ==
    \A q \in Reqs :
        (req[q].kind = "create" /\ req[q].res = "ok" /\ req[q].pc = "done"
            /\ req[q].id \in node[req[q].target].sess /\ ~Ending(req[q].id))
        => affinity[req[q].id] = req[q].target

(* With minted ids, what a request was told is true of the routing state ever *)
(* after: a create that was refused holds no affinity (a retry is free), and  *)
(* a session whose close was acknowledged has none and is on no runner.       *)
AnswersHold ==
    \A q \in Reqs : req[q].pc = "done" =>
        /\ (req[q].kind = "create" /\ req[q].res = "error") => affinity[req[q].id] = None
        /\ (req[q].kind \in {"close", "delete"} /\ req[q].res = "ok") =>
              /\ affinity[req[q].id] = None
              /\ \A r \in Runners : req[q].id \notin node[r].sess

(* A runner that never answers holds no request for ever.                     *)
Answered == \A q \in Reqs : req[q].pc \in {"fetch", "sent"} ~> req[q].pc = "done"

=============================================================================
