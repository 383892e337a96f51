--------------------------- MODULE DispatcherProofs ---------------------------
(* Proofs about Dispatcher, for every set of runners and ids and any number   *)
(* of requests.                                                               *)
EXTENDS Dispatcher, TLAPS

-----------------------------------------------------------------------------
(* Types.                                                                     *)

(* One request changes; its fields but the snapshots it has seen are listed.  *)
Becomes(q, kind, id, pc, target, work, res) ==
    /\ req' \in [Reqs -> Req]
    /\ \A p \in Reqs \ {q} : req'[p] = req[p]
    /\ req'[q].kind = kind /\ req'[q].id = id /\ req'[q].pc = pc
    /\ req'[q].target = target /\ req'[q].work = work /\ req'[q].res = res

(* A reply is taken off the connection.                                       *)
Taken(work) == IF work \in Reply THEN "none" ELSE work

(* What a handler knows of the runners before it has asked for snapshots.     *)
LEMMA UnaskedType == Unasked \in [Runners -> {"unasked", "failed", "free", "full"}]
BY DEF Unasked

(* A reply that has been taken is no longer on its way.                       *)
LEMMA TakenType ==
    ASSUME TypeOK, NEW q \in Reqs
    PROVE  Taken(req[q].work) \in {"none", "queued", "restoring"}
BY DEF TypeOK, Req, Reply, Taken

(* The record of a handler that ends.                                         *)
LEMMA DoneType ==
    ASSUME TypeOK, NEW q \in Reqs, NEW res \in {"ok", "error", "gone"}
    PROVE  /\ Done(q, res) \in Req
           /\ Done(q, res).kind = req[q].kind /\ Done(q, res).id = req[q].id
           /\ Done(q, res).pc = "done" /\ Done(q, res).target = req[q].target
           /\ Done(q, res).work = Taken(req[q].work) /\ Done(q, res).res = res
<1> DEFINE w == Taken(req[q].work)
<1>1. w \in {"none", "queued", "restoring"} BY TakenType
<1>2. Done(q, res) = [req[q] EXCEPT !.pc = "done", !.res = res, !.seen = Unasked, !.work = w]
      BY DEF Done, Taken
<1> HIDE DEF w
<1>3. req[q] \in Req BY DEF TypeOK
<1>4. /\ Done(q, res) \in Req
      /\ Done(q, res).kind = req[q].kind /\ Done(q, res).id = req[q].id
      /\ Done(q, res).pc = "done" /\ Done(q, res).target = req[q].target
      /\ Done(q, res).work = w /\ Done(q, res).res = res
      BY <1>1, <1>2, <1>3, UnaskedType DEF Req
<1> QED BY <1>4 DEF w

(* Replacing one record.                                                      *)
LEMMA SetType ==
    ASSUME TypeOK, NEW q \in Reqs, NEW rec \in Req, Set(q, rec)
    PROVE  /\ req' \in [Reqs -> Req] /\ req'[q] = rec
           /\ \A p \in Reqs \ {q} : req'[p] = req[p]
BY DEF TypeOK, Set

(* create_session takes a request.                                            *)
LEMMA CreateBecomes ==
    ASSUME TypeOK, NEW q \in Reqs, NEW i \in Ids, Create(q, i)
    PROVE  Becomes(q, "create", i, "fetch", req[q].target, req[q].work, req[q].res)
<1> DEFINE rec == [req[q] EXCEPT !.kind = "create", !.id = i, !.pc = "fetch"]
<1>1. req[q] \in Req /\ "create" \in Kind BY DEF TypeOK, Kind
<1>2. /\ rec \in Req /\ rec.kind = "create" /\ rec.id = i /\ rec.pc = "fetch"
      /\ rec.target = req[q].target /\ rec.work = req[q].work /\ rec.res = req[q].res
      BY <1>1 DEF Req
<1>3. Set(q, rec) BY DEF Create
<1> HIDE DEF rec
<1> QED BY <1>2, <1>3, SetType DEF Becomes

(* readyz takes a request.                                                    *)
LEMMA ReadyzBecomes ==
    ASSUME TypeOK, NEW q \in Reqs, Readyz(q)
    PROVE  Becomes(q, "ready", req[q].id, "fetch", req[q].target, req[q].work, req[q].res)
<1> DEFINE rec == [req[q] EXCEPT !.kind = "ready", !.pc = "fetch"]
<1>1. req[q] \in Req /\ "ready" \in Kind BY DEF TypeOK, Kind
<1>2. /\ rec \in Req /\ rec.kind = "ready" /\ rec.id = req[q].id /\ rec.pc = "fetch"
      /\ rec.target = req[q].target /\ rec.work = req[q].work /\ rec.res = req[q].res
      BY <1>1 DEF Req
<1>3. Set(q, rec) BY DEF Readyz
<1> HIDE DEF rec
<1> QED BY <1>2, <1>3, SetType DEF Becomes

(* A handler answers.                                                         *)
LEMMA DoneBecomes ==
    ASSUME TypeOK, NEW q \in Reqs, NEW res \in {"ok", "error", "gone"}, Set(q, Done(q, res))
    PROVE  Becomes(q, req[q].kind, req[q].id, "done", req[q].target, Taken(req[q].work), res)
BY DoneType, SetType DEF Becomes

(* A handler asks the runners for their snapshots.                            *)
LEMMA FetchBecomes ==
    ASSUME TypeOK, NEW q \in Reqs, Fetch(q)
    PROVE  /\ Becomes(q, req[q].kind, req[q].id, req[q].pc, req[q].target, req[q].work, req[q].res)
           /\ faults' \in 0..MaxFaults
<1>1. PICK s \in [Runners -> {"failed", "free", "full"}] :
         /\ \A r \in Runners : s[r] \in Snapshots(r)
         /\ Set(q, [req[q] EXCEPT !.seen = s])
         /\ Failing(\E r \in Runners : node[r].up /\ s[r] = "failed")
      BY DEF Fetch
<1>2. s \in [Runners -> {"unasked", "failed", "free", "full"}]
      OBVIOUS
<1>3. req[q] \in Req BY DEF TypeOK
<1>4. (\E r \in Runners : node[r].up /\ s[r] = "failed") => faults < MaxFaults
      BY <1>1 DEF Snapshots, CanFail
<1>5. faults' \in 0..MaxFaults
      BY <1>1, <1>4, DispatcherAssumption DEF Failing, TypeOK, DispatcherAssumption
<1>6. [req[q] EXCEPT !.seen = s] \in Req
      BY <1>2, <1>3 DEF Req
<1> QED BY <1>1, <1>3, <1>5, <1>6, SetType DEF Becomes, Req

(* The end of refresh_runners.                                                *)
LEMMA RefreshBecomes ==
    ASSUME TypeOK, NEW q \in Reqs, Refreshed(q)
    PROVE  /\ req[q].kind = "ready" =>
                Becomes(q, req[q].kind, req[q].id, "done", req[q].target, req[q].work, "ok")
           /\ req[q].kind # "ready" =>
                Becomes(q, req[q].kind, req[q].id, "pick", req[q].target, req[q].work, req[q].res)
<1>1. req[q] \in Req BY DEF TypeOK
<1>2. CASE req[q].kind = "ready"
  <2> DEFINE rec == [req[q] EXCEPT !.seen = Unasked, !.pc = "done", !.res = "ok"]
  <2>1. /\ rec \in Req /\ rec.kind = req[q].kind /\ rec.id = req[q].id /\ rec.pc = "done"
        /\ rec.target = req[q].target /\ rec.work = req[q].work /\ rec.res = "ok"
        BY <1>1, UnaskedType DEF Req
  <2>2. Set(q, rec) BY <1>2 DEF Refreshed
  <2> HIDE DEF rec
  <2> QED BY <1>2, <2>1, <2>2, SetType DEF Becomes
<1>3. CASE req[q].kind # "ready"
  <2> DEFINE rec == [req[q] EXCEPT !.seen = Unasked, !.pc = "pick", !.res = req[q].res]
  <2>1. /\ rec \in Req /\ rec.kind = req[q].kind /\ rec.id = req[q].id /\ rec.pc = "pick"
        /\ rec.target = req[q].target /\ rec.work = req[q].work /\ rec.res = req[q].res
        BY <1>1, UnaskedType DEF Req
  <2>2. Set(q, rec) BY <1>3 DEF Refreshed
  <2> HIDE DEF rec
  <2> QED BY <1>3, <2>1, <2>2, SetType DEF Becomes
<1> QED BY <1>2, <1>3

(* A handler sends its request to a runner.                                   *)
LEMMA SendBecomes ==
    ASSUME TypeOK, NEW q \in Reqs, NEW r \in Runners, Send(q, r)
    PROVE  Becomes(q, req[q].kind, req[q].id, "sent", r, "queued", req[q].res)
<1> DEFINE rec == [req[q] EXCEPT !.pc = "sent", !.target = r, !.work = "queued"]
<1>1. req[q] \in Req BY DEF TypeOK
<1>2. /\ rec \in Req /\ rec.kind = req[q].kind /\ rec.id = req[q].id /\ rec.pc = "sent"
      /\ rec.target = r /\ rec.work = "queued" /\ rec.res = req[q].res
      BY <1>1 DEF Req
<1>3. Set(q, rec) BY DEF Send
<1> HIDE DEF rec
<1> QED BY <1>2, <1>3, SetType DEF Becomes

(* A handler looks up the runner of its session.                              *)
LEMMA LookUpBecomes ==
    ASSUME TypeOK, NEW q \in Reqs, NEW i \in Ids, NEW k \in {"op", "close", "delete"},
           LookUp(q, k, i)
    PROVE  \/ /\ affinity[i] # None
              /\ Becomes(q, k, i, "sent", affinity[i], "queued", req[q].res)
           \/ Becomes(q, k, i, "done", req[q].target, Taken(req[q].work), "error")
<1>1. req[q] \in Req /\ k \in Kind BY DEF TypeOK, Kind
<1>2. CASE Known(affinity[i])
  <2>1. affinity[i] # None /\ affinity[i] \in Runners
        BY <1>2 DEF Known, TypeOK
  <2>2. Set(q, [req[q] EXCEPT !.kind = k, !.id = i, !.pc = "sent",
                              !.target = affinity[i], !.work = "queued"])
        BY <1>2 DEF LookUp
  <2> DEFINE rec == [req[q] EXCEPT !.kind = k, !.id = i, !.pc = "sent",
                                   !.target = affinity[i], !.work = "queued"]
  <2>3. /\ rec \in Req /\ rec.kind = k /\ rec.id = i /\ rec.pc = "sent"
        /\ rec.target = affinity[i] /\ rec.work = "queued" /\ rec.res = req[q].res
        BY <1>1, <2>1 DEF Req
  <2> HIDE DEF rec
  <2>4. Set(q, rec) BY <2>2 DEF rec
  <2> QED BY <2>1, <2>3, <2>4, SetType DEF Becomes
<1>3. CASE ~Known(affinity[i])
  <2> DEFINE d   == Done(q, "error")
             rec == [d EXCEPT !.kind = k, !.id = i]
  <2>1. Set(q, rec) BY <1>3 DEF LookUp
  <2>2. /\ d \in Req /\ d.pc = "done" /\ d.target = req[q].target
        /\ d.work = Taken(req[q].work) /\ d.res = "error"
        BY DoneType
  <2> HIDE DEF d
  <2>3. /\ rec \in Req /\ rec.kind = k /\ rec.id = i /\ rec.pc = "done"
        /\ rec.target = req[q].target /\ rec.work = Taken(req[q].work) /\ rec.res = "error"
        BY <1>1, <2>2 DEF Req
  <2> HIDE DEF rec
  <2> QED BY <2>1, <2>3, SetType DEF Becomes
<1> QED BY <1>2, <1>3

(* An answer, or a timeout in its place.                                      *)
LEMMA ContinueBecomes ==
    ASSUME TypeOK, NEW q \in Reqs, NEW reply \in Reply, Continue(q, reply)
    PROVE  Becomes(q, req[q].kind, req[q].id,
                   IF Releases(req[q].kind, reply) THEN "release" ELSE "done", req[q].target,
                   Taken(req[q].work), IF reply = "ok" THEN "ok" ELSE "error")
<1> DEFINE w == Taken(req[q].work)
           p == IF Releases(req[q].kind, reply) THEN "release" ELSE "done"
           e == IF reply = "ok" THEN "ok" ELSE "error"
           rec == [req[q] EXCEPT !.work = w, !.pc = p, !.res = e]
<1>1. w \in {"none", "queued", "restoring"} BY TakenType
<1>2. p \in {"release", "done"} /\ e \in {"ok", "error"} OBVIOUS
<1>3. Set(q, rec) BY DEF Continue, Taken
<1>4. req[q] \in Req BY DEF TypeOK
<1> HIDE DEF w, p, e
<1>5. /\ rec \in Req /\ rec.kind = req[q].kind /\ rec.id = req[q].id /\ rec.pc = p
      /\ rec.target = req[q].target /\ rec.work = w /\ rec.res = e
      BY ZenonT(40), <1>1, <1>2, <1>4 DEF Req
<1> HIDE DEF rec
<1>6. Becomes(q, req[q].kind, req[q].id, p, req[q].target, w, e)
      BY <1>3, <1>5, SetType DEF Becomes
<1> QED BY <1>6 DEF w, p, e

(* release_session: the session is forgotten.                                 *)
LEMMA ReleaseBecomes ==
    ASSUME TypeOK, NEW q \in Reqs, Release(q)
    PROVE  Becomes(q, req[q].kind, req[q].id, "done", req[q].target, req[q].work, req[q].res)
BY ZenonT(40) DEF TypeOK, Release, Set, Req, Becomes

(* What a runner makes of a request.                                          *)
LEMMA WorkBecomes ==
    ASSUME TypeOK, NEW q \in Reqs, NEW w \in {"restoring"} \cup Reply, Work(q, w)
    PROVE  Becomes(q, req[q].kind, req[q].id, req[q].pc, req[q].target,
                   IF w \in Reply /\ req[q].pc # "sent" THEN "none" ELSE w, req[q].res)
<1> DEFINE v   == IF w \in Reply /\ req[q].pc # "sent" THEN "none" ELSE w
           rec == [req[q] EXCEPT !.work = v]
<1>1. v \in {"none", "queued", "restoring"} \cup Reply OBVIOUS
<1>2. Set(q, rec) BY DEF Work
<1>3. req[q] \in Req BY DEF TypeOK
<1> HIDE DEF v
<1>4. /\ rec \in Req /\ rec.kind = req[q].kind /\ rec.id = req[q].id /\ rec.pc = req[q].pc
      /\ rec.target = req[q].target /\ rec.work = v /\ rec.res = req[q].res
      BY <1>1, <1>3 DEF Req
<1> HIDE DEF rec
<1>5. Becomes(q, req[q].kind, req[q].id, req[q].pc, req[q].target, v, req[q].res)
      BY <1>2, <1>4, SetType DEF Becomes
<1> QED BY <1>5 DEF v

(* A counted fault stays within its bound.                                    *)
LEMMA FailingType ==
    ASSUME TypeOK, NEW b, Failing(b), b => \E f \in Fault : CanFail(f)
    PROVE  faults' \in 0..MaxFaults
BY DispatcherAssumption DEF TypeOK, DispatcherAssumption, Failing, CanFail

(* Taking a session off a runner.                                             *)
LEMMA DropType ==
    ASSUME TypeOK, NEW r, NEW i, node' = [node EXCEPT ![r].sess = @ \ {i}]
    PROVE  /\ node' \in [Runners -> Node]
           /\ \A x \in Runners : node'[x].sess \subseteq node[x].sess
           /\ r \in Runners => node'[r].sess = node[r].sess \ {i}
<1>1. ASSUME NEW x \in Runners, x # r
      PROVE  node'[x] = node[x]
      BY <1>1 DEF TypeOK
<1>2. CASE r \in Runners
  <2>1. node[r] \in Node BY <1>2 DEF TypeOK
  <2>2. /\ [node[r] EXCEPT !.sess = @ \ {i}] \in Node
        /\ [node[r] EXCEPT !.sess = @ \ {i}].sess = node[r].sess \ {i}
        BY <2>1 DEF Node
  <2>3. node' = [node EXCEPT ![r] = [node[r] EXCEPT !.sess = @ \ {i}]]
        BY DEF TypeOK
  <2> QED BY <1>1, <1>2, <2>2, <2>3 DEF TypeOK
<1>3. CASE r \notin Runners
      BY <1>3 DEF TypeOK
<1> QED BY <1>2, <1>3

(* A runner answers, starts a restore or takes a session away.                *)
LEMMA ServeBecomes ==
    ASSUME TypeOK, NEW q \in Reqs, Serve(q)
    PROVE  /\ req[q].work = "queued" /\ node' \in [Runners -> Node] /\ faults' \in 0..MaxFaults
           /\ \A x \in Runners : node'[x].sess \subseteq node[x].sess
           /\ \E w \in {"restoring"} \cup Reply :
                 /\ Work(q, w)
                 /\ w = "restoring" => req[q].kind = "create"
                 /\ w = "ok" => req[q].kind # "create"
                 /\ w = "404" => req[q].kind # "create" /\ req[q].id \notin node[req[q].target].sess
                 /\ (w = "ok" /\ req[q].kind # "op" /\ req[q].target \in Runners) =>
                       req[q].id \notin node'[req[q].target].sess
<1> DEFINE r == req[q].target  i == req[q].id  has == i \in node[r].sess
<1>1. req[q].work = "queued" BY DEF Serve
<1>2. CASE ~node[r].up
  <2>1. Work(q, "error") /\ UNCHANGED <<node, faults>>
        BY <1>2 DEF Serve
  <2> QED BY <1>1, <2>1 DEF TypeOK, Reply
<1>3. CASE node[r].up /\ req[q].kind = "create"
  <2>1. (Work(q, "error") \/ Work(q, "restoring")) /\ UNCHANGED <<node, faults>>
        BY <1>3 DEF Serve
  <2> QED BY <1>1, <1>3, <2>1 DEF TypeOK, Reply
<1>4. CASE node[r].up /\ req[q].kind # "create" /\ ~has
  <2>1. Work(q, "404") /\ UNCHANGED <<node, faults>>
        BY <1>4 DEF Serve
  <2> QED BY <1>1, <1>4, <2>1 DEF TypeOK, Reply
<1>5. CASE node[r].up /\ req[q].kind = "op" /\ has
  <2>1. Work(q, "ok") /\ UNCHANGED <<node, faults>>
        BY <1>5 DEF Serve
  <2> QED BY <1>1, <1>5, <2>1 DEF TypeOK, Reply
<1>6. CASE node[r].up /\ req[q].kind \notin {"create", "op"} /\ has
  <2>1. /\ \E bad \in Refused : Work(q, IF bad THEN "error" ELSE "ok") /\ Failing(bad)
        /\ node' = [node EXCEPT ![r].sess = @ \ {i}]
        BY <1>6 DEF Serve
  <2>2. PICK bad \in Refused : Work(q, IF bad THEN "error" ELSE "ok") /\ Failing(bad)
        BY <2>1
  <2>3. faults' \in 0..MaxFaults
        BY <2>2, FailingType DEF Refused, Fault
  <2>4. Work(q, "error") \/ Work(q, "ok")
        BY <2>2 DEF Refused
  <2>5. /\ node' \in [Runners -> Node]
        /\ \A x \in Runners : node'[x].sess \subseteq node[x].sess
        /\ r \in Runners => node'[r].sess = node[r].sess \ {i}
        BY <2>1, DropType
  <2> QED BY <1>1, <1>6, <2>3, <2>4, <2>5 DEF Reply
<1> QED BY <1>2, <1>3, <1>4, <1>5, <1>6

-----------------------------------------------------------------------------
(* The requests on their way.                                                 *)

Session == {"op", "close", "delete"}

(* What a request has and has not got at each point of its handler.           *)
ShapeOf(q) ==
    /\ req[q].pc = "new" => req[q].kind = "none"
    /\ req[q].kind = "none" =>
          /\ req[q].id = None /\ req[q].pc = "new" /\ req[q].work = "none"
          /\ req[q].target = None /\ req[q].res = "none"
    /\ req[q].kind = "ready"
           => req[q].id = None /\ req[q].pc \in {"fetch", "done"} /\ req[q].work = "none"
    /\ req[q].kind \in {"create"} \cup Session => req[q].id \in Ids
    /\ req[q].kind \in Session => req[q].pc \notin {"fetch", "pick"}
    /\ req[q].pc \in {"fetch", "pick"} =>
          req[q].target = None /\ req[q].work = "none" /\ req[q].res = "none"
    /\ req[q].pc = "sent" => req[q].res = "none"
    /\ (req[q].pc = "sent" \/ req[q].work # "none") => req[q].target \in Runners
    /\ req[q].work \in Reply => req[q].pc = "sent"
    /\ req[q].work = "restoring" => req[q].kind = "create"
    /\ (req[q].kind = "create" /\ req[q].res = "ok") =>
          req[q].pc = "done" /\ req[q].work = "none" /\ req[q].target \in Runners
    /\ (req[q].kind = "create" /\ req[q].work = "404") => FALSE

Shape == \A q \in Reqs : ShapeOf(q)

(* A restore ends: the session is there, or it was refused.                   *)
LEMMA RestoredBecomes ==
    ASSUME TypeOK, Shape, NEW q \in Reqs, Restored(q)
    PROVE  /\ req[q].work = "restoring" /\ node' \in [Runners -> Node] /\ faults' \in 0..MaxFaults
           /\ \E w \in {"ok", "error"} : Work(q, w)
           /\ \/ node' = node
              \/ /\ \A x \in Runners \ {req[q].target} : node'[x].sess = node[x].sess
                 /\ node'[req[q].target].sess = node[req[q].target].sess \cup {req[q].id}
<1> DEFINE r == req[q].target  i == req[q].id
<1>1. PICK bad \in Refused :
         /\ Work(q, IF bad \/ i \in node[r].sess THEN "error" ELSE "ok")
         /\ node' = IF bad THEN node ELSE [node EXCEPT ![r].sess = @ \cup {i}]
         /\ Failing(bad)
      BY DEF Restored
<1>2. req[q].work = "restoring" /\ i \in Ids /\ r \in Runners
      BY DEF Restored, Shape, ShapeOf
<1>3. faults' \in 0..MaxFaults
      BY <1>1, FailingType DEF Refused, Fault
<1>4. \E w \in {"ok", "error"} : Work(q, w)
      BY <1>1
<1>5. CASE bad
      BY <1>1, <1>2, <1>3, <1>4, <1>5 DEF TypeOK
<1>6. CASE ~bad
  <2>1. node[r] \in Node BY <1>2 DEF TypeOK
  <2> DEFINE n == [node[r] EXCEPT !.sess = @ \cup {i}]
  <2>2. n \in Node /\ n.sess = node[r].sess \cup {i}
        BY <1>2, <2>1 DEF Node
  <2>3. node' = [node EXCEPT ![r] = n]
        BY <1>1, <1>6 DEF TypeOK
  <2> HIDE DEF n
  <2>4. /\ node' \in [Runners -> Node] /\ node'[r].sess = node[r].sess \cup {i}
        /\ \A x \in Runners \ {r} : node'[x].sess = node[x].sess
        BY <1>2, <2>2, <2>3 DEF TypeOK
  <2> QED BY <1>2, <1>3, <1>4, <2>4
<1> QED BY <1>5, <1>6

(* A crash takes the sessions and the connections of a runner.                *)
LEMMA CrashBecomes ==
    ASSUME TypeOK, NEW r \in Runners, Crash(r)
    PROVE  /\ req' \in [Reqs -> Req] /\ node' \in [Runners -> Node] /\ faults' \in 0..MaxFaults
           /\ \A x \in Runners : node'[x].sess \subseteq node[x].sess
           /\ \A q \in Reqs :
                 \/ req'[q] = req[q]
                 \/ /\ req'[q].kind = req[q].kind /\ req'[q].id = req[q].id
                    /\ req'[q].pc = req[q].pc /\ req'[q].target = req[q].target
                    /\ req'[q].res = req[q].res /\ req[q].work \in {"queued", "restoring"}
                    /\ req'[q].work = IF req[q].pc = "sent" THEN "error" ELSE "none"
<1>1. faults' \in 0..MaxFaults
      BY DispatcherAssumption DEF TypeOK, DispatcherAssumption, Crash, Failing, CanFail
<1>2. node' \in [Runners -> Node] /\ \A x \in Runners : node'[x].sess \subseteq node[x].sess
  <2> DEFINE n == [node[r] EXCEPT !.up = FALSE, !.draining = FALSE, !.sess = {}]
  <2>1. node' = [node EXCEPT ![r] = n] BY DEF Crash
  <2>2. node[r] \in Node BY DEF TypeOK
  <2>3. n \in Node /\ n.sess = {} BY <2>2 DEF Node
  <2> HIDE DEF n
  <2> QED BY <2>1, <2>3 DEF TypeOK
<1>3. ASSUME NEW q \in Reqs
      PROVE  /\ req'[q] \in Req
             /\ \/ req'[q] = req[q]
                \/ /\ req'[q].kind = req[q].kind /\ req'[q].id = req[q].id
                   /\ req'[q].pc = req[q].pc /\ req'[q].target = req[q].target
                   /\ req'[q].res = req[q].res /\ req[q].work \in {"queued", "restoring"}
                   /\ req'[q].work = IF req[q].pc = "sent" THEN "error" ELSE "none"
  <2> DEFINE w == IF req[q].pc = "sent" THEN "error" ELSE "none"
  <2>1. \/ req'[q] = req[q]
        \/ req'[q] = [req[q] EXCEPT !.work = w] /\ req[q].work \in {"queued", "restoring"}
        BY DEF Crash
  <2>2. req[q] \in Req BY DEF TypeOK
  <2>3. w \in {"none"} \cup Reply BY DEF Reply
  <2> HIDE DEF w
  <2>4. \/ req'[q] = req[q]
        \/ /\ req'[q] \in Req
           /\ req'[q].kind = req[q].kind /\ req'[q].id = req[q].id
           /\ req'[q].pc = req[q].pc /\ req'[q].target = req[q].target
           /\ req'[q].res = req[q].res /\ req[q].work \in {"queued", "restoring"}
           /\ req'[q].work = w
        BY <2>1, <2>2, <2>3 DEF Req
  <2> QED BY <2>2, <2>4 DEF w
<1>4. req' \in [Reqs -> Req]
  <2>1. \E f : req' = [q \in Reqs |-> f[q]]
    <3> DEFINE g == [q \in Reqs |->
                       IF req[q].target = r /\ req[q].work \in {"queued", "restoring"}
                       THEN [req[q] EXCEPT !.work = IF req[q].pc = "sent" THEN "error" ELSE "none"]
                       ELSE req[q]]
    <3>1. req' = g BY DEF Crash
    <3>2. g = [q \in Reqs |-> g[q]] OBVIOUS
    <3> QED BY <3>1, <3>2
  <2> QED BY <1>3, <2>1
<1> QED BY <1>1, <1>2, <1>3, <1>4

-----------------------------------------------------------------------------
(* Routing.  With minted ids the request that created a session is known by   *)
(* its id, and everything else about the session goes back to it.             *)

Creates(q, i) == req[q].kind = "create" /\ req[q].id = i
OneCreate == \A i \in Ids : \A p, q \in Reqs : Creates(p, i) /\ Creates(q, i) => p = q

(* A client uses a session it was told of.                                    *)
Asked == \A q \in Reqs : req[q].kind \in Session => Acked(req[q].id)

(* An affinity and a session are where the create was sent.                   *)
Placed ==
    \A i \in Ids : affinity[i] # None =>
        \E q \in Reqs : Creates(q, i) /\ req[q].target = affinity[i]
Hosted ==
    \A r \in Runners : \A i \in node[r].sess :
        \E q \in Reqs : /\ Creates(q, i) /\ req[q].target = r
                        /\ req[q].work \notin {"queued", "restoring"}

(* A create that is under way has its affinity, and a request that was routed *)
(* went where the create did.                                                 *)
Held ==
    \A q \in Reqs : (req[q].kind = "create" /\ req[q].pc = "sent") =>
        affinity[req[q].id] = req[q].target
Followed ==
    \A q \in Reqs : (req[q].kind \in Session /\ req[q].target # None) =>
        \E p \in Reqs : Creates(p, req[q].id) /\ req[p].target = req[q].target

(* A request that found no session, or took it away, and the release that     *)
(* follows: the session is on no runner, and will be on none.                 *)
Over(q) ==
    \/ req[q].kind \in Session /\ (req[q].work = "404" \/ req[q].pc = "release")
    \/ /\ req[q].kind \in {"close", "delete"}
       /\ req[q].work = "ok" \/ (req[q].pc = "done" /\ req[q].res = "ok")
Absent(i) == \A r \in Runners : i \notin node[r].sess
Lost == \A q \in Reqs : Over(q) => Absent(req[q].id)

RouteInv ==
    /\ OneCreate /\ Asked /\ Placed /\ Hosted /\ Held /\ Followed /\ Lost
    /\ Routable /\ AnswersHold

(* A step of a request that is neither sent nor routed by it, and that brings *)
(* no session: what the invariant says of it already was so.                  *)
Onward(q) ==
    /\ \/ /\ req'[q].kind = req[q].kind /\ req'[q].id = req[q].id
          /\ req'[q].target = req[q].target
       \/ req[q].kind = "none" /\ req'[q].kind = "ready"
    /\ (req[q].kind = "create" /\ req[q].res = "ok") => req'[q].res = "ok"
    /\ req'[q].pc = "sent" => req[q].pc = "sent"
    /\ req'[q].work \in {"queued", "restoring"} => req[q].work \in {"queued", "restoring"}
    /\ Over(q)' => Over(q) \/ Absent(req[q].id)'
    /\ (req'[q].kind = "create" /\ req'[q].res = "ok" /\ req'[q].pc = "done") =>
          (req[q].res = "ok" /\ req[q].pc = "done") \/ req[q].pc = "sent"
    /\ (req'[q].kind = "create" /\ req'[q].res = "error" /\ req'[q].pc = "done") =>
          (req[q].res = "error" /\ req[q].pc = "done") \/ affinity[req[q].id] = None
    /\ (req'[q].kind \in {"close", "delete"} /\ req'[q].res = "ok" /\ req'[q].pc = "done") =>
          req[q].res = "ok" /\ req[q].pc = "done"

Steady ==
    /\ affinity' = affinity
    /\ \A r \in Runners : node'[r].sess \subseteq node[r].sess
    /\ \A q \in Reqs : Onward(q)

(* A request that was not touched.                                            *)
LEMMA Untouched ==
    ASSUME NEW q \in Reqs, req'[q] = req[q]
    PROVE  Onward(q) /\ (ShapeOf(q) => ShapeOf(q)')
BY DEF Onward, Over, ShapeOf

(* A step of one request.                                                     *)
LEMMA SteadyOne ==
    ASSUME Shape, NEW q \in Reqs, affinity' = affinity,
           \A r \in Runners : node'[r].sess \subseteq node[r].sess,
           \A p \in Reqs \ {q} : req'[p] = req[p], ShapeOf(q)', Onward(q)
    PROVE  Shape' /\ Steady
<1>1. \A p \in Reqs : Onward(p) /\ ShapeOf(p)'
      BY Untouched DEF Shape
<1> QED BY <1>1 DEF Shape, Steady

(* Steps that a runner takes alone.                                           *)
LEMMA SteadyNone ==
    ASSUME Shape, affinity' = affinity, req' = req,
           \A r \in Runners : node'[r].sess \subseteq node[r].sess
    PROVE  Shape' /\ Steady
BY Untouched DEF Shape, Steady

(* With its create still unsent, an id has no affinity.                       *)
LEMMA UnsentUnplaced ==
    ASSUME TypeOK, RouteInv, NEW q \in Reqs, req[q].kind = "create", req[q].id \in Ids,
           req[q].target = None
    PROVE  affinity[req[q].id] = None
BY DEF RouteInv, OneCreate, Placed, Creates

(* A session that some request is for: its create was answered, so no restore *)
(* of it is under way.                                                        *)
LEMMA AskedSettled ==
    ASSUME Shape, RouteInv, NEW q \in Reqs, req[q].kind \in Session, NEW p \in Reqs,
           Creates(p, req[q].id)
    PROVE  req[p].res = "ok" /\ req[p].pc = "done" /\ req[p].work = "none"
<1>1. req[q].id \in Ids BY DEF Shape, ShapeOf
<1>2. PICK c \in Reqs : Creates(c, req[q].id) /\ req[c].res = "ok"
      BY DEF RouteInv, Asked, Acked, Creates
<1>3. c = p BY <1>1, <1>2 DEF RouteInv, OneCreate
<1> QED BY <1>2, <1>3 DEF Shape, ShapeOf, Creates

(* A session that is not on the runner its requests go to is on none.         *)
LEMMA AbsentThere ==
    ASSUME TypeOK, Shape, RouteInv, NEW q \in Reqs, req[q].kind \in Session,
           req[q].target \in Runners, req[q].id \notin node[req[q].target].sess
    PROVE  Absent(req[q].id)
<1>1. req[q].id \in Ids BY DEF Shape, ShapeOf
<1>2. PICK p \in Reqs : Creates(p, req[q].id) /\ req[p].target = req[q].target
      BY DispatcherAssumption DEF DispatcherAssumption, RouteInv, Followed
<1> QED BY <1>1, <1>2 DEF Absent, RouteInv, Hosted, OneCreate

(* The invariant through a steady step.                                       *)
LEMMA SteadyKeeps ==
    ASSUME TypeOK, Shape, RouteInv, Steady, Shape'
    PROVE  RouteInv'
<1>1. /\ affinity' = affinity
      /\ \A r \in Runners : node'[r].sess \subseteq node[r].sess
      /\ \A q \in Reqs : Onward(q)
      BY DEF Steady
<1>2. \A i, q : q \in Reqs => (Creates(q, i) <=> Creates(q, i)')
      BY <1>1 DEF Onward, Creates
<1>3. \A q \in Reqs : req'[q].kind \in {"create"} \cup Session =>
          req'[q].kind = req[q].kind /\ req'[q].id = req[q].id /\ req'[q].target = req[q].target
      BY <1>1 DEF Onward, Session
<1>4. \A q \in Reqs : req[q].kind \in {"create"} \cup Session =>
          req'[q].kind = req[q].kind /\ req'[q].id = req[q].id /\ req'[q].target = req[q].target
      BY <1>1 DEF Onward, Session
<1>5. \A i : (Acked(i) => Acked(i)') /\ (Absent(i) => Absent(i)')
      BY <1>1, <1>4 DEF Acked, Absent, Onward
<1>6. OneCreate'
      BY <1>2 DEF RouteInv, OneCreate
<1>7. Asked'
      BY <1>3, <1>5 DEF RouteInv, Asked, Session
<1>8. Placed'
  <2> SUFFICES ASSUME NEW i \in Ids, affinity'[i] # None
               PROVE  \E q \in Reqs : Creates(q, i)' /\ req'[q].target = affinity'[i]
      BY DEF Placed
  <2>1. PICK q \in Reqs : Creates(q, i) /\ req[q].target = affinity[i]
        BY <1>1 DEF RouteInv, Placed
  <2> QED BY <1>1, <1>2, <1>4, <2>1 DEF Creates
<1>9. Hosted'
  <2> SUFFICES ASSUME NEW r \in Runners, NEW i \in node'[r].sess
               PROVE  \E q \in Reqs : /\ Creates(q, i)' /\ req'[q].target = r
                                      /\ req'[q].work \notin {"queued", "restoring"}
      BY DEF Hosted
  <2>1. PICK q \in Reqs : /\ Creates(q, i) /\ req[q].target = r
                          /\ req[q].work \notin {"queued", "restoring"}
        BY <1>1 DEF RouteInv, Hosted
  <2>2. req'[q].work \notin {"queued", "restoring"}
        BY <1>1, <2>1 DEF Onward
  <2> QED BY <1>2, <1>4, <2>1, <2>2 DEF Creates
<1>10. Held'
      BY <1>1, <1>3 DEF RouteInv, Held, Onward
<1>11. Followed'
  <2> SUFFICES ASSUME NEW q \in Reqs, req'[q].kind \in Session, req'[q].target # None
               PROVE  \E p \in Reqs : Creates(p, req[q].id)' /\ req'[p].target = req'[q].target
      BY DEF Followed
  <2>1. req[q].kind \in Session /\ req'[q].id = req[q].id /\ req'[q].target = req[q].target
        BY <1>3
  <2>2. PICK p \in Reqs : Creates(p, req[q].id) /\ req[p].target = req[q].target
        BY <2>1 DEF RouteInv, Followed
  <2>3. req'[p].target = req[p].target /\ req'[p].kind = "create" /\ req'[p].id = req[q].id
        BY <1>4, <2>2 DEF Creates
  <2> QED BY <2>1, <2>2, <2>3 DEF Creates
<1>12. Lost'
  <2> SUFFICES ASSUME NEW q \in Reqs, Over(q)'
               PROVE  Absent(req[q].id)'
      BY DEF Lost
  <2>1. req'[q].id = req[q].id
        BY <1>3 DEF Over, Session
  <2>2. Over(q) \/ Absent(req[q].id)'
        BY <1>1 DEF Onward
  <2> QED BY <1>1, <2>1, <2>2 DEF RouteInv, Lost, Absent
<1>13. Routable'
  <2> SUFFICES ASSUME NEW q \in Reqs, req'[q].kind = "create", req'[q].res = "ok",
                      req'[q].pc = "done",
                      req'[q].id \in node'[req'[q].target].sess, ~Ending(req[q].id)'
               PROVE  affinity'[req'[q].id] = req'[q].target
      BY DEF Routable
  <2>1. req[q].kind = "create" /\ req'[q].id = req[q].id /\ req'[q].target = req[q].target
        BY <1>3
  <2>2. CASE req[q].pc = "sent"
        BY <1>1, <2>1, <2>2 DEF RouteInv, Held
  <2>3. CASE req[q].res = "ok" /\ req[q].pc = "done"
    <3>1. req[q].target \in Runners
          BY <2>1, <2>3 DEF Shape, ShapeOf
    <3>2. req[q].id \in node[req[q].target].sess
          BY <1>1, <2>1, <3>1
    <3>3. ~Ending(req[q].id)
      <4>1. SUFFICES ASSUME NEW p \in Reqs, req[p].kind \in {"close", "delete"},
                            req[p].id = req[q].id
                     PROVE  FALSE
            BY DEF Ending
      <4>2. req'[p].kind = req[p].kind /\ req'[p].id = req'[q].id
            BY <1>4, <2>1, <4>1 DEF Session
      <4> QED BY <4>1, <4>2 DEF Ending
    <3> QED BY <1>1, <2>1, <2>3, <3>2, <3>3 DEF RouteInv, Routable
  <2> QED BY <1>1, <2>1, <2>2, <2>3 DEF Onward
<1>14. AnswersHold'
  <2> SUFFICES ASSUME NEW q \in Reqs, req'[q].pc = "done"
               PROVE  /\ (req'[q].kind = "create" /\ req'[q].res = "error")
                             => affinity'[req'[q].id] = None
                      /\ (req'[q].kind \in {"close", "delete"} /\ req'[q].res = "ok") =>
                            /\ affinity'[req'[q].id] = None
                            /\ \A r \in Runners : req'[q].id \notin node'[r].sess
      BY DEF AnswersHold
  <2>1. CASE req'[q].kind = "create" /\ req'[q].res = "error"
    <3>1. req[q].kind = "create" /\ req'[q].id = req[q].id
          BY <1>3, <2>1
    <3>2. (req[q].res = "error" /\ req[q].pc = "done") \/ affinity[req[q].id] = None
          BY <1>1, <2>1 DEF Onward
    <3> QED BY <1>1, <2>1, <3>1, <3>2 DEF RouteInv, AnswersHold
  <2>2. CASE req'[q].kind \in {"close", "delete"} /\ req'[q].res = "ok"
    <3>1. req[q].kind \in {"close", "delete"} /\ req'[q].id = req[q].id
          BY <1>3, <2>2 DEF Session
    <3>2. req[q].res = "ok" /\ req[q].pc = "done"
          BY <1>1, <2>2 DEF Onward
    <3> QED BY <1>1, <2>2, <3>1, <3>2 DEF RouteInv, AnswersHold
  <2> QED BY <2>1, <2>2
<1> QED BY <1>6, <1>7, <1>8, <1>9, <1>10, <1>11, <1>12, <1>13, <1>14 DEF RouteInv

(* The steps of a handler that route nothing.                                 *)
LEMMA TypeShapeSteady ==
    ASSUME TypeOK, Shape, RouteInv, NEW q \in Reqs,
           \/ Readyz(q) \/ Fetch(q) \/ DiscoveryFails(q) \/ Refresh(q)
           \/ Answer(q) \/ TimesOut(q) \/ ClientGone(q) \/ Serve(q)
    PROVE  TypeOK' /\ Shape' /\ Steady
<1>1. ShapeOf(q) BY DEF Shape
<1>2. CASE Readyz(q)
  <2>1. /\ Becomes(q, "ready", req[q].id, "fetch", req[q].target, req[q].work, req[q].res)
        /\ req[q].pc = "new" /\ UNCHANGED <<known, affinity, node, faults>>
        BY <1>2, ReadyzBecomes DEF Readyz, Arrives
  <2>2. ShapeOf(q)'
        BY <1>1, <2>1 DEF Becomes, ShapeOf, Session, Reply
  <2>3. Onward(q)
        BY <1>1, <2>1 DEF Becomes, ShapeOf, Onward, Over, Session
  <2> QED BY <2>1, <2>2, <2>3, SteadyOne DEF Becomes, TypeOK
<1>3. CASE Fetch(q)
  <2>1. /\ Becomes(q, req[q].kind, req[q].id, req[q].pc, req[q].target, req[q].work, req[q].res)
        /\ faults' \in 0..MaxFaults /\ UNCHANGED <<known, affinity, node>>
        BY <1>3, FetchBecomes DEF Fetch
  <2>2. ShapeOf(q)'
        BY <1>1, <2>1 DEF Becomes, ShapeOf
  <2>3. Onward(q)
        BY <2>1 DEF Becomes, Onward, Over
  <2> QED BY <2>1, <2>2, <2>3, SteadyOne DEF Becomes, TypeOK
<1>4. CASE DiscoveryFails(q)
  <2>1. /\ Becomes(q, req[q].kind, req[q].id, "done", req[q].target, Taken(req[q].work), "error")
        /\ req[q].pc = "fetch" /\ UNCHANGED <<known, affinity, node>>
        BY <1>4, DoneBecomes DEF DiscoveryFails
  <2>2. faults' \in 0..MaxFaults
        BY <1>4, DispatcherAssumption DEF TypeOK, DispatcherAssumption, DiscoveryFails, Failing,
           CanFail
  <2>3. Taken(req[q].work) = "none" /\ req[q].kind \notin Session /\ req[q].target = None
        BY <1>1, <2>1 DEF ShapeOf, Taken, Reply
  <2>4. ShapeOf(q)'
        BY <1>1, <2>1, <2>3 DEF Becomes, ShapeOf, Reply
  <2>5. req[q].kind = "create" => affinity[req[q].id] = None
        BY <1>1, <2>3, UnsentUnplaced DEF ShapeOf
  <2>6. Onward(q)
        BY <1>1, <2>1, <2>3, <2>5 DEF Becomes, ShapeOf, Onward, Over, Session
  <2> QED BY <2>1, <2>2, <2>4, <2>6, SteadyOne DEF Becomes, TypeOK
<1>5. CASE Refresh(q)
  <2>1. /\ req[q].pc = "fetch" /\ UNCHANGED <<affinity, node, faults>> /\ Refreshed(q)
        /\ req[q].kind \notin Session
        BY <1>1, <1>5 DEF Refresh, Fetched, ShapeOf
  <2>2. known' \in [Runners -> {"no", "free", "full"}]
    <3>1. req[q].seen \in [Runners -> {"unasked", "failed", "free", "full"}]
          BY DEF TypeOK, Req
    <3>2. \A r \in Runners : req[q].seen[r] \in {"failed", "free", "full"}
          BY <1>5, <3>1 DEF Refresh, Fetched
    <3> QED BY <1>5, <3>2 DEF Refresh
  <2>3. \/ Becomes(q, "ready", req[q].id, "done", req[q].target, req[q].work, "ok")
           /\ req[q].kind = "ready"
        \/ Becomes(q, req[q].kind, req[q].id, "pick", req[q].target, req[q].work, req[q].res)
           /\ req[q].kind # "ready"
        BY <2>1, RefreshBecomes
  <2>4. ShapeOf(q)'
        BY <1>1, <2>1, <2>3 DEF Becomes, ShapeOf, Reply, Session
  <2>5. Onward(q)
        BY <1>1, <2>1, <2>3 DEF Becomes, ShapeOf, Onward, Over, Session
  <2> QED BY <2>1, <2>2, <2>3, <2>4, <2>5, SteadyOne DEF Becomes, TypeOK
<1>6. ASSUME req[q].pc = "sent", NEW reply \in Reply, Continue(q, reply),
             reply = "error" \/ reply = req[q].work
      PROVE  TypeOK' /\ Shape' /\ Steady
  <2> DEFINE p == IF Releases(req[q].kind, reply) THEN "release" ELSE "done"
             e == IF reply = "ok" THEN "ok" ELSE "error"
  <2>1. /\ Becomes(q, req[q].kind, req[q].id, p, req[q].target, Taken(req[q].work), e)
        /\ UNCHANGED <<known, affinity, node, faults>>
        BY <1>6, ContinueBecomes DEF Continue
  <2>2. Taken(req[q].work) \notin Reply
        /\ (Taken(req[q].work) # "none" => Taken(req[q].work) = req[q].work)
        BY DEF Taken, Reply
  <2>3. req[q].kind \in {"create"} \cup Session
        BY <1>1, <1>6 DEF ShapeOf, TypeOK, Req, Kind, Session
  <2>4. req[q].kind = "create" => (p = "done" <=> e = "ok")
        BY DEF Releases, Reply
  <2>5. req[q].kind \in Session =>
          (p = "release" <=> (req[q].kind \in {"close", "delete"} /\ reply = "ok")
                             \/ (req[q].kind \in {"op", "close"} /\ reply = "404"))
        BY DEF Releases, Session, Reply
  <2>6. p \in {"release", "done"} /\ e \in {"ok", "error"} /\ (e = "ok" <=> reply = "ok")
        OBVIOUS
  <2>7. req[q].res = "none" /\ req[q].target \in Runners /\ req[q].id \in Ids
        BY <1>1, <1>6, <2>3 DEF ShapeOf
  <2> HIDE DEF p, e
  <2>8. req[q].kind = "create" /\ e = "ok" => Taken(req[q].work) = "none"
        BY <1>6, <2>6 DEF Taken, Reply
  <2>9. ShapeOf(q)'
        BY <1>1, <1>6, <2>1, <2>2, <2>3, <2>4, <2>6, <2>7, <2>8 DEF Becomes, ShapeOf, Session
  <2>10. Over(q)' => Over(q)
        BY <1>6, <2>1, <2>2, <2>5, <2>6 DEF Becomes, Over, Session, Reply
  <2>11. Onward(q)
        BY <1>6, <2>1, <2>2, <2>3, <2>4, <2>5, <2>6, <2>7, <2>10 DEF Becomes, Onward, Session,
           Reply
  <2> QED BY <2>1, <2>9, <2>11, SteadyOne DEF Becomes, TypeOK
<1>7. CASE Answer(q)
      BY <1>6, <1>7 DEF Answer
<1>8. CASE TimesOut(q)
      BY <1>6, <1>8 DEF TimesOut, Reply
<1>9. CASE ClientGone(q)
  <2>1. /\ Becomes(q, req[q].kind, req[q].id, "done", req[q].target, Taken(req[q].work), "gone")
        /\ req[q].pc \in {"fetch", "pick", "sent", "release"} /\ UNCHANGED <<known, affinity, node>>
        BY <1>9, DoneBecomes DEF ClientGone
  <2>2. faults' \in 0..MaxFaults
        BY <1>9, DispatcherAssumption DEF TypeOK, DispatcherAssumption, ClientGone, Failing,
           CanFail
  <2>3. Taken(req[q].work) \notin Reply
        /\ (Taken(req[q].work) # "none" => Taken(req[q].work) = req[q].work)
        BY DEF Taken, Reply
  <2>4. ShapeOf(q)'
        BY <1>1, <2>1, <2>3 DEF Becomes, ShapeOf
  <2>5. Onward(q)
        BY <1>1, <2>1, <2>3 DEF Becomes, ShapeOf, Onward, Over, Reply
  <2> QED BY <2>1, <2>2, <2>4, <2>5, SteadyOne DEF Becomes, TypeOK
<1>10. CASE Serve(q)
  <2>1. /\ req[q].work = "queued" /\ node' \in [Runners -> Node] /\ faults' \in 0..MaxFaults
        /\ \A x \in Runners : node'[x].sess \subseteq node[x].sess
        /\ UNCHANGED <<known, affinity>>
        BY <1>10, ServeBecomes DEF Serve
  <2>2. PICK w \in {"restoring"} \cup Reply :
           /\ Work(q, w)
           /\ w = "restoring" => req[q].kind = "create"
           /\ w = "ok" => req[q].kind # "create"
           /\ w = "404" => req[q].kind # "create" /\ req[q].id \notin node[req[q].target].sess
           /\ (w = "ok" /\ req[q].kind # "op" /\ req[q].target \in Runners) =>
                 req[q].id \notin node'[req[q].target].sess
        BY <1>10, ServeBecomes
  <2> DEFINE v == IF w \in Reply /\ req[q].pc # "sent" THEN "none" ELSE w
  <2>3. Becomes(q, req[q].kind, req[q].id, req[q].pc, req[q].target, v, req[q].res)
        BY <2>2, WorkBecomes
  <2>4. req[q].target \in Runners /\ req[q].kind \in {"create"} \cup Session /\ v # "queued"
        /\ (v # "none" => v = w) /\ (v \in Reply => req[q].pc = "sent")
        BY <1>1, <2>1, <2>2 DEF ShapeOf, TypeOK, Req, Kind, Session, Reply
  <2>5. req[q].kind = "create" => req[q].res # "ok"
        BY <1>1, <2>1 DEF ShapeOf
  <2> HIDE DEF v
  <2>6. ShapeOf(q)'
        BY <1>1, <2>1, <2>2, <2>3, <2>4, <2>5 DEF Becomes, ShapeOf, Reply, Session
  <2>7. Over(q)' => Over(q) \/ Absent(req[q].id)'
    <3>1. CASE w = "404" /\ v = w
      <4>1. Absent(req[q].id)
            BY <2>2, <2>4, <3>1, AbsentThere
      <4> QED BY <2>1, <2>3, <4>1 DEF Absent, Becomes
    <3>2. CASE w = "ok" /\ v = w /\ req[q].kind \in {"close", "delete"}
      <4>1. req[q].id \notin node'[req[q].target].sess
            BY <2>2, <2>4, <3>2
      <4>2. \A x \in Runners \ {req[q].target} : req[q].id \notin node[x].sess
        <5>1. req[q].id \in Ids /\ req[q].target # None
              BY <1>1, <2>4, DispatcherAssumption DEF DispatcherAssumption, ShapeOf
        <5>2. PICK p \in Reqs : Creates(p, req[q].id) /\ req[p].target = req[q].target
              BY <3>2, <5>1 DEF RouteInv, Followed, Session
        <5> QED BY <5>1, <5>2 DEF RouteInv, Hosted, OneCreate
      <4> QED BY <2>1, <2>3, <4>1, <4>2 DEF Absent, Becomes
    <3> QED BY <2>3, <2>4, <3>1, <3>2 DEF Over, Becomes, Reply
  <2>8. Onward(q)
        BY <1>1, <2>1, <2>3, <2>5, <2>7 DEF Becomes, Onward, ShapeOf
  <2> QED BY <2>1, <2>3, <2>6, <2>8, SteadyOne DEF Becomes, TypeOK
<1> QED BY <1>2, <1>3, <1>4, <1>5, <1>7, <1>8, <1>9, <1>10

(* The steps of a runner that bring no session.                               *)
LEMMA RunnerSteady ==
    ASSUME TypeOK, Shape, NEW r \in Runners,
           Crash(r) \/ Restart(r) \/ Drain(r) \/ \E i \in Ids : Forget(r, i)
    PROVE  TypeOK' /\ Shape' /\ Steady
<1>1. CASE Crash(r)
  <2>1. /\ req' \in [Reqs -> Req] /\ node' \in [Runners -> Node] /\ faults' \in 0..MaxFaults
        /\ \A x \in Runners : node'[x].sess \subseteq node[x].sess
        /\ UNCHANGED <<known, affinity>>
        BY <1>1, CrashBecomes DEF Crash
  <2>2. ASSUME NEW q \in Reqs
        PROVE  Onward(q) /\ ShapeOf(q)'
    <3>1. ShapeOf(q) BY DEF Shape
    <3>2. CASE req'[q] = req[q]
          BY <3>1, <3>2, Untouched
    <3>3. CASE /\ req'[q].kind = req[q].kind /\ req'[q].id = req[q].id
               /\ req'[q].pc = req[q].pc /\ req'[q].target = req[q].target
               /\ req'[q].res = req[q].res /\ req[q].work \in {"queued", "restoring"}
               /\ req'[q].work = IF req[q].pc = "sent" THEN "error" ELSE "none"
      <4>1. Onward(q)
            BY <3>3 DEF Onward, Over
      <4>2. ShapeOf(q)'
            BY <3>1, <3>3 DEF ShapeOf, Reply
      <4> QED BY <4>1, <4>2
    <3> QED BY <1>1, <3>2, <3>3, CrashBecomes
  <2> QED BY <2>1, <2>2 DEF TypeOK, Steady, Shape
<1>2. CASE Restart(r) \/ Drain(r) \/ \E i \in Ids : Forget(r, i)
  <2>1. /\ node' \in [Runners -> Node] /\ faults' \in 0..MaxFaults /\ req' = req
        /\ \A x \in Runners : node'[x].sess \subseteq node[x].sess
    <3>1. CASE Restart(r)
      <4>1. node[r] \in Node BY DEF TypeOK
      <4>2. /\ [node[r] EXCEPT !.up = TRUE] \in Node
            /\ [node[r] EXCEPT !.up = TRUE].sess = node[r].sess
            BY <4>1 DEF Node
      <4>3. node' = [node EXCEPT ![r] = [node[r] EXCEPT !.up = TRUE]] BY <3>1 DEF Restart
      <4> QED BY <3>1, <4>2, <4>3 DEF Restart, TypeOK
    <3>2. CASE Drain(r)
      <4>1. node[r] \in Node BY DEF TypeOK
      <4>2. /\ [node[r] EXCEPT !.draining = TRUE] \in Node
            /\ [node[r] EXCEPT !.draining = TRUE].sess = node[r].sess
            BY <4>1 DEF Node
      <4>3. node' = [node EXCEPT ![r] = [node[r] EXCEPT !.draining = TRUE]] BY <3>2 DEF Drain
      <4> QED BY <3>2, <4>2, <4>3 DEF Drain, TypeOK
    <3>3. CASE \E i \in Ids : Forget(r, i)
      <4>1. PICK i \in Ids : Forget(r, i) BY <3>3
      <4>2. node' = [node EXCEPT ![r].sess = @ \ {i}] /\ req' = req BY <4>1 DEF Forget
      <4>3. faults' \in 0..MaxFaults
            BY <4>1, DispatcherAssumption
            DEF TypeOK, DispatcherAssumption, Forget, Failing, CanFail
      <4> QED BY <4>2, <4>3, DropType
    <3> QED BY <1>2, <3>1, <3>2, <3>3
  <2>2. UNCHANGED <<known, affinity>>
        BY <1>2 DEF Restart, Drain, Forget
  <2>3. Shape' /\ Steady
        BY <2>1, <2>2, SteadyNone
  <2> QED BY <2>1, <2>2, <2>3 DEF TypeOK
<1> QED BY <1>1, <1>2

(* One request changes and keeps what it is; the others are as they were.     *)
LEMMA ShapeOne ==
    ASSUME Shape, NEW q \in Reqs, \A p \in Reqs \ {q} : req'[p] = req[p], ShapeOf(q)'
    PROVE  Shape'
BY Untouched DEF Shape

(* POST /sessions, with an id nobody has used.                                *)
LEMMA CreateKeeps ==
    ASSUME TypeOK, Shape, RouteInv, Auth, NEW q \in Reqs, NEW i \in Ids, Create(q, i)
    PROVE  TypeOK' /\ Shape' /\ RouteInv'
<1>1. ShapeOf(q) BY DEF Shape
<1>2. /\ Becomes(q, "create", i, "fetch", None, "none", "none")
      /\ req[q].pc = "new" /\ req[q].kind = "none" /\ UNCHANGED <<known, affinity, node, faults>>
      /\ \A p \in Reqs : req[p].id # i
      BY <1>1, CreateBecomes DEF Create, Arrives, ShapeOf
<1>3. TypeOK' BY <1>2 DEF Becomes, TypeOK
<1>4. Shape'
  <2>1. ShapeOf(q)' BY <1>2 DEF Becomes, ShapeOf, Session, Reply
  <2> QED BY <1>2, <2>1, ShapeOne DEF Becomes
<1>5. \A p \in Reqs \ {q} : req'[p] = req[p]
      BY <1>2 DEF Becomes
<1>6. /\ req'[q].kind = "create" /\ req'[q].id = i /\ req'[q].pc = "fetch"
      /\ req'[q].target = None /\ req'[q].work = "none" /\ req'[q].res = "none"
      BY <1>2 DEF Becomes
<1>7. \A x, p : p \in Reqs /\ Creates(p, x) => p # q /\ Creates(p, x)'
      BY <1>2, <1>5 DEF Creates
<1>8. OneCreate'
      BY <1>2, <1>5, <1>6 DEF RouteInv, OneCreate, Creates
<1>9. Asked'
  <2>1. \A x : Acked(x) => Acked(x)'
        BY <1>2, <1>5 DEF Acked
  <2> QED BY <1>5, <1>6, <2>1 DEF RouteInv, Asked, Session
<1>10. Placed'
  <2> SUFFICES ASSUME NEW x \in Ids, affinity'[x] # None
               PROVE  \E p \in Reqs : Creates(p, x)' /\ req'[p].target = affinity'[x]
      BY DEF Placed
  <2>1. PICK p \in Reqs : Creates(p, x) /\ req[p].target = affinity[x]
        BY <1>2 DEF RouteInv, Placed
  <2> QED BY <1>2, <1>5, <1>7, <2>1
<1>11. Hosted'
  <2> SUFFICES ASSUME NEW r \in Runners, NEW x \in node'[r].sess
               PROVE  \E p \in Reqs : /\ Creates(p, x)' /\ req'[p].target = r
                                      /\ req'[p].work \notin {"queued", "restoring"}
      BY DEF Hosted
  <2>1. PICK p \in Reqs : /\ Creates(p, x) /\ req[p].target = r
                          /\ req[p].work \notin {"queued", "restoring"}
        BY <1>2 DEF RouteInv, Hosted
  <2> QED BY <1>5, <1>7, <2>1
<1>12. Held'
      BY <1>2, <1>5, <1>6 DEF RouteInv, Held
<1>13. Followed'
  <2> SUFFICES ASSUME NEW p \in Reqs, req'[p].kind \in Session, req'[p].target # None
               PROVE  \E c \in Reqs : Creates(c, req[p].id)' /\ req'[c].target = req'[p].target
      BY DEF Followed
  <2>1. req'[p] = req[p] BY <1>5, <1>6 DEF Session
  <2>2. PICK c \in Reqs : Creates(c, req[p].id) /\ req[c].target = req[p].target
        BY <2>1 DEF RouteInv, Followed
  <2>3. req'[c] = req[c] BY <1>5, <1>7, <2>2
  <2> QED BY <2>1, <2>2, <2>3 DEF Creates
<1>14. Lost'
  <2>1. \A p \in Reqs : Over(p)' => p # q /\ Over(p)
        BY <1>5, <1>6 DEF Over, Session
  <2> QED BY <1>2, <1>5, <2>1 DEF RouteInv, Lost, Absent
<1>15. Routable'
  <2>1. \A x : Ending(x) => Ending(x)'
        BY <1>2, <1>5 DEF Ending
  <2> QED BY <1>2, <1>5, <1>6, <2>1 DEF RouteInv, Routable
<1>16. AnswersHold'
      BY <1>2, <1>5, <1>6 DEF RouteInv, AnswersHold
<1> QED BY <1>3, <1>4, <1>8, <1>9, <1>10, <1>11, <1>12, <1>13, <1>14, <1>15, <1>16 DEF RouteInv

(* A request for a session the client was told of.                            *)
LEMMA LookUpKeeps ==
    ASSUME TypeOK, Shape, RouteInv, NEW q \in Reqs, NEW i \in Ids, NEW k \in Session,
           LookUp(q, k, i)
    PROVE  TypeOK' /\ Shape' /\ RouteInv'
<1>1. ShapeOf(q) BY DEF Shape
<1>2. /\ req[q].kind = "none" /\ Acked(i) /\ UNCHANGED <<known, affinity, node, faults>>
      /\ req[q].target = None /\ Taken(req[q].work) = "none" /\ req[q].res = "none"
      BY <1>1 DEF LookUp, Arrives, ShapeOf, Taken, Reply
<1>3. \/ affinity[i] # None /\ Becomes(q, k, i, "sent", affinity[i], "queued", "none")
      \/ Becomes(q, k, i, "done", None, "none", "error")
      BY <1>2, LookUpBecomes DEF Session
<1>4. TypeOK' BY <1>2, <1>3 DEF Becomes, TypeOK
<1>5. affinity[i] # None => affinity[i] \in Runners
      BY DEF TypeOK
<1>6. Shape'
  <2>1. ShapeOf(q)' BY <1>3, <1>5 DEF Becomes, ShapeOf, Session, Reply
  <2> QED BY <1>3, <2>1, ShapeOne DEF Becomes
<1>7. \A p \in Reqs \ {q} : req'[p] = req[p]
      BY <1>3 DEF Becomes
<1>8. /\ req'[q].kind = k /\ req'[q].id = i /\ req'[q].res # "ok"
      /\ req'[q].pc \in {"sent", "done"} /\ req'[q].work \in {"queued", "none"}
      /\ req'[q].target # None => req'[q].target = affinity[i] /\ affinity[i] # None
      BY <1>3 DEF Becomes
<1>9. \A x, p : p \in Reqs => (Creates(p, x) <=> Creates(p, x)') /\ (Creates(p, x) => p # q)
      BY <1>2, <1>7, <1>8 DEF Creates, Session
<1>10. \A x : Acked(x) => Acked(x)'
      BY <1>2, <1>7 DEF Acked
<1>11. OneCreate'
      BY <1>9 DEF RouteInv, OneCreate
<1>12. Asked'
      BY <1>2, <1>7, <1>8, <1>10 DEF RouteInv, Asked
<1>13. Placed'
  <2> SUFFICES ASSUME NEW x \in Ids, affinity'[x] # None
               PROVE  \E p \in Reqs : Creates(p, x)' /\ req'[p].target = affinity'[x]
      BY DEF Placed
  <2>1. PICK p \in Reqs : Creates(p, x) /\ req[p].target = affinity[x]
        BY <1>2 DEF RouteInv, Placed
  <2> QED BY <1>2, <1>7, <1>9, <2>1
<1>14. Hosted'
  <2> SUFFICES ASSUME NEW r \in Runners, NEW x \in node'[r].sess
               PROVE  \E p \in Reqs : /\ Creates(p, x)' /\ req'[p].target = r
                                      /\ req'[p].work \notin {"queued", "restoring"}
      BY DEF Hosted
  <2>1. PICK p \in Reqs : /\ Creates(p, x) /\ req[p].target = r
                          /\ req[p].work \notin {"queued", "restoring"}
        BY <1>2 DEF RouteInv, Hosted
  <2> QED BY <1>7, <1>9, <2>1
<1>15. Held'
      BY <1>2, <1>7, <1>8 DEF RouteInv, Held, Session
<1>16. Followed'
  <2> SUFFICES ASSUME NEW p \in Reqs, req'[p].kind \in Session, req'[p].target # None
               PROVE  \E c \in Reqs : Creates(c, req[p].id)' /\ req'[c].target = req'[p].target
      BY DEF Followed
  <2>1. PICK c \in Reqs : Creates(c, req'[p].id) /\ req[c].target = req'[p].target
    <3>1. CASE p = q
          BY <1>8, <3>1 DEF RouteInv, Placed
    <3>2. CASE p # q
          BY <1>7, <3>2 DEF RouteInv, Followed
    <3> QED BY <3>1, <3>2
  <2>2. req'[c] = req[c] BY <1>7, <1>9, <2>1
  <2> QED BY <2>1, <2>2 DEF Creates
<1>17. Lost'
  <2>1. \A p \in Reqs : Over(p)' => p # q /\ Over(p)
        BY <1>7, <1>8 DEF Over, Session
  <2> QED BY <1>2, <1>7, <2>1 DEF RouteInv, Lost, Absent
<1>18. Routable'
  <2>1. \A x : Ending(x) => Ending(x)'
        BY <1>2, <1>7 DEF Ending
  <2> QED BY <1>2, <1>7, <1>8, <2>1 DEF RouteInv, Routable, Session
<1>19. AnswersHold'
      BY <1>2, <1>7, <1>8 DEF RouteInv, AnswersHold, Session
<1> QED BY <1>4, <1>6, <1>11, <1>12, <1>13, <1>14, <1>15, <1>16, <1>17, <1>18, <1>19 DEF RouteInv

(* Dispatcher::dispatch.                                                      *)
LEMMA DispatchKeeps ==
    ASSUME TypeOK, Shape, RouteInv, NEW q \in Reqs, Dispatch(q)
    PROVE  TypeOK' /\ Shape' /\ RouteInv'
<1> DEFINE i == req[q].id
<1>1. ShapeOf(q) BY DEF Shape
<1>2. /\ req[q].pc = "pick" /\ req[q].kind = "create" /\ i \in Ids
      /\ req[q].target = None /\ req[q].work = "none" /\ req[q].res = "none"
      BY <1>1 DEF Dispatch, ShapeOf, TypeOK, Req, Kind, Session
<1>3. affinity[i] = None
      BY <1>2, UnsentUnplaced
<1>4. /\ UNCHANGED <<known, node, faults>>
      /\ \/ \E r \in Runners : Send(q, r) /\ affinity' = [affinity EXCEPT ![i] = r]
         \/ Set(q, Done(q, "error")) /\ affinity' = [affinity EXCEPT ![i] = None]
      BY <1>3 DEF Dispatch, Known
<1>5. \/ \E r \in Runners : /\ Becomes(q, "create", i, "sent", r, "queued", "none")
                            /\ affinity' = [affinity EXCEPT ![i] = r]
      \/ /\ Becomes(q, "create", i, "done", None, "none", "error")
         /\ affinity' = [affinity EXCEPT ![i] = None]
  <2>1. CASE \E r \in Runners : Send(q, r) /\ affinity' = [affinity EXCEPT ![i] = r]
        BY <1>2, <2>1, SendBecomes
  <2>2. CASE Set(q, Done(q, "error")) /\ affinity' = [affinity EXCEPT ![i] = None]
    <3>1. Taken(req[q].work) = "none" BY <1>2 DEF Taken, Reply
    <3> QED BY <1>2, <2>2, <3>1, DoneBecomes
  <2> QED BY <1>4, <2>1, <2>2
<1>6. PICK r \in Runners \cup {None} :
         /\ affinity' = [affinity EXCEPT ![i] = r]
         /\ Becomes(q, "create", i, IF r = None THEN "done" ELSE "sent", r,
                    IF r = None THEN "none" ELSE "queued", IF r = None THEN "error" ELSE "none")
      BY <1>5, DispatcherAssumption DEF DispatcherAssumption
<1>7. /\ affinity' \in [Ids -> Runners \cup {None}] /\ affinity'[i] = r
      /\ \A x \in Ids \ {i} : affinity'[x] = affinity[x]
      BY <1>2, <1>6 DEF TypeOK
<1>8. TypeOK' BY <1>4, <1>6, <1>7 DEF Becomes, TypeOK
<1>9. Shape'
  <2>1. ShapeOf(q)'
        BY <1>2, <1>6 DEF Becomes, ShapeOf, Session, Reply
  <2> QED BY <1>6, <2>1, ShapeOne DEF Becomes
<1>10. \A p \in Reqs \ {q} : req'[p] = req[p]
      BY <1>6 DEF Becomes
<1>11. /\ req'[q].kind = "create" /\ req'[q].id = i /\ req'[q].target = r
       /\ req'[q].pc = IF r = None THEN "done" ELSE "sent"
       /\ req'[q].work = IF r = None THEN "none" ELSE "queued"
       /\ req'[q].res = IF r = None THEN "error" ELSE "none"
      BY <1>6 DEF Becomes
<1>12. \A x, p : p \in Reqs => (Creates(p, x) <=> Creates(p, x)')
      BY <1>2, <1>10, <1>11 DEF Creates
<1>13. \A p \in Reqs : Creates(p, i) => p = q
      BY <1>2 DEF RouteInv, OneCreate, Creates
<1>14. \A x : Acked(x) => Acked(x)'
      BY <1>2, <1>10 DEF Acked
<1>15. Absent(i)
      BY <1>2, <1>13, DispatcherAssumption DEF DispatcherAssumption, Absent, RouteInv, Hosted
<1>16. \A p \in Reqs : req[p].kind \in Session => req[p].id # i
      BY <1>2, <1>13, AskedSettled DEF Creates
<1>17. OneCreate'
      BY <1>12 DEF RouteInv, OneCreate
<1>18. Asked'
      BY <1>10, <1>11, <1>14 DEF RouteInv, Asked, Session
<1>19. Placed'
  <2> SUFFICES ASSUME NEW x \in Ids, affinity'[x] # None
               PROVE  \E p \in Reqs : Creates(p, x)' /\ req'[p].target = affinity'[x]
      BY DEF Placed
  <2>1. CASE x = i
        BY <1>7, <1>11, <2>1 DEF Creates
  <2>2. CASE x # i
    <3>1. PICK p \in Reqs : Creates(p, x) /\ req[p].target = affinity[x]
          BY <1>7, <2>2 DEF RouteInv, Placed
    <3>2. p # q BY <2>2, <3>1 DEF Creates
    <3> QED BY <1>7, <1>10, <1>12, <2>2, <3>1, <3>2
  <2> QED BY <2>1, <2>2
<1>20. Hosted'
  <2> SUFFICES ASSUME NEW y \in Runners, NEW x \in node'[y].sess
               PROVE  \E p \in Reqs : /\ Creates(p, x)' /\ req'[p].target = y
                                      /\ req'[p].work \notin {"queued", "restoring"}
      BY DEF Hosted
  <2>1. PICK p \in Reqs : /\ Creates(p, x) /\ req[p].target = y
                          /\ req[p].work \notin {"queued", "restoring"}
        BY <1>4 DEF RouteInv, Hosted
  <2>2. p # q BY <1>2, <2>1, DispatcherAssumption DEF DispatcherAssumption
  <2> QED BY <1>10, <1>12, <2>1, <2>2
<1>21. Held'
  <2> SUFFICES ASSUME NEW p \in Reqs, req'[p].kind = "create", req'[p].pc = "sent"
               PROVE  affinity'[req'[p].id] = req'[p].target
      BY DEF Held
  <2>1. CASE p = q
        BY <1>7, <1>11, <2>1
  <2>2. CASE p # q
    <3>1. req'[p] = req[p] BY <1>10, <2>2
    <3>2. req[p].id # i BY <1>13, <2>2, <3>1 DEF Creates
    <3>3. req[p].id \in Ids BY <3>1 DEF Shape, ShapeOf
    <3> QED BY <1>7, <3>1, <3>2, <3>3 DEF RouteInv, Held
  <2> QED BY <2>1, <2>2
<1>22. Followed'
  <2> SUFFICES ASSUME NEW p \in Reqs, req'[p].kind \in Session, req'[p].target # None
               PROVE  \E c \in Reqs : Creates(c, req[p].id)' /\ req'[c].target = req'[p].target
      BY DEF Followed
  <2>1. req'[p] = req[p] BY <1>10, <1>11 DEF Session
  <2>2. PICK c \in Reqs : Creates(c, req[p].id) /\ req[c].target = req[p].target
        BY <2>1 DEF RouteInv, Followed
  <2>3. c # q BY <1>2, <2>1, <2>2
  <2>4. req'[c] = req[c] BY <1>10, <2>3
  <2> QED BY <2>1, <2>2, <2>4 DEF Creates
<1>23. Lost'
  <2>1. \A p \in Reqs : Over(p)' => p # q /\ Over(p)
        BY <1>10, <1>11 DEF Over, Session
  <2> QED BY <1>4, <1>10, <2>1 DEF RouteInv, Lost, Absent
<1>24. Routable'
  <2>1. \A x : Ending(x) => Ending(x)'
        BY <1>2, <1>10 DEF Ending
  <2> SUFFICES ASSUME NEW p \in Reqs, req'[p].kind = "create", req'[p].res = "ok",
                      req'[p].pc = "done",
                      req'[p].id \in node'[req'[p].target].sess, ~Ending(req[p].id)'
               PROVE  affinity'[req'[p].id] = req'[p].target
      BY DEF Routable
  <2>2. p # q /\ req'[p] = req[p] BY <1>10, <1>11
  <2>3. req[p].id # i BY <1>13, <2>2 DEF Creates
  <2>4. req[p].id \in Ids BY <2>2 DEF Shape, ShapeOf
  <2>5. ~Ending(req[p].id) BY <2>1, <2>2 DEF Ending
  <2> QED BY <1>4, <1>7, <2>2, <2>3, <2>4, <2>5 DEF RouteInv, Routable
<1>25. AnswersHold'
  <2> SUFFICES ASSUME NEW p \in Reqs, req'[p].pc = "done"
               PROVE  /\ (req'[p].kind = "create" /\ req'[p].res = "error")
                             => affinity'[req'[p].id] = None
                      /\ (req'[p].kind \in {"close", "delete"} /\ req'[p].res = "ok") =>
                            /\ affinity'[req'[p].id] = None
                            /\ \A x \in Runners : req'[p].id \notin node'[x].sess
      BY DEF AnswersHold
  <2>1. CASE p = q
        BY <1>7, <1>11, <2>1, DispatcherAssumption DEF DispatcherAssumption
  <2>2. CASE p # q
    <3>1. req'[p] = req[p] BY <1>10, <2>2
    <3>2. req[p].kind \in {"create", "close", "delete"} => req[p].id # i /\ req[p].id \in Ids
          BY <1>13, <1>16, <2>2 DEF Creates, Session, Shape, ShapeOf
    <3> QED BY <1>4, <1>7, <3>1, <3>2 DEF RouteInv, AnswersHold
  <2> QED BY <2>1, <2>2
<1> QED BY <1>8, <1>9, <1>17, <1>18, <1>19, <1>20, <1>21, <1>22, <1>23, <1>24, <1>25 DEF RouteInv

(* release_session, after a create that failed, a close, or a 404.            *)
LEMMA ReleaseKeeps ==
    ASSUME TypeOK, Shape, RouteInv, NEW q \in Reqs, Release(q)
    PROVE  TypeOK' /\ Shape' /\ RouteInv'
<1> DEFINE i == req[q].id
<1>1. ShapeOf(q) BY DEF Shape
<1>2. /\ req[q].pc = "release" /\ UNCHANGED <<known, node, faults>>
      /\ affinity' = [affinity EXCEPT ![i] = None]
      /\ Becomes(q, req[q].kind, i, "done", req[q].target, req[q].work, req[q].res)
      BY ReleaseBecomes DEF Release
<1>3. req[q].kind \in {"create"} \cup Session /\ i \in Ids
      BY <1>1, <1>2 DEF ShapeOf, TypeOK, Req, Kind, Session
<1>4. /\ affinity' \in [Ids -> Runners \cup {None}] /\ affinity'[i] = None
      /\ \A x \in Ids \ {i} : affinity'[x] = affinity[x]
      BY <1>2, <1>3 DEF TypeOK
<1>5. TypeOK' BY <1>2, <1>4 DEF Becomes, TypeOK
<1>6. Shape'
  <2>1. ShapeOf(q)' BY <1>1, <1>2 DEF Becomes, ShapeOf, Reply
  <2> QED BY <1>2, <2>1, ShapeOne DEF Becomes
<1>7. \A p \in Reqs \ {q} : req'[p] = req[p]
      BY <1>2 DEF Becomes
<1>8. /\ req'[q].kind = req[q].kind /\ req'[q].id = i /\ req'[q].pc = "done"
      /\ req'[q].target = req[q].target /\ req'[q].work = req[q].work /\ req'[q].res = req[q].res
      BY <1>2 DEF Becomes
<1>9. \A p \in Reqs : /\ req'[p].kind = req[p].kind /\ req'[p].id = req[p].id
                      /\ req'[p].target = req[p].target /\ req'[p].work = req[p].work
                      /\ req'[p].res = req[p].res
      BY <1>7, <1>8
<1>10. \A x : (Acked(x) <=> Acked(x)') /\ (Ending(x) <=> Ending(x)') /\ (Absent(x) <=> Absent(x)')
      BY <1>2, <1>9 DEF Acked, Ending, Absent
<1>11. \A x, p : p \in Reqs => (Creates(p, x) <=> Creates(p, x)')
      BY <1>9 DEF Creates
<1>12. OneCreate'
      BY <1>11 DEF RouteInv, OneCreate
<1>13. Asked'
      BY <1>9, <1>10 DEF RouteInv, Asked
<1>14. Placed'
      BY <1>4, <1>9, <1>11 DEF RouteInv, Placed
<1>15. Hosted'
      BY <1>2, <1>9, <1>11 DEF RouteInv, Hosted
<1>16. Held'
  <2> SUFFICES ASSUME NEW p \in Reqs, req'[p].kind = "create", req'[p].pc = "sent"
               PROVE  affinity'[req'[p].id] = req'[p].target
      BY DEF Held
  <2>1. p # q /\ req'[p] = req[p] BY <1>7, <1>8
  <2>2. req[p].id \in Ids BY <2>1 DEF Shape, ShapeOf
  <2>3. req[p].id # i
    <3>1. CASE req[q].kind = "create"
          BY <1>3, <2>1, <3>1 DEF RouteInv, OneCreate, Creates
    <3>2. CASE req[q].kind \in Session
          BY <2>1, <3>2, AskedSettled DEF Creates
    <3> QED BY <1>3, <3>1, <3>2
  <2> QED BY <1>4, <2>1, <2>2, <2>3 DEF RouteInv, Held
<1>17. Followed'
      BY <1>9, <1>11 DEF RouteInv, Followed
<1>18. Lost'
  <2>1. \A p \in Reqs : Over(p)' => Over(p)
        BY <1>2, <1>7, <1>8 DEF Over, Session
  <2> QED BY <1>9, <1>10, <2>1 DEF RouteInv, Lost
<1>19. Routable'
  <2> SUFFICES ASSUME NEW p \in Reqs, req'[p].kind = "create", req'[p].res = "ok",
                      req'[p].pc = "done",
                      req'[p].id \in node'[req'[p].target].sess, ~Ending(req[p].id)'
               PROVE  affinity'[req'[p].id] = req'[p].target
      BY DEF Routable
  <2>1. req[p].kind = "create" /\ req[p].res = "ok"
        BY <1>9
  <2>2. req[p].pc = "done" /\ req[p].target \in Runners /\ req[p].id \in Ids
        BY <2>1 DEF Shape, ShapeOf
  <2>3. p # q BY <1>2, <2>2
  <2>4. req'[p] = req[p] BY <1>7, <2>3
  <2>5. req[p].id \in node[req[p].target].sess /\ ~Ending(req[p].id)
        BY <1>2, <1>10, <2>4
  <2>6. affinity[req[p].id] = req[p].target
        BY <2>1, <2>2, <2>5 DEF RouteInv, Routable
  <2>7. req[p].id # i
    <3>1. CASE req[q].kind = "create"
          BY <1>3, <2>1, <2>3, <3>1 DEF RouteInv, OneCreate, Creates
    <3>2. CASE req[q].kind \in {"close", "delete"}
          BY <2>5, <3>2 DEF Ending
    <3>3. CASE req[q].kind = "op"
      <4>1. Over(q) BY <1>2, <3>3 DEF Over, Session
      <4> QED BY <2>2, <2>5, <4>1 DEF RouteInv, Lost, Absent
    <3> QED BY <1>3, <3>1, <3>2, <3>3 DEF Session
  <2> QED BY <1>4, <2>2, <2>4, <2>6, <2>7
<1>20. AnswersHold'
  <2> SUFFICES ASSUME NEW p \in Reqs, req'[p].pc = "done"
               PROVE  /\ (req'[p].kind = "create" /\ req'[p].res = "error")
                             => affinity'[req'[p].id] = None
                      /\ (req'[p].kind \in {"close", "delete"} /\ req'[p].res = "ok") =>
                            /\ affinity'[req'[p].id] = None
                            /\ \A x \in Runners : req'[p].id \notin node'[x].sess
      BY DEF AnswersHold
  <2>1. CASE p = q
    <3>1. req[q].kind \in {"close", "delete"} => Absent(i)
          BY <1>2 DEF RouteInv, Lost, Over, Session
    <3> QED BY <1>2, <1>4, <1>8, <2>1, <3>1 DEF Absent
  <2>2. CASE p # q
    <3>1. req'[p] = req[p] BY <1>7, <2>2
    <3>2. req[p].kind \in {"create", "close", "delete"} => req[p].id \in Ids
          BY DEF Shape, ShapeOf, Session
    <3> QED BY <1>2, <1>4, <3>1, <3>2 DEF RouteInv, AnswersHold
  <2> QED BY <2>1, <2>2
<1> QED BY <1>5, <1>6, <1>12, <1>13, <1>14, <1>15, <1>16, <1>17, <1>18, <1>19, <1>20 DEF RouteInv

(* A restore ends, whoever still waits for it.                                *)
LEMMA RestoredKeeps ==
    ASSUME TypeOK, Shape, RouteInv, NEW q \in Reqs, Restored(q)
    PROVE  TypeOK' /\ Shape' /\ RouteInv'
<1> DEFINE i == req[q].id
           t == req[q].target
<1>1. ShapeOf(q) BY DEF Shape
<1>2. /\ req[q].work = "restoring" /\ node' \in [Runners -> Node] /\ faults' \in 0..MaxFaults
      /\ \/ node' = node
         \/ /\ \A x \in Runners \ {t} : node'[x].sess = node[x].sess
            /\ node'[t].sess = node[t].sess \cup {i}
      /\ UNCHANGED <<known, affinity>>
      BY RestoredBecomes DEF Restored
<1>3. req[q].kind = "create" /\ i \in Ids /\ t \in Runners /\ req[q].res # "ok"
      /\ req[q].pc \notin {"fetch", "pick", "new"}
      BY <1>1, <1>2 DEF ShapeOf
<1>4. PICK v \in {"none", "ok", "error"} :
         /\ Becomes(q, "create", i, req[q].pc, t, v, req[q].res)
         /\ v \in Reply => req[q].pc = "sent"
  <2>1. PICK w \in {"ok", "error"} : Work(q, w) BY RestoredBecomes
  <2>2. Becomes(q, req[q].kind, i, req[q].pc, t,
                IF w \in Reply /\ req[q].pc # "sent" THEN "none" ELSE w, req[q].res)
        BY <2>1, WorkBecomes DEF Reply
  <2> QED BY <1>3, <2>2 DEF Reply
<1>5. TypeOK' BY <1>2, <1>4 DEF Becomes, TypeOK
<1>6. Shape'
  <2>1. ShapeOf(q)' BY <1>1, <1>3, <1>4 DEF Becomes, ShapeOf, Reply, Session
  <2> QED BY <1>4, <2>1, ShapeOne DEF Becomes
<1>7. \A p \in Reqs \ {q} : req'[p] = req[p]
      BY <1>4 DEF Becomes
<1>8. /\ req'[q].kind = "create" /\ req'[q].id = i /\ req'[q].pc = req[q].pc
      /\ req'[q].target = t /\ req'[q].work = v /\ req'[q].res = req[q].res
      BY <1>4 DEF Becomes
<1>9. \A p \in Reqs : /\ req'[p].kind = req[p].kind /\ req'[p].id = req[p].id
                      /\ req'[p].target = req[p].target /\ req'[p].pc = req[p].pc
                      /\ req'[p].res = req[p].res
      BY <1>3, <1>7, <1>8
<1>10. \A x : (Acked(x) <=> Acked(x)') /\ (Ending(x) <=> Ending(x)')
      BY <1>9 DEF Acked, Ending
<1>11. \A x, p : p \in Reqs => (Creates(p, x) <=> Creates(p, x)')
      BY <1>9 DEF Creates
<1>12. \A p \in Reqs : Creates(p, i) => p = q
      BY <1>3 DEF RouteInv, OneCreate, Creates
<1>13. \A p \in Reqs : req[p].kind \in Session => req[p].id # i
      BY <1>2, <1>3, AskedSettled DEF Creates
<1>14. \A x \in Ids \ {i} : \A r \in Runners : x \in node'[r].sess => x \in node[r].sess
      BY <1>2, <1>3
<1>15. OneCreate'
      BY <1>11 DEF RouteInv, OneCreate
<1>16. Asked'
      BY <1>9, <1>10 DEF RouteInv, Asked
<1>17. Placed'
      BY <1>2, <1>9, <1>11 DEF RouteInv, Placed
<1>18. Hosted'
  <2> SUFFICES ASSUME NEW r \in Runners, NEW x \in node'[r].sess
               PROVE  \E p \in Reqs : /\ Creates(p, x)' /\ req'[p].target = r
                                      /\ req'[p].work \notin {"queued", "restoring"}
      BY DEF Hosted
  <2>1. CASE x \in node[r].sess
    <3>1. PICK p \in Reqs : /\ Creates(p, x) /\ req[p].target = r
                            /\ req[p].work \notin {"queued", "restoring"}
          BY <2>1 DEF RouteInv, Hosted
    <3>2. p # q BY <1>2, <3>1
    <3> QED BY <1>7, <1>11, <3>1, <3>2
  <2>2. CASE x \notin node[r].sess
    <3>1. r = t /\ x = i BY <1>2, <1>3, <2>2
    <3> QED BY <1>8, <3>1 DEF Creates
  <2> QED BY <2>1, <2>2
<1>19. Held'
      BY <1>2, <1>9 DEF RouteInv, Held
<1>20. Followed'
      BY <1>9, <1>11 DEF RouteInv, Followed
<1>21. Lost'
  <2> SUFFICES ASSUME NEW p \in Reqs, Over(p)'
               PROVE  Absent(req[p].id)'
      BY DEF Lost
  <2>1. p # q /\ req'[p] = req[p] /\ req[p].kind \in Session
        BY <1>7, <1>8 DEF Over, Session
  <2>2. Over(p) /\ req[p].id # i /\ req[p].id \in Ids
        BY <1>13, <2>1 DEF Over, Shape, ShapeOf
  <2>3. Absent(req[p].id) BY <2>2 DEF RouteInv, Lost
  <2> QED BY <1>14, <2>1, <2>2, <2>3 DEF Absent
<1>22. Routable'
  <2> SUFFICES ASSUME NEW p \in Reqs, req'[p].kind = "create", req'[p].res = "ok",
                      req'[p].pc = "done",
                      req'[p].id \in node'[req'[p].target].sess, ~Ending(req[p].id)'
               PROVE  affinity'[req'[p].id] = req'[p].target
      BY DEF Routable
  <2>1. p # q /\ req'[p] = req[p]
        BY <1>3, <1>7, <1>8
  <2>2. req[p].id # i /\ req[p].id \in Ids /\ req[p].target \in Runners
        BY <1>12, <2>1 DEF Creates, Shape, ShapeOf
  <2>3. req[p].id \in node[req[p].target].sess /\ ~Ending(req[p].id)
        BY <1>10, <1>14, <2>1, <2>2
  <2> QED BY <1>2, <2>1, <2>3 DEF RouteInv, Routable
<1>23. AnswersHold'
  <2> SUFFICES ASSUME NEW p \in Reqs, req'[p].pc = "done"
               PROVE  /\ (req'[p].kind = "create" /\ req'[p].res = "error")
                             => affinity'[req'[p].id] = None
                      /\ (req'[p].kind \in {"close", "delete"} /\ req'[p].res = "ok") =>
                            /\ affinity'[req'[p].id] = None
                            /\ \A x \in Runners : req'[p].id \notin node'[x].sess
      BY DEF AnswersHold
  <2>1. CASE req'[p].kind = "create" /\ req'[p].res = "error"
        BY <1>2, <1>9, <2>1 DEF RouteInv, AnswersHold
  <2>2. CASE req'[p].kind \in {"close", "delete"} /\ req'[p].res = "ok"
    <3>1. /\ req[p].kind \in {"close", "delete"} /\ req[p].res = "ok" /\ req[p].pc = "done"
          /\ req'[p].id = req[p].id /\ req[p].id \in Ids /\ req[p].id # i
          BY <1>9, <1>13, <2>2 DEF Session, Shape, ShapeOf
    <3> QED BY <1>2, <1>14, <2>2, <3>1 DEF RouteInv, AnswersHold
  <2> QED BY <2>1, <2>2
<1> QED BY <1>5, <1>6, <1>15, <1>16, <1>17, <1>18, <1>19, <1>20, <1>21, <1>22, <1>23 DEF RouteInv

-----------------------------------------------------------------------------
(* The theorems.                                                              *)

(* The invariant holds when the dispatcher starts.                            *)
LEMMA InitInv == Init => TypeOK /\ Shape /\ RouteInv
<1> SUFFICES ASSUME Init PROVE TypeOK /\ Shape /\ RouteInv OBVIOUS
<1>1. \A q \in Reqs : /\ req[q].kind = "none" /\ req[q].id = None /\ req[q].pc = "new"
                      /\ req[q].target = None /\ req[q].work = "none" /\ req[q].res = "none"
      BY DEF Init
<1>2. TypeOK
  <2>1. [kind |-> "none", id |-> None, pc |-> "new", target |-> None,
         seen |-> Unasked, work |-> "none", res |-> "none"] \in Req
        BY UnaskedType DEF Req
  <2>2. req \in [Reqs -> Req] BY <2>1 DEF Init
  <2>3. [up |-> TRUE, draining |-> FALSE, sess |-> {}] \in Node BY DEF Node
  <2>4. node \in [Runners -> Node] BY <2>3 DEF Init
  <2>5. known \in [Runners -> {"no", "free", "full"}] /\ affinity \in [Ids -> Runners \cup {None}]
        BY DEF Init
  <2>6. faults \in 0..MaxFaults BY DispatcherAssumption DEF Init, DispatcherAssumption
  <2> QED BY <2>2, <2>4, <2>5, <2>6 DEF TypeOK
<1>3. Shape BY <1>1 DEF Shape, ShapeOf, Session, Reply
<1>4. \A r \in Runners : node[r].sess = {} BY DEF Init
<1>5. \A x \in Ids : affinity[x] = None BY DEF Init
<1>6. OneCreate /\ Asked /\ Held /\ Followed
      BY <1>1 DEF OneCreate, Asked, Held, Followed, Creates, Session
<1>7. Placed /\ Hosted /\ Lost
      BY <1>1, <1>4, <1>5 DEF Placed, Hosted, Lost, Over, Session
<1>8. Routable /\ AnswersHold
      BY <1>1 DEF Routable, AnswersHold
<1> QED BY <1>2, <1>3, <1>6, <1>7, <1>8 DEF RouteInv

(* Every step preserves the invariant.                                        *)
LEMMA StepInv ==
    ASSUME Auth
    PROVE  TypeOK /\ Shape /\ RouteInv /\ [Next]_vars => TypeOK' /\ Shape' /\ RouteInv'
<1> SUFFICES ASSUME TypeOK, Shape, RouteInv, [Next]_vars
             PROVE  TypeOK' /\ Shape' /\ RouteInv'
    OBVIOUS
<1>1. ASSUME NEW q \in Reqs, NEW i \in Ids, Create(q, i)
      PROVE  TypeOK' /\ Shape' /\ RouteInv'
      BY <1>1, CreateKeeps
<1>2. ASSUME NEW q \in Reqs, NEW i \in Ids, NEW k \in {"op", "close", "delete"}, LookUp(q, k, i)
      PROVE  TypeOK' /\ Shape' /\ RouteInv'
      BY <1>2, LookUpKeeps DEF Session
<1>3. ASSUME NEW q \in Reqs,
             \/ Readyz(q) \/ Fetch(q) \/ DiscoveryFails(q) \/ Refresh(q)
             \/ Answer(q) \/ TimesOut(q) \/ ClientGone(q) \/ Serve(q)
      PROVE  TypeOK' /\ Shape' /\ RouteInv'
      BY <1>3, TypeShapeSteady, SteadyKeeps
<1>4. ASSUME NEW q \in Reqs, Dispatch(q)
      PROVE  TypeOK' /\ Shape' /\ RouteInv'
      BY <1>4, DispatchKeeps
<1>5. ASSUME NEW q \in Reqs, Release(q)
      PROVE  TypeOK' /\ Shape' /\ RouteInv'
      BY <1>5, ReleaseKeeps
<1>6. ASSUME NEW q \in Reqs, Restored(q)
      PROVE  TypeOK' /\ Shape' /\ RouteInv'
      BY <1>6, RestoredKeeps
<1>7. ASSUME NEW r \in Runners, Crash(r) \/ Restart(r) \/ Drain(r) \/ \E i \in Ids : Forget(r, i)
      PROVE  TypeOK' /\ Shape' /\ RouteInv'
      BY <1>7, RunnerSteady, SteadyKeeps
<1>8. CASE UNCHANGED vars
  <2>1. UNCHANGED <<known, affinity, req, node, faults>> BY <1>8 DEF vars
  <2>2. Shape' /\ Steady BY <2>1, SteadyNone
  <2> QED BY <2>1, <2>2, SteadyKeeps DEF TypeOK
<1> QED BY <1>1, <1>2, <1>3, <1>4, <1>5, <1>6, <1>7, <1>8 DEF Next

(* With minted ids the routing state, the handlers and the runners keep their *)
(* types.                                                                     *)
THEOREM DispatcherTypes == Auth => (Spec => []TypeOK)
<1> SUFFICES ASSUME Auth PROVE Spec => []TypeOK OBVIOUS
<1>1. TypeOK /\ Shape /\ RouteInv /\ [Next]_vars => TypeOK' /\ Shape' /\ RouteInv' BY StepInv
<1> QED BY <1>1, InitInv, PTL DEF Spec

(* With minted ids a session that was answered 201, is on its runner and that *)
(* nobody closes has that runner as its affinity.                             *)
THEOREM SessionsRoutable == Auth => (Spec => []Routable)
<1> SUFFICES ASSUME Auth PROVE Spec => []Routable OBVIOUS
<1>1. TypeOK /\ Shape /\ RouteInv /\ [Next]_vars => TypeOK' /\ Shape' /\ RouteInv' BY StepInv
<1>2. RouteInv => Routable BY DEF RouteInv
<1> QED BY <1>1, <1>2, InitInv, PTL DEF Spec

(* With minted ids a refused create leaves no affinity behind, and a session  *)
(* whose close was acknowledged has none and is on no runner, ever after.     *)
THEOREM AnswersAlwaysHold == Auth => (Spec => []AnswersHold)
<1> SUFFICES ASSUME Auth PROVE Spec => []AnswersHold OBVIOUS
<1>1. TypeOK /\ Shape /\ RouteInv /\ [Next]_vars => TypeOK' /\ Shape' /\ RouteInv' BY StepInv
<1>2. RouteInv => AnswersHold BY DEF RouteInv
<1> QED BY <1>1, <1>2, InitInv, PTL DEF Spec

=============================================================================
