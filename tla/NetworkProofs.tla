---------------------------- MODULE NetworkProofs -----------------------------
(* Proofs about Transfers, for all commands and policies, whatever the        *)
(* servers answer and however the command line is parsed, a request built and *)
(* a response delivered.                                                      *)
EXTENDS Transfers, RecursionProofs, SequenceTheorems, TLAPS

-----------------------------------------------------------------------------
(* The invariant.                                                             *)

(* A request is a record whose headers are a list (HttpRequest).              *)
IsSeq(s) == \E S : s \in Seq(S)
IsRequest(r) ==
    /\ {"url", "method", "headers", "body", "follow_redirects", "max_redirs"} \subseteq DOMAIN r
    /\ IsSeq(r.headers)

(* A command on some disk, and the transfers that its command line asks for.  *)
On(j, d) == [j EXCEPT !.disk = d]
Plan(j) == Parser(On(j, j.disk))
Planned(j) == {Plan(j)[i] : i \in DOMAIN Plan(j)}

(* The checks and redirects are those of NetworkClient; a command line is     *)
(* parsed to a list of transfers, what is built for one of them is a request, *)
(* and what a server answers an error or a response.                          *)
Bound ==
    /\ \A j \in Jobs : IsSeq(Plan(j))
    /\ \A j \in Jobs : \A d : \A t \in Planned(j) :
           LET r == Builder(On(j, d), t.opts, t.url) IN r.ok => IsRequest(r.v)
    /\ \A c, u : Checker(c, u) = CheckTarget(c, u)
    /\ \A j \in Jobs : \A d, r : \A a \in Backend(On(j, d), r) : a.k \in {"error", "response"}
    /\ \A c, x : Redirector(c, x) = NextHop(c, x)

Fields == {"opts", "url", "first", "req", "hops", "attempt", "result", "code"}

Shape ==
    /\ job \in Jobs /\ IsSeq(sent)
    /\ Idle \/ phase \in {"check", "fetch", "answered", "attempted"}
    /\ \/ xfer = NoXfer /\ sent = << >> /\ Idle
       \/ /\ DOMAIN xfer = Fields /\ xfer.attempt \in Nat /\ xfer.hops \in Nat
          /\ IsRequest(xfer.first) /\ IsRequest(xfer.req)

(* The attempt under way has sent one request per hop.                        *)
Current(n) == Tried(xfer.attempt) = (Len(sent) + 1 - n)..Len(sent) /\ n <= Len(sent)

(* A refusal, which is final; and a redirect too many.                        *)
Refused == xfer.result.k = "error" /\ xfer.result.err \in {"HostDenied", "InvalidUrl"}
Overdone(a, hops) ==
    /\ a.k = "response" /\ a.location # {} /\ xfer.first.follow_redirects
    /\ hops >= MaxRedirs

Answers ==
    \A i \in DOMAIN sent : sent[i].attempt \in 0..xfer.attempt /\ sent[i].answer.k \in {"error", "response"}
History ==
    /\ Answers
    /\ phase \in {"check", "fetch"} => Current(xfer.hops)
    /\ phase = "answered" =>
           /\ Current(xfer.hops + 1)
           /\ sent[Len(sent)].req = xfer.req /\ sent[Len(sent)].answer = xfer.result
    /\ phase = "attempted" =>
           \/ Refused
           \/ /\ Current(xfer.hops + 1)
              /\ \/ sent[Len(sent)].answer = xfer.result
                 \/ xfer.result = Error("TooManyRedirects") /\ Overdone(sent[Len(sent)].answer, xfer.hops)

(* A result that lets a command try again.                                    *)
Again(a) ==
    CASE job.tool = "wget" -> a.k = "error" /\ a.err \in {"Timeout"} \cup ConnectionErrors
      [] job.tool # "wget" /\ a.k = "error" -> is_retryable_error(a.err, xfer.opts)
      [] OTHER -> is_retryable_status(a.status, xfer.opts)
Spent(a, hops) ==
    Again(a) \/ (job.tool # "wget" /\ "retry-all-errors" \in xfer.opts.on /\ Overdone(a, hops))

Within(hops) == MaxRedirs \in Nat => hops = 0 \/ hops <= MaxRedirs
Counts ==
    /\ xfer.hops = 0 \/ xfer.first.follow_redirects
    /\ Within(xfer.hops)
    /\ Limit \in Int => xfer.attempt = 0 \/ xfer.attempt <= Limit
Past ==
    \A n \in 0..(xfer.attempt - 1) :
        \E lo, hi \in DOMAIN sent :
            lo <= hi /\ Tried(n) = lo..hi /\ Spent(sent[hi].answer, hi - lo) /\ Within(hi - lo)

(* What a request carries, at home and away.                                  *)
Same(u) == Origin(u) = Origin(xfer.first.url)
Carried(r, home) ==
    /\ home => Secrets(r.headers) = Secrets(xfer.first.headers)
    /\ ~home => Secrets(r.headers) = {} /\ ~HasSigV4(r.headers)
    /\ \/ r.method = xfer.first.method /\ r.body = xfer.first.body
       \/ r.method = "GET" /\ r.body = {}
AtHome == \A j \in Tried(xfer.attempt) : Same(sent[j].req.url)
Bags == \A i \in DOMAIN sent : Carried(sent[i].req, Home(i)) /\ (Chain(i) = {i} => sent[i].req = xfer.first)
Luggage ==
    /\ Bags
    /\ phase \in {"check", "fetch", "answered"} => Carried(xfer.req, AtHome /\ Same(xfer.req.url))
    /\ phase \in {"check", "fetch"} /\ Tried(xfer.attempt) = {} => xfer.req = xfer.first

(* What has been held against the policy.                                     *)
Checked ==
    /\ \A i \in DOMAIN sent : Approved(sent[i].req.url)
    /\ phase = "fetch" => Approved(xfer.req.url)
    /\ phase = "attempted" /\ sent = << >> => ~Approved(xfer.req.url)

TransferInv == Shape /\ History /\ Counts /\ Past /\ Luggage /\ Checked

(* What is left to do was asked for.                                          *)
Listed == job \in Jobs /\ todo \in Seq(Planned(job)) /\ (phase = "parse" => disk = job.disk)

-----------------------------------------------------------------------------
(* The operators.                                                             *)

(* Headers that a request may take to another origin.                         *)
LEMMA StripFacts ==
  ASSUME NEW hs, IsSeq(hs)
  PROVE  LET s == strip_cross_origin_sensitive_headers(hs)
         IN  IsSeq(s) /\ Secrets(s) = {} /\ ~HasSigV4(s)
<1>1. PICK S : hs \in Seq(S)
  BY DEF IsSeq
<1> DEFINE Clean == {h \in S : h[1] \notin Sensitive}
           V == Seq(Clean)
           n == Len(hs)
           Step(s, k) == IF hs[k][1] \in Sensitive THEN s ELSE Append(s, hs[k])
           g == [k \in 1..n |-> [s \in V |-> Step(s, k)]]
           P == CHOOSE F : F = [k \in 0..n |-> IF k = 0 THEN <<>> ELSE Step(F[k - 1], k)]
<1>2. n \in Nat /\ <<>> \in V /\ \A k \in 1..n : hs[k] \in S
  BY <1>1
<1>3. \A k \in 1..n, s \in V : Step(s, k) \in V
  <2> SUFFICES ASSUME NEW k \in 1..n, NEW s \in V PROVE Step(s, k) \in V
    OBVIOUS
  <2>1. CASE hs[k][1] \in Sensitive
    BY <2>1
  <2>2. CASE hs[k][1] \notin Sensitive
    <3>1. hs[k] \in Clean
      BY <1>2, <2>2
    <3> QED BY <2>2, <3>1, AppendProperties
  <2> QED BY <2>1, <2>2
<1>4. strip_cross_origin_sensitive_headers(hs) = P[n]
  BY DEF strip_cross_origin_sensitive_headers
<1> HIDE DEF V, n, Step
<1>5. g \in [1..n -> [V -> V]]
  BY <1>3
<1>6. \A k \in 1..n, s \in V : g[k][s] = Step(s, k)
  OBVIOUS
<1> HIDE DEF g
<1>7. PICK f : f \in [0..n -> V] /\ f[0] = <<>> /\ \A k \in 1..n : f[k] = g[k][f[k - 1]]
  <2>1. \E f : Iterates(f, n, V, <<>>, g)
    BY <1>2, <1>5, ByRecursion DEF Steps
  <2> QED BY <2>1 DEF Iterates
<1>8. f = [k \in 0..n |-> IF k = 0 THEN <<>> ELSE Step(f[k - 1], k)]
  <2>1. \A k \in 1..n : f[k - 1] \in V /\ g[k][f[k - 1]] = Step(f[k - 1], k)
    BY <1>2, <1>6, <1>7
  <2>2. \A k \in 0..n : f[k] = IF k = 0 THEN <<>> ELSE Step(f[k - 1], k)
    BY <1>2, <1>7, <2>1
  <2> QED BY <1>7, <2>2
<1>9. P = [k \in 0..n |-> IF k = 0 THEN <<>> ELSE Step(P[k - 1], k)]
  BY <1>8
<1> HIDE DEF P
<1>10. \A k \in 0..n : P[k] \in V
  <2> DEFINE T == {k \in 0..n : P[k] \in V}
  <2>1. 0 \in T
    BY <1>2, <1>9
  <2>2. \A k \in 1..n : k - 1 \in T => k \in T
    <3> SUFFICES ASSUME NEW k \in 1..n, k - 1 \in T
                 PROVE  P[k] \in V
      OBVIOUS
    <3>1. P[k] = Step(P[k - 1], k)
      BY <1>2, <1>9
    <3> QED BY <1>3, <3>1
  <2> HIDE DEF T
  <2>3. \A k \in 0..n : k \in T
    BY <1>2, <2>1, <2>2, UpTo
  <2> QED BY <2>3 DEF T
<1>11. PICK s : s = strip_cross_origin_sensitive_headers(hs)
  OBVIOUS
<1>12. s \in Seq(Clean)
  BY <1>2, <1>4, <1>10, <1>11 DEF V
<1>13. \A h \in DOMAIN s : s[h][1] \notin Sensitive
  BY <1>12
<1>14. IsSeq(s)
  BY <1>12 DEF IsSeq
<1>15. Secrets(s) = {}
  BY <1>13 DEF Secrets
<1>16. ~HasSigV4(s)
  BY <1>13 DEF HasSigV4, Sensitive
<1> QED BY <1>11, <1>14, <1>15, <1>16

(* The context of a command differs from it in the disk only.                 *)
LEMMA CtxFacts ==
  ASSUME job \in Jobs, NEW u
  PROVE  CheckTarget(Ctx, u) = CheckTarget(job, u)
<1>1. Ctx.backend = job.backend /\ Ctx.policy = job.policy
  BY JobsAssumption DEF Ctx
<1> QED BY <1>1 DEF CheckTarget, backend_check

(* A check says yes or refuses.                                               *)
LEMMA CheckAnswers ==
  ASSUME NEW c, NEW u
  PROVE  CheckTarget(c, u) \in {"ok", "HostDenied", "InvalidUrl"}
<1>1. \A p : policy_check(p, u) \in {"ok", "HostDenied", "InvalidUrl"}
  BY DEF policy_check
<1>2. \A p : check_url(p, u) \in {"ok", "HostDenied", "InvalidUrl"}
  BY <1>1 DEF check_url
<1> QED BY <1>2 DEF CheckTarget, backend_check

(* The next hop: a request with the same method and body or with none, and    *)
(* with the same headers or, at another origin, without the sensitive ones    *)
(* and never signed; or the reason why there is none.                         *)
Hops(r, q) ==
    /\ IsRequest(q)
    /\ (q.method = r.method /\ q.body = r.body) \/ (q.method = "GET" /\ q.body = {})
    /\ \/ Origin(q.url) = Origin(r.url) /\ q.headers = r.headers
       \/ Origin(q.url) # Origin(r.url) /\ Secrets(q.headers) = {} /\ ~HasSigV4(q.headers)

LEMMA HopFacts ==
  ASSUME NEW c, IsRequest(xfer.req)
  PROVE  LET n == NextHop(c, xfer)
         IN  \/ n.k = "request" /\ Hops(xfer.req, n.req) /\ ~(xfer.hops >= MaxRedirs)
             \/ n = Error("TooManyRedirects") /\ xfer.hops >= MaxRedirs
             \/ n \in {Error("HostDenied"), Error("InvalidUrl")}
<1> DEFINE r == xfer.req
           next == resolve_redirect_url(r.url, CHOOSE l \in xfer.result.location : TRUE)
           cross == is_cross_origin(r.url, next.v)
           hs == IF cross THEN strip_cross_origin_sensitive_headers(r.headers) ELSE r.headers
           d == Demoted(r, xfer.result.status)
           q == [d EXCEPT !.url = next.v, !.headers = hs]
           n == NextHop(c, xfer)
<1>1. n = CASE xfer.hops >= MaxRedirs -> Error("TooManyRedirects")
            [] ~next.ok -> Error("InvalidUrl")
            [] CheckTarget(c, next.v) # "ok" -> Error(CheckTarget(c, next.v))
            [] cross /\ HasSigV4(r.headers) -> Error("HostDenied")
            [] OTHER -> [k |-> "request", req |-> q]
  BY DEF NextHop, MaxRedirs
<1>2. CheckTarget(c, next.v) \in {"ok", "HostDenied", "InvalidUrl"}
  BY CheckAnswers
<1>3. cross <=> Origin(next.v) # Origin(r.url)
  BY DEF is_cross_origin
<1> HIDE DEF next, cross
<1>4. IsRequest(d) /\ d.headers = r.headers
      /\ ((d.method = r.method /\ d.body = r.body) \/ (d.method = "GET" /\ d.body = {}))
  BY DEF Demoted, IsRequest
<1> HIDE DEF d
<1>5. IsSeq(hs) /\ (cross => Secrets(hs) = {} /\ ~HasSigV4(hs)) /\ (~cross => hs = r.headers)
  BY StripFacts DEF IsRequest
<1> HIDE DEF hs
<1>6. q.url = next.v /\ q.headers = hs /\ q.method = d.method /\ q.body = d.body /\ DOMAIN q = DOMAIN d
  BY <1>4 DEF IsRequest
<1> HIDE DEF q
<1>7. Hops(r, q)
  BY <1>3, <1>4, <1>5, <1>6 DEF Hops, IsRequest
<1> HIDE DEF n
<1>8. \/ n = [k |-> "request", req |-> q] /\ ~(xfer.hops >= MaxRedirs)
      \/ n = Error("TooManyRedirects") /\ xfer.hops >= MaxRedirs
      \/ n \in {Error("HostDenied"), Error("InvalidUrl")}
  BY <1>1, <1>2
<1>9. [k |-> "request", req |-> q].k = "request" /\ [k |-> "request", req |-> q].req = q
  OBVIOUS
<1> QED BY <1>7, <1>8, <1>9 DEF n

-----------------------------------------------------------------------------
(* The steps.                                                                 *)

LEMMA InitInv == Init => TransferInv
<1> SUFFICES ASSUME Init PROVE TransferInv
    OBVIOUS
<1>1. sent = <<>> /\ xfer = NoXfer /\ phase = "parse" /\ job \in Jobs
  BY DEF Init
<1>2. xfer.attempt = 0 /\ xfer.hops = 0
  BY <1>1 DEF NoXfer
<1>3. IsSeq(sent)
  <2>1. sent \in Seq({})
    BY <1>1
  <2> QED BY <2>1 DEF IsSeq
<1>4. Shape
  BY <1>1, <1>3 DEF Shape, Idle
<1>5. DOMAIN sent = {}
  BY <1>1
<1>6. History /\ Luggage /\ Checked
  BY <1>1, <1>5 DEF History, Answers, Luggage, Bags, Checked
<1>7. Counts /\ Past
  BY <1>2 DEF Counts, Within, Past
<1> QED BY <1>4, <1>6, <1>7 DEF TransferInv

(* A step that leaves the attempt and what it has sent alone.                 *)
Kept ==
    /\ job' = job /\ sent' = sent
    /\ xfer'.first = xfer.first /\ xfer'.opts = xfer.opts /\ xfer'.attempt = xfer.attempt

LEMMA KeptFacts ==
  ASSUME TransferInv, Kept
  PROVE  /\ Answers' /\ Past' /\ Bags'
         /\ MaxRedirs' = MaxRedirs /\ Limit' = Limit /\ (AtHome' <=> AtHome)
         /\ \A n : Current(n)' <=> Current(n)
         /\ \A u : (Same(u)' <=> Same(u)) /\ (Approved(u)' <=> Approved(u))
         /\ \A n : Tried(n)' = Tried(n)
         /\ \A i \in DOMAIN sent' : Approved(sent[i].req.url)'
<1>1. \A n : Tried(n)' = Tried(n)
  BY DEF Kept, Tried
<1>2. MaxRedirs' = MaxRedirs
  BY DEF Kept, MaxRedirs
<1>3. Limit' = Limit
  BY DEF Kept, Limit
<1>4. \A u : (Same(u)' <=> Same(u)) /\ (Approved(u)' <=> Approved(u))
  BY DEF Kept, Same, Approved
<1>5. AtHome' <=> AtHome
  BY <1>1, <1>4 DEF Kept, AtHome
<1>6. \A n : Current(n)' <=> Current(n)
  BY <1>1 DEF Kept, Current
<1>7. \A a, h : Overdone(a, h)' <=> Overdone(a, h)
  BY <1>2 DEF Kept, Overdone
<1>8. \A a, h : Spent(a, h) => Spent(a, h)'
  BY <1>7 DEF Kept, Spent, Again
<1>9. Past'
  BY <1>1, <1>2, <1>8 DEF TransferInv, Kept, Past, Within
<1>10. \A i : Chain(i)' = Chain(i)
  BY DEF Kept, Chain
<1>11. \A i : Home(i)' <=> Home(i)
  BY <1>10 DEF Kept, Home
<1>12. Bags'
  <2> SUFFICES ASSUME NEW i \in DOMAIN sent'
               PROVE  Carried(sent[i].req, Home(i))' /\ (Chain(i) = {i} => sent[i].req = xfer.first)'
    BY DEF Bags
  <2>1. Carried(sent[i].req, Home(i)) /\ (Chain(i) = {i} => sent[i].req = xfer.first)
    BY DEF TransferInv, Luggage, Bags, Kept
  <2> QED BY <2>1, <1>10, <1>11 DEF Kept, Carried
<1>13. Answers'
  BY DEF TransferInv, History, Answers, Kept
<1>14. \A i \in DOMAIN sent' : Approved(sent[i].req.url)'
  BY <1>4 DEF TransferInv, Checked, Kept
<1> QED BY <1>1, <1>2, <1>3, <1>4, <1>5, <1>6, <1>9, <1>12, <1>13, <1>14

(* A transfer under way is one.                                               *)
LEMMA Busy ==
  ASSUME TransferInv, ~Idle
  PROVE  /\ DOMAIN xfer = Fields /\ xfer.attempt \in Nat /\ xfer.hops \in Nat
         /\ IsRequest(xfer.first) /\ IsRequest(xfer.req) /\ job \in Jobs /\ IsSeq(sent)
BY DEF TransferInv, Shape

LEMMA SentFacts ==
  ASSUME TransferInv
  PROVE  /\ Len(sent) \in Nat /\ DOMAIN sent = 1..Len(sent)
         /\ \A n \in Nat : Current(n + 1) => Len(sent) \in Tried(xfer.attempt) /\ sent # <<>>
<1>1. PICK S : sent \in Seq(S)
  BY DEF TransferInv, Shape, IsSeq
<1>2. PICK m : m = Len(sent)
  OBVIOUS
<1>3. m \in Nat /\ DOMAIN sent = 1..m /\ (sent = <<>> => m = 0)
  BY <1>1, <1>2
<1>4. ASSUME NEW n \in Nat, Current(n + 1)
      PROVE  m \in Tried(xfer.attempt) /\ sent # <<>>
  <2>1. Tried(xfer.attempt) = (m + 1 - (n + 1))..m /\ n + 1 <= m
    BY <1>2, <1>4 DEF Current
  <2> QED BY <1>3, <2>1
<1> QED BY <1>2, <1>3, <1>4

(* Between two transfers.                                                     *)
LEMMA IdleStep ==
  ASSUME TransferInv, ParseArgs \/ Finish
  PROVE  TransferInv'
<1>1. Kept /\ xfer' = xfer /\ phase' \in {"next", "done"} /\ Idle /\ Idle'
  BY DEF ParseArgs, Finish, Kept, Idle
<1>2. Shape'
  BY <1>1 DEF TransferInv, Shape, Kept
<1>3. History' /\ Luggage' /\ Checked' /\ Past'
  BY <1>1, KeptFacts DEF History, Luggage, Checked
<1>4. Counts'
  BY <1>1, KeptFacts DEF TransferInv, Counts, Within
<1> QED BY <1>2, <1>3, <1>4 DEF TransferInv

LEMMA SettleStep ==
  ASSUME TransferInv, Settle
  PROVE  TransferInv'
<1>1. Kept /\ xfer' = xfer /\ phase' = "attempted" /\ phase = "answered" /\ ~Idle
  BY DEF Settle, Kept, Idle
<1>2. Shape'
  BY <1>1, Busy DEF Shape, Kept
<1>3. Current(xfer.hops + 1) /\ sent[Len(sent)].answer = xfer.result
  BY <1>1 DEF TransferInv, History
<1>4. Current(xfer.hops + 1)'
  BY <1>1, <1>3, KeptFacts
<1>5. History'
  BY <1>1, <1>3, <1>4, KeptFacts DEF History, Kept
<1>6. Luggage' /\ Past'
  BY <1>1, KeptFacts DEF Luggage
<1>7. Counts'
  BY <1>1, KeptFacts DEF TransferInv, Counts, Within
<1>8. sent # <<>>
  BY <1>1, <1>3, Busy DEF Current
<1>9. Checked'
  BY <1>1, <1>8, KeptFacts DEF Checked, Kept
<1> QED BY <1>2, <1>5, <1>6, <1>7, <1>9 DEF TransferInv

LEMMA DeliverStep ==
  ASSUME TransferInv, Deliver
  PROVE  TransferInv'
<1>1. PICK c : xfer' = [xfer EXCEPT !.code = c]
  BY DEF Deliver
<1>2. ~Idle /\ Idle' /\ phase' = "next"
  BY DEF Deliver, Idle
<1>3. DOMAIN xfer' = Fields /\ xfer'.req = xfer.req /\ xfer'.hops = xfer.hops
      /\ xfer'.first = xfer.first /\ xfer'.opts = xfer.opts /\ xfer'.attempt = xfer.attempt
  BY <1>1, <1>2, Busy DEF Fields
<1>4. Kept
  BY <1>3 DEF Kept, Deliver
<1>5. Shape'
  BY <1>2, <1>3, <1>4, Busy DEF Shape, Kept
<1>6. History' /\ Luggage' /\ Checked' /\ Past'
  BY <1>2, <1>4, KeptFacts DEF History, Luggage, Checked
<1>7. Counts'
  BY <1>3, <1>4, KeptFacts DEF TransferInv, Counts, Within
<1> QED BY <1>5, <1>6, <1>7 DEF TransferInv

(* The list of transfers is made once and only gets shorter.                  *)
LEMMA ListedInvariant == Bound => (Spec => []Listed)
<1> SUFFICES ASSUME Bound PROVE Spec => []Listed
    OBVIOUS
<1>1. Init => Listed
  BY DEF Init, Listed
<1>2. ASSUME Listed, [Next]_vars PROVE Listed'
  <2>1. CASE ParseArgs
    <3>1. todo' = Plan(job) /\ job' = job /\ job \in Jobs /\ phase' # "parse"
      BY <1>2, <2>1 DEF ParseArgs, Listed, Ctx, Plan, On
    <3>2. PICK S : Plan(job) \in Seq(S)
      BY <3>1 DEF Bound, IsSeq
    <3>3. Plan(job) \in Seq(Planned(job))
      <4>1. PICK p : p = Plan(job)
        OBVIOUS
      <4>2. p \in Seq({p[i] : i \in DOMAIN p})
        BY <3>2, <4>1
      <4> QED BY <4>1, <4>2 DEF Planned
    <3> QED BY <3>1, <3>3 DEF Listed
  <2>2. CASE NextUrl
    <3>1. todo # <<>> /\ todo' = Tail(todo) /\ job' = job /\ phase' # "parse"
      BY <2>2 DEF NextUrl
    <3>2. todo' \in Seq(Planned(job))
      BY <1>2, <3>1 DEF Listed
    <3> QED BY <1>2, <3>1, <3>2 DEF Listed
  <2>3. ASSUME job' = job, todo' = todo, phase' # "parse" \/ (phase' = phase /\ disk' = disk)
        PROVE  Listed'
    BY <1>2, <2>3 DEF Listed
  <2>4. CASE CheckUrl \/ Fetch \/ FollowRedirect \/ Settle \/ Retry \/ Deliver \/ Finish
    <3>1. job' = job /\ todo' = todo /\ phase' # "parse"
      BY <2>4 DEF CheckUrl, Fetch, FollowRedirect, Settle, Retry, Deliver, Finish
    <3> QED BY <2>3, <3>1
  <2>5. CASE UNCHANGED vars
    BY <2>3, <2>5 DEF vars
  <2> QED BY <1>2, <2>1, <2>2, <2>4, <2>5 DEF Next
<1> QED BY <1>1, <1>2, PTL DEF Spec

(* A new transfer has sent nothing.                                           *)
LEMMA NextUrlStep ==
  ASSUME Bound, Listed, TransferInv, NextUrl
  PROVE  TransferInv'
<1>1. sent' = <<>> /\ job' = job /\ job \in Jobs
  BY DEF NextUrl, TransferInv, Shape
<1>2. IsSeq(sent')
  <2>1. sent' \in Seq({})
    BY <1>1
  <2> QED BY <2>1 DEF IsSeq
<1>3. DOMAIN sent' = {} /\ Len(sent') = 0
  BY <1>1
<1>4. \/ xfer' = NoXfer /\ phase' = "next"
      \/ /\ phase' = "check" /\ DOMAIN xfer' = Fields /\ xfer'.attempt = 0 /\ xfer'.hops = 0
         /\ xfer'.first = xfer'.req /\ IsRequest(xfer'.first)
  <2> DEFINE r == Builder(Ctx, Head(todo).opts, Head(todo).url)
  <2>1. CASE r.ok
    <3>1. Head(todo) \in Planned(job)
      BY DEF Listed, NextUrl
    <3>2. Ctx = On(job, disk)
      BY DEF Ctx, On
    <3>3. IsRequest(r.v)
      BY <1>1, <2>1, <3>1, <3>2 DEF Bound
    <3> QED BY <2>1, <3>3 DEF NextUrl, Fields
  <2>2. CASE ~r.ok
    BY <2>2 DEF NextUrl
  <2> QED BY <2>1, <2>2
<1>5. xfer'.attempt = 0 /\ xfer'.hops = 0
  BY <1>4 DEF NoXfer
<1>6. Shape'
  BY <1>1, <1>2, <1>4 DEF Shape, Idle
<1>7. Tried(0)' = {}
  BY <1>3 DEF Tried
<1>8. Current(0)'
  <2>1. (0 + 1 - 0)..0 = {}
    OBVIOUS
  <2> QED BY <1>3, <1>5, <1>7, <2>1 DEF Current
<1>9. History'
  BY <1>3, <1>4, <1>5, <1>8 DEF History, Answers
<1>10. Counts' /\ Past'
  BY <1>5 DEF Counts, Within, Past
<1>11. phase' = "check" => Carried(xfer.req, AtHome /\ Same(xfer.req.url))' /\ xfer'.req = xfer'.first
  BY <1>4, <1>5, <1>7 DEF Carried, AtHome, Same
<1>12. Luggage'
  BY <1>3, <1>4, <1>11 DEF Luggage, Bags
<1>13. Checked'
  BY <1>3, <1>4 DEF Checked
<1> QED BY <1>6, <1>9, <1>10, <1>12, <1>13 DEF TransferInv

(* A request goes out only after it was approved; a refusal is final.         *)
LEMMA CheckUrlStep ==
  ASSUME Bound, TransferInv, CheckUrl
  PROVE  TransferInv'
<1>1. phase = "check" /\ ~Idle /\ ~Idle' /\ job' = job /\ sent' = sent
  BY DEF CheckUrl, Idle
<1>2. Checker(Ctx, xfer.req.url) = CheckTarget(job, xfer.req.url)
  BY <1>1, Busy, CtxFacts DEF Bound
<1>3. \/ Approved(xfer.req.url) /\ phase' = "fetch" /\ xfer' = xfer
      \/ /\ ~Approved(xfer.req.url) /\ phase' = "attempted"
         /\ xfer' = [xfer EXCEPT !.result = Error(CheckTarget(job, xfer.req.url))]
  BY <1>2 DEF CheckUrl, Approved
<1>4. /\ DOMAIN xfer' = Fields /\ xfer'.req = xfer.req /\ xfer'.hops = xfer.hops
      /\ xfer'.first = xfer.first /\ xfer'.opts = xfer.opts /\ xfer'.attempt = xfer.attempt
      /\ phase' = "attempted" => xfer'.result = Error(CheckTarget(job, xfer.req.url))
  BY <1>1, <1>3, Busy DEF Fields
<1>5. Kept
  BY <1>1, <1>4 DEF Kept
<1>6. Shape'
  BY <1>1, <1>3, <1>4, Busy DEF Shape
<1>7. Current(xfer.hops)'
  <2>1. Current(xfer.hops)
    BY <1>1 DEF TransferInv, History
  <2> QED BY <1>4, <1>5, <2>1, KeptFacts
<1>8. phase' = "attempted" => Refused'
  <2> SUFFICES ASSUME phase' = "attempted" PROVE Refused'
    OBVIOUS
  <2>1. CheckTarget(job, xfer.req.url) \in {"HostDenied", "InvalidUrl"}
    BY <1>3, CheckAnswers DEF Approved
  <2> QED BY <1>4, <2>1 DEF Refused, Error
<1>9. History'
  BY <1>3, <1>5, <1>7, <1>8, KeptFacts DEF History
<1>10. Past' /\ Counts'
  BY <1>4, <1>5, KeptFacts DEF TransferInv, Counts, Within
<1>11. Luggage'
  <2>1. Carried(xfer.req, AtHome /\ Same(xfer.req.url)) /\ (Tried(xfer.attempt) = {} => xfer.req = xfer.first)
    BY <1>1 DEF TransferInv, Luggage
  <2>2. (Same(xfer.req.url)' <=> Same(xfer.req.url)) /\ (AtHome' <=> AtHome)
    BY <1>4, <1>5, KeptFacts
  <2>3. Carried(xfer.req, AtHome /\ Same(xfer.req.url))'
    BY <1>4, <2>1, <2>2 DEF Carried
  <2>4. Tried(xfer.attempt)' = Tried(xfer.attempt)
    BY <1>1, <1>4 DEF Tried
  <2> QED BY <1>4, <1>5, <2>1, <2>3, <2>4, KeptFacts DEF Luggage
<1>12. Checked'
  <2>1. Approved(xfer.req.url)' <=> Approved(xfer.req.url)
    BY <1>1, <1>4 DEF Approved
  <2> QED BY <1>3, <1>5, <2>1, KeptFacts DEF Checked
<1> QED BY <1>6, <1>9, <1>10, <1>11, <1>12 DEF TransferInv

(* A redirect is followed within the limit, and takes along only what may go  *)
(* to its origin.                                                             *)
LEMMA FollowRedirectStep ==
  ASSUME Bound, TransferInv, FollowRedirect
  PROVE  TransferInv'
<1> DEFINE n == NextHop(Ctx, xfer)
<1>1. phase = "answered" /\ ~Idle /\ job' = job /\ sent' = sent /\ Redirects(xfer)
  BY DEF FollowRedirect, Idle
<1>2. Redirector(Ctx, xfer) = n
  BY DEF Bound
<1>3. \/ n.k = "request" /\ Hops(xfer.req, n.req) /\ ~(xfer.hops >= MaxRedirs)
      \/ n = Error("TooManyRedirects") /\ xfer.hops >= MaxRedirs
      \/ n \in {Error("HostDenied"), Error("InvalidUrl")}
  BY <1>1, Busy, HopFacts
<1>4. n.k = "request" => phase' = "check" /\ xfer' = [xfer EXCEPT !.req = n.req, !.hops = @ + 1]
  BY <1>2 DEF FollowRedirect
<1>5. n.k # "request" => phase' = "attempted" /\ xfer' = [xfer EXCEPT !.result = n]
  BY <1>2 DEF FollowRedirect
<1> HIDE DEF n
<1>6. \A e : Error(e).k = "error" /\ Error(e).err = e
  BY DEF Error
<1>7. Current(xfer.hops + 1) /\ sent[Len(sent)].req = xfer.req /\ sent[Len(sent)].answer = xfer.result
  BY <1>1 DEF TransferInv, History
<1>8. Carried(xfer.req, AtHome /\ Same(xfer.req.url))
  BY <1>1 DEF TransferInv, Luggage
<1>9. AtHome => Same(xfer.req.url)
  <2>1. Len(sent) \in Tried(xfer.attempt)
    BY <1>1, <1>7, Busy, SentFacts
  <2> QED BY <1>7, <2>1 DEF AtHome
<1>10. CASE n.k = "request"
  <2>1. Hops(xfer.req, n.req) /\ ~(xfer.hops >= MaxRedirs)
    BY <1>3, <1>6, <1>10
  <2>2. /\ DOMAIN xfer' = Fields /\ xfer'.req = n.req /\ xfer'.hops = xfer.hops + 1
        /\ xfer'.first = xfer.first /\ xfer'.opts = xfer.opts /\ xfer'.attempt = xfer.attempt
    BY <1>1, <1>4, <1>10, Busy DEF Fields
  <2>3. Kept
    BY <1>1, <2>2 DEF Kept
  <2>4. Shape'
    BY <1>1, <1>4, <1>10, <2>1, <2>2, Busy DEF Shape, Hops
  <2>5. History'
    <3>1. PICK m : m = xfer.hops + 1
      OBVIOUS
    <3>2. Current(m)'
      BY <1>7, <2>3, <3>1, KeptFacts
    <3>3. Current(xfer.hops)'
      BY <2>2, <3>1, <3>2
    <3> QED BY <1>4, <1>10, <2>3, <3>3, KeptFacts DEF History
  <2>6. Counts'
    <3>1. xfer.first.follow_redirects
      BY <1>1 DEF Redirects
    <3>2. MaxRedirs \in Nat => xfer.hops + 1 <= MaxRedirs
      BY <1>1, <2>1, Busy
    <3> QED BY <2>2, <2>3, <3>1, <3>2, KeptFacts DEF TransferInv, Counts, Within
  <2>7. PICK q : q = n.req
    OBVIOUS
  <2>8. Luggage'
    <3>1. Carried(q, AtHome /\ Same(q.url))
      BY <1>8, <1>9, <2>1, <2>7 DEF Carried, Hops, Same
    <3>2. (Same(q.url)' <=> Same(q.url)) /\ (AtHome' <=> AtHome) /\ xfer'.req = q
      BY <2>2, <2>3, <2>7, KeptFacts
    <3>4. Carried(xfer.req, AtHome /\ Same(xfer.req.url))'
      BY <2>2, <3>1, <3>2 DEF Carried, Same
    <3>3. Tried(xfer.attempt)' # {}
      <4>1. Tried(xfer.attempt)' = Tried(xfer.attempt)
        BY <1>1, <2>2 DEF Tried
      <4> QED BY <1>1, <1>7, <4>1, Busy, SentFacts
    <3> QED BY <2>3, <3>3, <3>4, KeptFacts DEF Luggage
  <2>9. Checked'
    BY <1>4, <1>10, <2>3, KeptFacts DEF Checked
  <2> QED BY <2>3, <2>4, <2>5, <2>6, <2>8, <2>9, KeptFacts DEF TransferInv
<1>11. CASE n.k # "request"
  <2>1. /\ DOMAIN xfer' = Fields /\ xfer'.req = xfer.req /\ xfer'.hops = xfer.hops /\ xfer'.result = n
        /\ xfer'.first = xfer.first /\ xfer'.opts = xfer.opts /\ xfer'.attempt = xfer.attempt
    BY <1>1, <1>5, <1>11, Busy DEF Fields
  <2>2. Kept
    BY <1>1, <2>1 DEF Kept
  <2>3. Shape'
    BY <1>1, <1>5, <1>11, <2>1, Busy DEF Shape
  <2>4. Current(xfer.hops + 1)'
    BY <1>7, <2>1, <2>2, KeptFacts
  <2>5. Past' /\ Counts' /\ Luggage'
    BY <1>5, <1>11, <2>1, <2>2, KeptFacts DEF TransferInv, Luggage, Counts, Within
  <2>6. Checked'
    <3>1. sent # <<>>
      BY <1>1, <1>7, Busy, SentFacts
    <3> QED BY <1>1, <1>5, <1>11, <2>2, <3>1, KeptFacts DEF Checked
  <2>7. Answers' /\ phase' = "attempted"
    BY <1>5, <1>11, <2>2, KeptFacts
  <2>8. CASE n = Error("TooManyRedirects") /\ xfer.hops >= MaxRedirs
    <3>1. Overdone(sent[Len(sent)].answer, xfer.hops)'
      BY <1>1, <1>7, <2>1, <2>2, <2>8, KeptFacts DEF Overdone, Redirects
    <3>2. History'
      BY <2>1, <2>4, <2>7, <2>8, <3>1 DEF History, Error
    <3> QED BY <2>3, <2>5, <2>6, <3>2 DEF TransferInv
  <2>9. CASE n \in {Error("HostDenied"), Error("InvalidUrl")}
    <3>1. Refused'
      BY <1>6, <2>1, <2>9 DEF Refused
    <3>2. History'
      BY <2>7, <3>1 DEF History
    <3> QED BY <2>3, <2>5, <2>6, <3>2 DEF TransferInv
  <2> QED BY <1>3, <1>11, <2>8, <2>9
<1> QED BY <1>10, <1>11

(* Another attempt begins where the first began, and only after a failure     *)
(* that another one may not repeat.                                           *)
LEMMA RetryStep ==
  ASSUME TransferInv, Retry
  PROVE  TransferInv'
<1>1. phase = "attempted" /\ phase' = "check" /\ ~Idle /\ job' = job /\ sent' = sent /\ Retries(job, xfer)
  BY DEF Retry, Idle
<1>2. /\ DOMAIN xfer' = Fields /\ xfer'.req = xfer.first /\ xfer'.hops = 0
      /\ xfer'.first = xfer.first /\ xfer'.opts = xfer.opts /\ xfer'.attempt = xfer.attempt + 1
  BY <1>1, Busy DEF Retry, Fields
<1>3. PICK m : m = Len(sent)
  OBVIOUS
<1>4. PICK t : t = xfer.attempt
  OBVIOUS
<1>5. m \in Nat /\ DOMAIN sent = 1..m /\ t \in Nat
  BY <1>1, <1>3, <1>4, Busy, SentFacts
<1>6. xfer.attempt < Limit /\ Again(xfer.result)
  BY <1>1 DEF Retries, Limit, Again
<1>7. ~Refused
  BY <1>6 DEF Refused, Again, is_retryable_error, ConnectionErrors
<1>8. /\ Current(xfer.hops + 1)
      /\ \/ sent[m].answer = xfer.result
         \/ xfer.result = Error("TooManyRedirects") /\ Overdone(sent[m].answer, xfer.hops)
  BY <1>1, <1>3, <1>7 DEF TransferInv, History
<1>9. Spent(sent[m].answer, xfer.hops)
  <2>1. CASE sent[m].answer = xfer.result
    BY <1>6, <2>1 DEF Spent
  <2>2. CASE xfer.result = Error("TooManyRedirects") /\ Overdone(sent[m].answer, xfer.hops)
    <3>1. xfer.result.k = "error" /\ xfer.result.err = "TooManyRedirects"
      BY <2>2 DEF Error
    <3>2. job.tool # "wget" /\ "retry-all-errors" \in xfer.opts.on
      BY <1>6, <3>1 DEF Again, is_retryable_error, ConnectionErrors
    <3> QED BY <2>2, <3>2 DEF Spent
  <2> QED BY <1>8, <2>1, <2>2
<1>10. \A n : Tried(n)' = Tried(n)
  BY <1>1 DEF Tried
<1>11. \A a, h : Spent(a, h) => Spent(a, h)'
  <2>1. MaxRedirs' = MaxRedirs
    BY <1>2 DEF MaxRedirs
  <2>2. \A a, h : Overdone(a, h)' <=> Overdone(a, h)
    BY <1>2, <2>1 DEF Overdone
  <2> QED BY <1>1, <1>2, <2>2 DEF Spent, Again
<1>12. Past'
  <2> DEFINE Ended(n) == \E lo, hi \in DOMAIN sent :
                 lo <= hi /\ Tried(n) = lo..hi /\ Spent(sent[hi].answer, hi - lo) /\ Within(hi - lo)
  <2>1. ASSUME NEW n \in 0..t PROVE Ended(n)
    <3>1. CASE n < t
      <4>1. n \in 0..(t - 1)
        BY <1>5, <3>1
      <4> QED BY <1>4, <4>1 DEF TransferInv, Past
    <3>2. CASE n = t
      <4>1. PICK h : h = xfer.hops
        OBVIOUS
      <4>2. h \in Nat /\ h + 1 <= m /\ Tried(n) = (m + 1 - (h + 1))..m
        BY <1>1, <1>3, <1>4, <1>8, <3>2, <4>1, Busy DEF Current
      <4>3. m - h \in DOMAIN sent /\ m \in DOMAIN sent /\ m - h <= m /\ Tried(n) = (m - h)..m /\ m - (m - h) = h
        BY <1>5, <4>2
      <4>4. Within(h)
        BY <4>1 DEF TransferInv, Counts
      <4> QED BY <1>9, <4>1, <4>3, <4>4
    <3> QED BY <1>5, <3>1, <3>2
  <2>2. \A h : Within(h)' <=> Within(h)
    BY <1>2 DEF Within, MaxRedirs
  <2>3. 0..(xfer'.attempt - 1) = 0..t
    BY <1>2, <1>4, <1>5
  <2>4. ASSUME NEW n \in 0..t PROVE Ended(n)'
    <3>1. PICK lo \in DOMAIN sent, hi \in DOMAIN sent :
               lo <= hi /\ Tried(n) = lo..hi /\ Spent(sent[hi].answer, hi - lo) /\ Within(hi - lo)
      BY <2>1
    <3>2. PICK b : b = sent[hi].answer
      OBVIOUS
    <3>3. Spent(b, hi - lo)'
      BY <1>11, <3>1, <3>2
    <3>4. Spent(sent[hi].answer, hi - lo)'
      BY <1>1, <3>2, <3>3
    <3> QED BY <1>1, <1>10, <2>2, <3>1, <3>4
  <2> QED BY <2>3, <2>4 DEF Past
<1>13. \A i \in DOMAIN sent : sent[i].attempt \in 0..t /\ sent[i].answer.k \in {"error", "response"}
  BY <1>4 DEF TransferInv, History, Answers
<1>14. Tried(xfer.attempt)' = {}
  BY <1>1, <1>2, <1>4, <1>5, <1>13 DEF Tried
<1>15. History'
  <2>1. Current(xfer.hops)'
    <3>1. (m + 1 - 0)..m = {} /\ 0 <= m /\ Len(sent') = m
      BY <1>1, <1>3, <1>5
    <3>2. Tried(xfer.attempt)' = (m + 1 - 0)..m
      BY <1>14, <3>1
    <3> QED BY <1>2, <3>1, <3>2 DEF Current
  <2>2. Answers'
    BY <1>1, <1>2, <1>4, <1>5, <1>13 DEF Answers
  <2> QED BY <1>1, <2>1, <2>2 DEF History
<1>16. Counts'
  <2>1. Limit' = Limit
    BY <1>1, <1>2 DEF Limit
  <2>2. Limit \in Int => xfer.attempt + 1 <= Limit
    BY <1>4, <1>5, <1>6
  <2> QED BY <1>2, <2>1, <2>2 DEF Counts, Within
<1>17. Shape'
  BY <1>1, <1>2, Busy DEF Shape
<1>18. Luggage'
  <2>1. Carried(xfer.req, AtHome /\ Same(xfer.req.url))'
    BY <1>2, <1>14 DEF Carried, AtHome, Same
  <2>2. Bags'
    BY <1>1, <1>2 DEF TransferInv, Luggage, Bags, Carried, Home, Chain
  <2> QED BY <1>2, <2>1, <2>2 DEF Luggage
<1>19. Checked'
  BY <1>1 DEF TransferInv, Checked, Approved
<1> QED BY <1>12, <1>15, <1>16, <1>17, <1>18, <1>19 DEF TransferInv

(* What is sent was approved, and carries what the request under way does.    *)
LEMMA FetchStep ==
  ASSUME Bound, TransferInv, Fetch
  PROVE  TransferInv'
<1>1. phase = "fetch" /\ phase' = "answered" /\ ~Idle /\ job' = job
  BY DEF Fetch, Idle
<1>2. PICK a \in Backend(Ctx, xfer.req) :
           /\ xfer' = [xfer EXCEPT !.result = a]
           /\ sent' = Append(sent, [req |-> xfer.req, attempt |-> xfer.attempt, answer |-> a])
  BY DEF Fetch
<1>3. a.k \in {"error", "response"}
  BY <1>1, <1>2, Busy DEF Bound, Ctx, On
<1>4. /\ DOMAIN xfer' = Fields /\ xfer'.req = xfer.req /\ xfer'.hops = xfer.hops /\ xfer'.result = a
      /\ xfer'.first = xfer.first /\ xfer'.opts = xfer.opts /\ xfer'.attempt = xfer.attempt
  BY <1>1, <1>2, Busy DEF Fields
<1>5. PICK e : e = [req |-> xfer.req, attempt |-> xfer.attempt, answer |-> a]
  OBVIOUS
<1>6. e.req = xfer.req /\ e.attempt = xfer.attempt /\ e.answer = a
  BY <1>5
<1>7. PICK m : m = Len(sent)
  OBVIOUS
<1>8. /\ IsSeq(sent') /\ m \in Nat /\ DOMAIN sent = 1..m /\ Len(sent') = m + 1 /\ DOMAIN sent' = 1..(m + 1)
      /\ sent'[m + 1] = e /\ \A i \in 1..m : sent'[i] = sent[i]
  <2>1. PICK S : sent \in Seq(S)
    BY <1>1, Busy DEF IsSeq
  <2>2. sent \in Seq(S \cup {e})
    BY <2>1
  <2>3. sent' = Append(sent, e)
    BY <1>2, <1>5
  <2>4. sent' \in Seq(S \cup {e}) /\ Len(sent') = m + 1 /\ sent'[m + 1] = e /\ \A i \in 1..m : sent'[i] = sent[i]
    BY <1>7, <2>2, <2>3, AppendProperties
  <2> QED BY <1>7, <2>1, <2>4 DEF IsSeq
<1>9. PICK t : t = xfer.attempt
  OBVIOUS
<1>10. t \in Nat /\ \A i \in 1..m : sent[i].attempt \in 0..t /\ sent[i].answer.k \in {"error", "response"}
  BY <1>1, <1>8, <1>9, Busy DEF TransferInv, History, Answers
<1>11. Shape'
  BY <1>1, <1>4, <1>8, Busy DEF Shape, Idle
<1>12. \A n : n # t => Tried(n)' = Tried(n)
  BY <1>6, <1>8, <1>9 DEF Tried
<1>13. Tried(t)' = Tried(t) \cup {m + 1}
  BY <1>6, <1>8, <1>9 DEF Tried
<1>14. Current(xfer.hops + 1)'
  <2>1. PICK h : h = xfer.hops
    OBVIOUS
  <2>2. h \in Nat /\ Tried(t) = (m + 1 - h)..m /\ h <= m
    BY <1>1, <1>7, <1>9, <2>1, Busy DEF TransferInv, History, Current
  <2>3. Tried(t)' = (m + 1 + 1 - (h + 1))..(m + 1)
    BY <1>8, <1>13, <2>2
  <2> QED BY <1>4, <1>8, <1>9, <2>1, <2>2, <2>3 DEF Current
<1>15. History'
  <2>1. Answers'
    BY <1>3, <1>4, <1>6, <1>8, <1>9, <1>10 DEF Answers
  <2> QED BY <1>1, <1>4, <1>6, <1>8, <1>14, <2>1 DEF History
<1>16. MaxRedirs' = MaxRedirs /\ Limit' = Limit
  BY <1>1, <1>4 DEF MaxRedirs, Limit
<1>17. Counts'
  BY <1>4, <1>16 DEF TransferInv, Counts, Within
<1>18. Past'
  <2> SUFFICES ASSUME NEW n \in 0..(t - 1)
               PROVE  \E lo, hi \in DOMAIN sent' :
                          lo <= hi /\ Tried(n)' = lo..hi /\ Spent(sent[hi].answer, hi - lo)' /\ Within(hi - lo)'
    BY <1>4, <1>9 DEF Past
  <2>1. PICK lo \in DOMAIN sent, hi \in DOMAIN sent :
             lo <= hi /\ Tried(n) = lo..hi /\ Spent(sent[hi].answer, hi - lo) /\ Within(hi - lo)
    BY <1>9 DEF TransferInv, Past
  <2>2. Tried(n)' = lo..hi
    BY <1>10, <1>12, <2>1
  <2>3. PICK b : b = sent[hi].answer
    OBVIOUS
  <2>4. Spent(b, hi - lo)'
    <3>1. Overdone(b, hi - lo)' <=> Overdone(b, hi - lo)
      BY <1>4, <1>16 DEF Overdone
    <3> QED BY <1>1, <1>4, <2>1, <2>3, <3>1 DEF Spent, Again
  <2>5. Spent(sent[hi].answer, hi - lo)'
    BY <1>8, <2>1, <2>3, <2>4
  <2>6. Within(hi - lo)'
    BY <1>16, <2>1 DEF Within
  <2> QED BY <1>8, <2>1, <2>2, <2>5, <2>6
<1>19. \A i \in 1..m : Chain(i)' = Chain(i)
  <2> SUFFICES ASSUME NEW i \in 1..m PROVE Chain(i)' = Chain(i)
    OBVIOUS
  <2>1. \A j \in 1..i : sent'[j] = sent[j]
    BY <1>8
  <2> QED BY <1>8, <2>1 DEF Chain
<1>20. \A i \in 1..m : Home(i)' <=> Home(i)
  <2> SUFFICES ASSUME NEW i \in 1..m PROVE Home(i)' <=> Home(i)
    OBVIOUS
  <2>1. \A j \in Chain(i) : sent'[j] = sent[j]
    BY <1>8 DEF Chain
  <2> QED BY <1>4, <1>19, <2>1 DEF Home
<1>21. Chain(m + 1)' = Tried(t) \cup {m + 1}
  <2>1. Chain(m + 1)' = {j \in 1..(m + 1) : sent'[j].attempt = t}
    BY <1>6, <1>8, <1>9 DEF Chain
  <2> QED BY <1>8, <1>13, <2>1 DEF Tried
<1>22. Home(m + 1)' <=> AtHome /\ Same(xfer.req.url)
  <2>1. \A j \in Tried(t) : sent'[j] = sent[j] /\ j \in 1..m
    BY <1>8 DEF Tried
  <2> QED BY <1>4, <1>6, <1>8, <1>9, <1>21, <2>1 DEF Home, AtHome, Same
<1>23. Carried(xfer.req, AtHome /\ Same(xfer.req.url))
  BY <1>1 DEF TransferInv, Luggage
<1>24. Bags'
  <2> SUFFICES ASSUME NEW i \in 1..(m + 1)
               PROVE  Carried(sent[i].req, Home(i))' /\ (Chain(i) = {i} => sent[i].req = xfer.first)'
    BY <1>8 DEF Bags
  <2>1. CASE i \in 1..m
    <3>1. Carried(sent[i].req, Home(i)) /\ (Chain(i) = {i} => sent[i].req = xfer.first)
      BY <1>8, <2>1 DEF TransferInv, Luggage, Bags
    <3> QED BY <1>4, <1>8, <1>19, <1>20, <2>1, <3>1 DEF Carried
  <2>2. CASE i = m + 1
    <3>1. Chain(i)' = {i} => Tried(t) = {}
      BY <1>8, <1>21, <2>2 DEF Tried
    <3>2. Tried(t) = {} => xfer.req = xfer.first
      BY <1>1, <1>9 DEF TransferInv, Luggage
    <3> QED BY <1>4, <1>6, <1>8, <1>22, <1>23, <2>2, <3>1, <3>2 DEF Carried
  <2> QED BY <1>8, <2>1, <2>2
<1>25. Luggage'
  <2>1. AtHome' <=> AtHome /\ Same(xfer.req.url)
    <3>1. \A j \in Tried(t) : sent'[j] = sent[j]
      BY <1>8 DEF Tried
    <3> QED BY <1>4, <1>6, <1>8, <1>9, <1>13, <3>1 DEF AtHome, Same
  <2>2. Same(xfer.req.url)' <=> Same(xfer.req.url)
    BY <1>4 DEF Same
  <2>3. Carried(xfer.req, AtHome /\ Same(xfer.req.url))'
    BY <1>4, <1>23, <2>1, <2>2 DEF Carried
  <2> QED BY <1>1, <1>24, <2>3 DEF Luggage
<1>26. Checked'
  <2>1. Approved(xfer.req.url) /\ \A i \in 1..m : Approved(sent[i].req.url)
    BY <1>1, <1>8 DEF TransferInv, Checked
  <2> QED BY <1>1, <1>6, <1>8, <2>1 DEF Checked, Approved
<1> QED BY <1>11, <1>15, <1>17, <1>18, <1>25, <1>26 DEF TransferInv

LEMMA TransferStep ==
  ASSUME Bound, Listed, TransferInv, [Next]_vars
  PROVE  TransferInv'
<1>1. CASE UNCHANGED vars
  <2>1. Kept /\ xfer' = xfer /\ phase' = phase
    BY <1>1 DEF vars, Kept
  <2>2. Shape'
    BY <2>1 DEF TransferInv, Shape, Idle, Kept
  <2>3. Past' /\ Counts'
    BY <2>1, KeptFacts DEF TransferInv, Counts, Within
  <2>4. History'
    <3>1. PICK h : h = xfer.hops
      OBVIOUS
    <3>2. (Current(h)' <=> Current(h)) /\ (Current(h + 1)' <=> Current(h + 1)) /\ xfer'.hops = h
      BY <2>1, <3>1, KeptFacts
    <3>3. \A a : Overdone(a, h)' <=> Overdone(a, h)
      BY <2>1, KeptFacts DEF Overdone
    <3> QED BY <2>1, <3>1, <3>2, <3>3, KeptFacts DEF TransferInv, History, Refused, Kept
  <2>5. Luggage'
    <3>1. AtHome' <=> AtHome
      BY <2>1, KeptFacts
    <3>2. Carried(xfer.req, AtHome /\ Same(xfer.req.url)) => Carried(xfer.req, AtHome /\ Same(xfer.req.url))'
      BY <2>1, <3>1 DEF Carried, Same
    <3>3. Tried(xfer.attempt)' = Tried(xfer.attempt)
      BY <2>1 DEF Kept, Tried
    <3> QED BY <2>1, <3>2, <3>3, KeptFacts DEF TransferInv, Luggage
  <2>6. Checked'
    BY <2>1 DEF TransferInv, Checked, Approved, Kept
  <2> QED BY <2>2, <2>3, <2>4, <2>5, <2>6 DEF TransferInv
<1>2. CASE ParseArgs \/ Finish
  BY <1>2, IdleStep
<1>3. CASE NextUrl
  BY <1>3, NextUrlStep
<1>4. CASE CheckUrl
  BY <1>4, CheckUrlStep
<1>5. CASE Fetch
  BY <1>5, FetchStep
<1>6. CASE FollowRedirect
  BY <1>6, FollowRedirectStep
<1>7. CASE Settle
  BY <1>7, SettleStep
<1>8. CASE Retry
  BY <1>8, RetryStep
<1>9. CASE Deliver
  BY <1>9, DeliverStep
<1> QED BY <1>1, <1>2, <1>3, <1>4, <1>5, <1>6, <1>7, <1>8, <1>9 DEF Next

LEMMA TransferInvariant == Bound => (Spec => []TransferInv)
<1> SUFFICES ASSUME Bound PROVE Spec => []TransferInv
    OBVIOUS
<1>1. Init => TransferInv
  BY InitInv
<1>2. Listed /\ TransferInv /\ [Next]_vars => TransferInv'
  BY TransferStep
<1> QED BY <1>1, <1>2, ListedInvariant, PTL DEF Spec

-----------------------------------------------------------------------------
(* What follows.                                                              *)

(* Where the command line was understood, retries and redirects stay within   *)
(* what it asks for, and every attempt but the last has reached a server and  *)
(* ended in a failure that can pass (fetch_with_retries, wget_fetch_one).     *)
THEOREM RetriesAlwaysJustified == Bound => (Spec => [](Understood => RetriesJustified))
<1> SUFFICES ASSUME Bound PROVE Spec => [](Understood => RetriesJustified)
    OBVIOUS
<1>1. TransferInv => (Understood => RetriesJustified)
  <2> SUFFICES ASSUME TransferInv, Understood PROVE RetriesJustified
    OBVIOUS
  <2>1. CASE xfer = NoXfer
    <3>1. xfer.attempt = 0 /\ xfer.hops = 0
      BY <2>1 DEF NoXfer
    <3> QED BY <3>1 DEF RetriesJustified, Understood
  <2>2. CASE xfer # NoXfer
    <3>1. xfer.attempt \in Nat /\ xfer.hops \in Nat
      BY <2>2 DEF TransferInv, Shape
    <3>2. /\ job.want.retry \in Nat /\ job.want.redirs \in Nat /\ Limit \in Int /\ Limit <= job.want.retry
          /\ xfer.first.follow_redirects => MaxRedirs = job.want.redirs
          /\ "retry-all-errors" \in xfer.opts.on => job.want.all
          /\ "retry-connrefused" \in xfer.opts.on \/ job.tool = "wget" => job.want.refused
      BY <2>2 DEF Understood
    <3>3. xfer.attempt <= job.want.retry /\ xfer.hops <= job.want.redirs
      BY <3>1, <3>2 DEF TransferInv, Counts, Within
    <3>4. ASSUME NEW n \in 0..(xfer.attempt - 1)
          PROVE  \E lo, hi \in DOMAIN sent : lo <= hi /\ Tried(n) = lo..hi /\ Passes(sent[hi].answer, hi - lo)
      <4>1. PICK lo \in DOMAIN sent, hi \in DOMAIN sent :
                 lo <= hi /\ Tried(n) = lo..hi /\ Spent(sent[hi].answer, hi - lo) /\ Within(hi - lo)
        BY <3>4 DEF TransferInv, Past
      <4>2. sent[hi].answer.k \in {"error", "response"}
        BY DEF TransferInv, History, Answers
      <4>3. PICK a, h : a = sent[hi].answer /\ h = hi - lo
        OBVIOUS
      <4>4. h \in Nat
        BY <4>1, <4>3, SentFacts
      <4>5. Passes(a, h)
        <5>1. CASE Again(a)
          <6>1. CASE job.tool = "wget"
            BY <3>2, <5>1, <6>1 DEF Again, Passes, ConnectionErrors
          <6>2. CASE job.tool # "wget" /\ a.k = "error"
            <7>1. is_retryable_error(a.err, xfer.opts)
              BY <5>1, <6>2 DEF Again
            <7> QED BY <3>2, <6>2, <7>1 DEF Passes, is_retryable_error
          <6>3. CASE job.tool # "wget" /\ a.k # "error"
            <7>1. is_retryable_status(a.status, xfer.opts)
              BY <5>1, <6>3 DEF Again
            <7>2. a.k = "response" /\ job.tool = "curl"
              BY <4>2, <4>3, <6>3, JobsAssumption DEF TransferInv, Shape
            <7> QED BY <3>2, <7>1, <7>2 DEF Passes, is_retryable_status
          <6> QED BY <6>1, <6>2, <6>3
        <5>2. CASE "retry-all-errors" \in xfer.opts.on /\ Overdone(a, h)
          <6>1. h >= MaxRedirs /\ MaxRedirs = job.want.redirs /\ a.k = "response" /\ a.location # {}
            BY <3>2, <5>2 DEF Overdone
          <6>2. h = job.want.redirs
            BY <3>2, <4>1, <4>3, <4>4, <6>1 DEF Within
          <6> QED BY <3>2, <5>2, <6>1, <6>2 DEF Passes
        <5> QED BY <4>1, <4>3, <5>1, <5>2 DEF Spent
      <4> QED BY <4>1, <4>3, <4>5
    <3> QED BY <3>3, <3>4 DEF RetriesJustified
  <2> QED BY <2>1, <2>2
<1> QED BY <1>1, TransferInvariant, PTL

(* Where the first request was built as meant, what is sent carries the       *)
(* credentials, the method and the body asked for as long as the redirects    *)
(* stay at the first origin and no credentials ever after                     *)
(* (fetch_with_redirects, strip_cross_origin_sensitive_headers).              *)
THEOREM CredentialsAlwaysStay == Bound => (Spec => [](BuiltAsMeant => CredentialsStay))
<1> SUFFICES ASSUME Bound PROVE Spec => [](BuiltAsMeant => CredentialsStay)
    OBVIOUS
<1>1. TransferInv => (BuiltAsMeant => CredentialsStay)
  <2> SUFFICES ASSUME TransferInv, BuiltAsMeant, NEW i \in DOMAIN sent, NEW r, r = sent[i].req
               PROVE  /\ Secrets(r.headers) = IF Home(i) THEN job.want.secrets ELSE {}
                      /\ HasSigV4(r.headers) => Home(i)
                      /\ Chain(i) = {i} => r.method = job.want.method /\ r.body = job.want.body
                      /\ r.body # {} => r.method = job.want.method /\ r.body = job.want.body
                      /\ r.body = {} /\ job.want.body # {} => r.method = "GET"
    BY DEF CredentialsStay
  <2>1. sent # <<>>
    OBVIOUS
  <2>2. /\ Secrets(xfer.first.headers) = job.want.secrets
        /\ xfer.first.method = job.want.method /\ xfer.first.body = job.want.body
    BY <2>1 DEF BuiltAsMeant
  <2>3. Carried(r, Home(i)) /\ (Chain(i) = {i} => r = xfer.first)
    BY DEF TransferInv, Luggage, Bags
  <2> QED BY <2>2, <2>3 DEF Carried
<1> QED BY <1>1, TransferInvariant, PTL

(* Where the policy decides as its rules mean, only URLs they stand for reach *)
(* a server, at every hop of every attempt, and nothing else keeps a request  *)
(* from its server (NetworkPolicy::check, fetch_with_redirects).              *)
THEOREM PolicyAlwaysObeyed == Bound => (Spec => [](DecidedAsMeant => PolicyObeyed))
<1> SUFFICES ASSUME Bound PROVE Spec => [](DecidedAsMeant => PolicyObeyed)
    OBVIOUS
<1>1. TransferInv => (DecidedAsMeant => PolicyObeyed)
  <2> SUFFICES ASSUME TransferInv, DecidedAsMeant, job.backend = "policy" PROVE PolicyObeyed
    BY DEF PolicyObeyed
  <2>1. \A i \in DOMAIN sent : Permitted(job.config, sent[i].req.url)
    BY DEF TransferInv, Checked, DecidedAsMeant
  <2>2. phase = "attempted" /\ sent = << >> => ~Permitted(job.config, xfer.req.url)
    BY DEF TransferInv, Checked, DecidedAsMeant, Idle
  <2> QED BY <2>1, <2>2 DEF PolicyObeyed
<1> QED BY <1>1, TransferInvariant, PTL
=============================================================================
