------------------------------ MODULE Transfers -------------------------------
(* A run of curl or wget: the arguments are parsed, and the transfers are     *)
(* made one after the other, each a request that is checked, sent, redirected *)
(* and tried again until its response is delivered.  The steps are those of   *)
(* NetworkClient, named here as constants.                                    *)
EXTENDS NetworkClient

CONSTANTS
    Jobs,               \* the commands, each with its policy, its disk, what the servers may answer
                        \* and what the command means
    Parser(_),          \* Work
    Builder(_, _, _),   \* Build
    Checker(_, _),      \* CheckTarget
    Backend(_, _),      \* backend_fetch
    Redirector(_, _),   \* NextHop
    Concluder(_, _, _, _)   \* Conclude

ASSUME JobsAssumption ==
    \A j \in Jobs :
        {"tool", "backend", "policy", "config", "want", "disk"} \subseteq DOMAIN j /\ j.tool \in {"curl", "wget"}

VARIABLES
    job,        \* the command being run
    phase,      \* where it is
    todo,       \* the transfers not yet begun: options and URL
    xfer,       \* the transfer under way
    sent,       \* the requests handed to the backend for it, with their answers, in order
    disk,       \* files and directories by path
    out,        \* what went to standard output
    status      \* the exit status so far: the last one that was not zero

vars == <<job, phase, todo, xfer, sent, disk, out, status>>

Ctx == [job EXCEPT !.disk = disk]
NoXfer == [opts |-> NoOpts, result |-> Error("none"), attempt |-> 0, hops |-> 0, code |-> 0]

Init ==
    /\ job \in Jobs
    /\ phase = "parse" /\ todo = << >> /\ xfer = NoXfer /\ sent = << >>
    /\ disk = job.disk /\ out = << >> /\ status = 0

(* util_curl and util_wget up to their loop over the URLs: a command line     *)
(* that is refused or names no URL ends with 2, a host without network with 1.*)
ParseArgs ==
    /\ phase = "parse"
    /\ todo' = Parser(Ctx)
    /\ phase' = IF todo' = << >> \/ job.backend = "none" THEN "done" ELSE "next"
    /\ status' = IF todo' = << >> THEN 2 ELSE IF job.backend = "none" THEN 1 ELSE status
    /\ UNCHANGED <<job, xfer, sent, disk, out>>

(* run_single_url builds the request; one that cannot be built costs status 2. *)
NextUrl ==
    /\ phase = "next" /\ todo # << >>
    /\ LET o == Head(todo).opts
           url == Head(todo).url
           r == Builder(Ctx, o, url)
       IN  IF r.ok
           THEN /\ phase' = "check" /\ UNCHANGED status
                /\ xfer' = [opts |-> o, url |-> url, first |-> r.v, req |-> r.v, hops |-> 0, attempt |-> 0,
                            result |-> Error("none"), code |-> 0]
           ELSE phase' = "next" /\ status' = 2 /\ xfer' = NoXfer
    /\ todo' = Tail(todo) /\ sent' = << >>
    /\ UNCHANGED <<job, disk, out>>

(* The top of the loop of fetch_with_redirects. *)
CheckUrl ==
    /\ phase = "check"
    /\ LET v == Checker(Ctx, xfer.req.url)
       IN  IF v = "ok" THEN phase' = "fetch" /\ UNCHANGED xfer
           ELSE phase' = "attempted" /\ xfer' = [xfer EXCEPT !.result = Error(v)]
    /\ UNCHANGED <<job, todo, sent, disk, out, status>>

Fetch ==
    /\ phase = "fetch"
    /\ \E a \in Backend(Ctx, xfer.req) :
           /\ xfer' = [xfer EXCEPT !.result = a]
           /\ sent' = Append(sent, [req |-> xfer.req, attempt |-> xfer.attempt, answer |-> a])
    /\ phase' = "answered"
    /\ UNCHANGED <<job, todo, disk, out, status>>

FollowRedirect ==
    /\ phase = "answered" /\ Redirects(xfer)
    /\ LET n == Redirector(Ctx, xfer)
       IN  IF n.k = "request" THEN phase' = "check" /\ xfer' = [xfer EXCEPT !.req = n.req, !.hops = @ + 1]
           ELSE phase' = "attempted" /\ xfer' = [xfer EXCEPT !.result = n]
    /\ UNCHANGED <<job, todo, sent, disk, out, status>>

Settle ==
    /\ phase = "answered" /\ ~Redirects(xfer)
    /\ phase' = "attempted"
    /\ UNCHANGED <<job, todo, xfer, sent, disk, out, status>>

(* Another attempt begins from the request as it was built. *)
Retry ==
    /\ phase = "attempted" /\ Retries(job, xfer)
    /\ phase' = "check" /\ xfer' = [xfer EXCEPT !.attempt = @ + 1, !.req = xfer.first, !.hops = 0]
    /\ UNCHANGED <<job, todo, sent, disk, out, status>>

(* The disk may be full at either of the two writes, or hold no directory     *)
(* more.                                                                      *)
Deliver ==
    /\ phase = "attempted" /\ ~Retries(job, xfer)
    /\ \E full \in SUBSET {"dirs", "head", "body"} :
           LET w == Concluder(Ctx, Wrote(disk, out, 0), xfer, full)
           IN  /\ disk' = w.disk /\ out' = w.out /\ xfer' = [xfer EXCEPT !.code = w.code]
               /\ status' = IF w.code # 0 THEN w.code ELSE status
    /\ phase' = "next"
    /\ UNCHANGED <<job, todo, sent>>

Finish ==
    /\ phase = "next" /\ todo = << >>
    /\ phase' = "done"
    /\ UNCHANGED <<job, todo, xfer, sent, disk, out, status>>

Next == ParseArgs \/ NextUrl \/ CheckUrl \/ Fetch \/ FollowRedirect \/ Settle \/ Retry \/ Deliver \/ Finish

(* The transport is a blocking call that answers or fails. *)
Spec == Init /\ [][Next]_vars /\ WF_vars(Next)
-----------------------------------------------------------------------------
(* What was asked for.  job.want says what a command line means: retries and  *)
(* redirects, which failures to try again, secrets, method and body.          *)
(* job.config has the rules of the policy with their meaning: the labels of a *)
(* host, whether it stands for its subdomains, and a port.                    *)

Anywhere == << >>
LabelsOf(u) == SelectSeq(Split(u.host, "."), LAMBDA l : l # << >>)
PortOf(u) == IF u.port # {} THEN u.port ELSE IF u.scheme = "https" THEN {443} ELSE {80}
Covers(m, u) ==
    /\ m.port = {} \/ m.port = PortOf(u)
    /\ LET ls == LabelsOf(u) IN IF m.wild THEN m.labels = Anywhere \/ (IsSuffix(m.labels, ls) /\ ls # m.labels) ELSE ls = m.labels
CoveredBy(rules, u) == \E i \in DOMAIN rules : \E m \in rules[i].means : Covers(m, u)
Sound(rules) == \A i \in DOMAIN rules : rules[i].means # {}
Permitted(c, u) ==
    /\ c.enabled /\ Sound(c.allow) /\ Sound(c.deny) /\ u.scheme \in {"http", "https"} /\ ~u.userinfo
    /\ ~CoveredBy(c.deny, u) /\ (c.default = "allow" \/ CoveredBy(c.allow, u))

(* Only URLs the policy's rules stand for reach a server, whichever hop of    *)
(* whichever attempt asks for them; and a URL they stand for is not refused   *)
(* (NetworkPolicy::check, fetch_with_redirects).                              *)
PolicyObeyed ==
    /\ \A i \in DOMAIN sent : job.backend = "policy" => Permitted(job.config, sent[i].req.url)
    /\ phase = "attempted" /\ xfer.result.k = "error" /\ sent = << >> /\ job.backend = "policy" => ~Permitted(job.config, xfer.req.url)

(* The requests of one attempt up to a given one.                             *)
Chain(i) == {j \in 1..i : sent[j].attempt = sent[i].attempt}
Home(i) == \A j \in Chain(i) : Origin(sent[j].req.url) = Origin(xfer.first.url)
Secrets(hs) == {hs[h][1] : h \in DOMAIN hs} \cap Sensitive

(* What is sent is what the command line meant: the first server of every     *)
(* attempt gets the credentials, the method and the body asked for.  Once a   *)
(* chain of redirects has left the first server's origin no later request     *)
(* carries them, even one that comes back; nothing signed leaves it at all.   *)
(* A body goes with the method it was given for or not at all.                *)
CredentialsStay ==
    \A i \in DOMAIN sent :
        LET r == sent[i].req
        IN  /\ Secrets(r.headers) = IF Home(i) THEN job.want.secrets ELSE {}
            /\ HasSigV4(r.headers) => Home(i)
            /\ Chain(i) = {i} => r.method = job.want.method /\ r.body = job.want.body
            /\ r.body # {} => r.method = job.want.method /\ r.body = job.want.body
            /\ r.body = {} /\ job.want.body # {} => r.method = "GET"

(* A failure that can pass, after so many redirects.                          *)
Passes(a, hops) ==
    \/ a.k = "error" /\ a.err \in {"Timeout", "ConnectionFailed"}
    \/ a.k = "error" /\ a.err = "ConnectionRefused" /\ (job.want.refused \/ job.want.all)
    \/ a.k = "error" /\ job.want.all
    \/ a.k = "response" /\ job.tool = "curl" /\ (a.status \in {408, 429} \/ a.status \in {500, 502, 503, 504})
    \/ a.k = "response" /\ job.want.all /\ (a.status >= 400 \/ (a.location # {} /\ hops = job.want.redirs))

Tried(n) == {i \in DOMAIN sent : sent[i].attempt = n}

(* Attempts and hops stay within what was asked for, and every attempt but    *)
(* the last reached a server and ended in a failure that can pass: never in a *)
(* refusal, which another attempt would only repeat (fetch_with_retries,      *)
(* wget_fetch_one).  The requests of an attempt follow each other.            *)
RetriesJustified ==
    /\ xfer.attempt <= job.want.retry /\ xfer.hops <= job.want.redirs
    /\ \A n \in 0..(xfer.attempt - 1) :
           \E lo, hi \in DOMAIN sent : lo <= hi /\ Tried(n) = lo..hi /\ Passes(sent[hi].answer, hi - lo)
-----------------------------------------------------------------------------
(* Where parsing, building and deciding do what they are meant to.  The       *)
(* properties above are proved from these, which are about a single call of   *)
(* Parser, Builder or Checker.                                                *)

Idle == phase \in {"parse", "next", "done"}
MaxRedirs == IF xfer.first.max_redirs = {} THEN DefaultRedirs ELSE CHOOSE n \in xfer.first.max_redirs : TRUE
Approved(u) == CheckTarget(job, u) = "ok"

(* How often a command may try again.                                         *)
Limit == IF job.tool = "curl" THEN Num(xfer.opts, "retry", 0) ELSE Num(xfer.opts, "tries", 0) - 1

(* The command line was understood: the options of the transfer say what it   *)
(* means.                                                                     *)
Understood ==
    LET w == job.want
        o == xfer.opts
    IN  /\ w.retry \in Nat /\ w.redirs \in Nat
        /\ xfer # NoXfer =>
               /\ Limit \in Int /\ Limit <= w.retry
               /\ xfer.first.follow_redirects => MaxRedirs = w.redirs
               /\ "retry-all-errors" \in o.on => w.all
               /\ "retry-connrefused" \in o.on \/ job.tool = "wget" => w.refused

(* The request was built as meant.                                            *)
BuiltAsMeant ==
    sent # << >> =>
        LET f == xfer.first
        IN  Secrets(f.headers) = job.want.secrets /\ f.method = job.want.method /\ f.body = job.want.body

(* The policy decides on a URL as its rules mean.                             *)
DecidedAsMeant ==
    LET urls == {sent[i].req.url : i \in DOMAIN sent} \cup (IF Idle THEN {} ELSE {xfer.req.url})
    IN  job.backend = "policy" => \A u \in urls : Approved(u) <=> Permitted(job.config, u)
=============================================================================
