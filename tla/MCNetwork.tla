------------------------------ MODULE MCNetwork ------------------------------
(* Commands with what they are meant to do.  The properties judge the client  *)
(* by the meaning - the hosts a rule stands for, the limits and the place the *)
(* user asked for - and not by the options the parser read.                   *)
EXTENDS Transfers

-----------------------------------------------------------------------------
(* Rules and their meaning: the labels of a host, whether it stands for its   *)
(* subdomains, and a port.  A rule that means nothing is refused as a whole.  *)

R(text, labels, wild, port) == [text |-> text, means |-> {[labels |-> labels, wild |-> wild, port |-> port]}]
Meaningless(text) == [text |-> text, means |-> {}]

RuleA     == R(<<"a">>, <<<<"a">>>>, FALSE, {})
RuleSubA  == R(<<"*", ".", "a">>, <<<<"a">>>>, TRUE, {})
RuleSubBA == R(<<"*", ".", "b", ".", "a", ".">>, <<<<"b">>, <<"a">>>>, TRUE, {})
RuleA8    == R(<<"a", ":", "8">>, <<<<"a">>>>, FALSE, {8})
RuleAll   == R(<<"*">>, Anywhere, TRUE, {})
RuleAll8  == R(<<"*", ":", "8">>, Anywhere, TRUE, {8})
RuleSubAUp == R(<<"*", ".", "A">>, <<<<"a">>>>, TRUE, {})
RuleV4    == R(<<"0x">>, <<<<V4>>>>, FALSE, {})
RuleV6    == R(<<"[", V6, "]", ":", "4", "4", "3">>, <<<<V6>>>>, FALSE, {443})
Broken    == {Meaningless(t) : t \in {<<"a", "*">>, <<"*", ".">>, <<V6>>, <<"[", "a", "]">>, <<"a", ":">>, <<"a", "/">>, <<"a", "\\", "b">>, <<"*", ".", "0x">>, <<"[", V4, "]">>, <<" ", "a">>,
                                      <<"*", ".", V6>>, <<"-", "a">>, <<"a", ".", ".">>}}

Config(enabled, default, allow, deny) == [enabled |-> enabled, default |-> default, allow |-> allow, deny |-> deny]
Texts(rules) == [i \in DOMAIN rules |-> rules[i].text]
PolicyOf(c) == try_from_config([c EXCEPT !.allow = Texts(@), !.deny = Texts(@)])
Open == Config(TRUE, "allow", << >>, << >>)
Configs ==
    {Config(TRUE, "deny", <<r>>, << >>) : r \in {RuleA, RuleSubA, RuleSubBA, RuleA8, RuleAll, RuleAll8, RuleV6, RuleSubAUp, RuleV4} \cup Broken}
    \cup {Config(TRUE, d, <<RuleAll, r>>, <<q>>) : d \in {"allow", "deny"}, r \in {RuleA}, q \in {RuleA, RuleSubA, RuleAll8, RuleV6, RuleV4}}
    \cup {Config(TRUE, "allow", << >>, <<q>>) : q \in {RuleA, RuleSubA, RuleA8} \cup Broken}
    \cup {Config(FALSE, "allow", <<RuleAll>>, << >>), Config(TRUE, "deny", << >>, << >>)}

U(scheme, host, port) == [scheme |-> scheme, userinfo |-> FALSE, host |-> host, port |-> port, path |-> <<<<"x">>>>, query |-> << >>]
A   == U("http", <<"a">>, {})
A8  == U("http", <<"a">>, {8})
As  == U("https", <<"a">>, {})
BA  == U("http", <<"b", ".", "a">>, {})
CBA == U("http", <<"c", ".", "b", ".", "a", ".">>, {})
Lookalike == U("http", <<"b", "a">>, {80})
Address == U("https", <<V6>>, {})
Address4 == U("http", <<V4>>, {})
Ftp == U("ftp", <<"a">>, {})
User == [A EXCEPT !.userinfo = TRUE]
Urls == {A, A8, As, BA, CBA, Lookalike, Address, Address4, Ftp, User}

-----------------------------------------------------------------------------
(* Answers.                                                                   *)

Reply(s) == [k |-> "response", status |-> s, location |-> {}, body |-> <<"x", "y">>, encoding |-> "none", plain |-> {}, disposition |-> {}]
Moved(s, l) == [Reply(s) EXCEPT !.location = {l}]
To(u) == <<"abs", u>>
Zipped(plain) == [Reply(200) EXCEPT !.encoding = "gzip", !.plain = plain]
Titled(name) == [Reply(200) EXCEPT !.disposition = {name}]
Titles == {<<"x">>, <<".", ".">>, <<".", "^", ".">>, <<"/", "x">>, <<".", ".", "/", "y", "/">>, <<"-", "x">>, <<"n", "u", "l", ".", "x">>, <<"^">>, <<"y", "\\", "x", "x", "x">>}

Wandering == {Reply(200)} \cup {Moved(302, To(u)) : u \in {A, BA, Lookalike, Address, Ftp, User}} \cup {Moved(307, <<"rel", <<<<"y">>>>>>)}
Roaming == {Reply(200), Reply(503), Error("Timeout")} \cup {Moved(s, To(u)) : s \in {301, 307}, u \in {A, As, BA}} \cup {Moved(308, <<"rel", <<<<"y">>>>>>), Moved(302, <<"bad">>), Reply(304)}
Failing == {Reply(200), Reply(404), Reply(503), Moved(302, To(BA))} \cup {Error(e) : e \in {"Timeout", "ConnectionFailed", "ConnectionRefused", "Other", "ResponseTooLarge"}}
Giving == {Reply(200), Reply(404), Reply(500), Error("Timeout"), Zipped({<<"x", "x", "x">>}), Zipped({}), [Reply(200) EXCEPT !.encoding = "br"]} \cup {Titled(n) : n \in Titles}

-----------------------------------------------------------------------------
(* Commands.                                                                  *)

L(n) == <<"long", n>>
W(v) == <<"word", v>>
S(ls) == <<"short", ls, {}>>
Sv(ls, v) == <<"short", ls, {v}>>
At(u) == W(<<"url", u>>)
N(n) == <<"num", n>>
Name(t) == <<"name", <<t>>>>
Cred == <<"user", "u", TRUE>>
Text(t) == <<"data", t>>

Cwd == <<<<"w">>>>
Disk == (<< >> :> Dir) @@ (Cwd :> Dir) @@ (<<<<"w">>, <<"d">>>> :> Dir) @@ (<<<<"w">>, <<"f">>>> :> <<"text", <<"x", "LF", "=">>>>)
        @@ (<<<<"w">>, <<"r">>>> :> <<"text", <<"x", "0xFF">>>>)
        @@ (<<<<"w">>, <<"k">>>> :> <<"conf", <<<<"location", {}>>, <<"max-redirs", {N(1)}>>, <<"user", {Cred}>>>>>>)
        @@ (<<<<"n", "r", "c">>>> :> <<"netrc", <<<<"kw", "machine">>, <<"host", <<"b", ".", "a">>>>, <<"kw", "login">>, <<"v", "ub">>, <<"kw", "machine">>, <<"host", <<"a">>>>,
              <<"kw", "password">>, <<"v", "p">>, <<"kw", "login">>, <<"v", "ua">>, <<"kw", "default">>, <<"kw", "login">>, <<"v", "ud">>>>>>)

(* What a command is meant to do: how often it may try and how far it may     *)
(* follow, the credentials it sends to the first server, and where the        *)
(* response goes.                                                             *)
Plain == [redirs |-> 0, retry |-> 0, all |-> FALSE, refused |-> FALSE, method |-> "GET", body |-> {}, secrets |-> {},
          sink |-> {}, remote |-> {}, dump |-> {}, cap |-> 99, fail |-> FALSE, keep |-> FALSE, unzip |-> FALSE, head |-> FALSE, works |-> TRUE]
(* wget follows as far as the default; how far curl -L does without a limit   *)
(* is left out: every curl here that follows names one.                       *)
Wanted(tool, want) == IF tool = "wget" THEN [want EXCEPT !.redirs = DefaultRedirs, !.refused = TRUE] ELSE want
Job(tool, argv, want, config, answers) ==
    [tool |-> tool, argv |-> argv, want |-> Wanted(tool, want), config |-> config, policy |-> PolicyOf(config), answers |-> answers,
     backend |-> "policy", clock |-> TRUE, strict |-> FALSE, cwd |-> Cwd, home |-> <<<< >>>>, disk |-> Disk]

PolicyJobs == {Job("curl", <<S(<<"L">>), L("max-redirs"), W(N(2)), At(u)>>, [Plain EXCEPT !.redirs = 2], c, Wandering) : u \in Urls, c \in Configs}

(* Credentials, bodies and methods along a chain of redirects. *)
Shapes ==
    {<<<<Sv(<<"u">>, Cred)>>, [Plain EXCEPT !.secrets = {"authorization"}]>>,
     <<<<L("header"), W(<<"hdr", "cookie", <<"text", "c">>>>), S(<<"u">>), W(Cred)>>, [Plain EXCEPT !.secrets = {"authorization", "cookie"}]>>,
     <<<<Sv(<<"b">>, Text(<<"x">>)), Sv(<<"d">>, Text(<<"x", "LF">>)), L("data-urlencode"), W(<<"eq", <<"a">>, <<"=">>>>)>>,
       [Plain EXCEPT !.secrets = {"cookie"}, !.method = "POST", !.body = {<<"x", "&", "a", "=", "%", "=">>}]>>,
     <<<<L("oauth2-bearer"), W(Text(<<"x">>)), L("json"), W(<<"at", <<<<"f">>>>>>)>>,
       [Plain EXCEPT !.secrets = {"authorization"}, !.method = "POST", !.body = {<<"x", "LF", "=">>}]>>,
     <<<<S(<<"n">>)>>, [Plain EXCEPT !.secrets = {"authorization"}]>>,
     <<<<S(<<"G">>), Sv(<<"d">>, Text(<<"x">>))>>, Plain>>,
     <<<<Sv(<<"T">>, <<"name", <<<<"f">>>>>>)>>, [Plain EXCEPT !.method = "PUT", !.body = {<<"x", "LF", "=">>}]>>,
     <<<<L("form"), W(<<"form", "text", <<"x">>>>), Sv(<<"F">>, <<"form", "file", <<<<"f">>>>>>), L("request"), W(<<"method", "PATCH">>)>>,
       [Plain EXCEPT !.method = "PATCH", !.body = {<<"--", "x", "--", "x", "LF", "=", "--">>}]>>,
     <<<<L("aws-sigv4"), W(Text(<<"x">>)), Sv(<<"u">>, Cred)>>, [Plain EXCEPT !.secrets = {"authorization", "host"}]>>,
     <<<<L("limit-rate"), W(N(1)), Sv(<<"k", "u">>, Cred), L("http2")>>, [Plain EXCEPT !.secrets = {"authorization"}]>>}
ShapeJobs ==
    {Job("curl", <<L("location"), L("max-redirs"), W(N(2))>> \o s[1] \o <<At(A)>>, [s[2] EXCEPT !.redirs = 2], Open, Roaming) : s \in Shapes}
    \cup {Job("curl", <<S(<<"K">>), W(Name(<<"k">>)), At(A)>>, [Plain EXCEPT !.redirs = 1, !.secrets = {"authorization"}], Open, Roaming),
          Job("curl", <<S(<<"L">>), S(<<"n">>), L("max-redirs"), W(N(2)), At(CBA)>>, [Plain EXCEPT !.redirs = 2, !.secrets = {"authorization"}], Open, Roaming),
          Job("wget", <<<<"inline", "user", <<"word", "u">>>>, L("post-data"), W(Text(<<"x">>)), At(A)>>,
              [Plain EXCEPT !.secrets = {"authorization"}, !.method = "POST", !.body = {<<"x">>}, !.sink = {<<<<"w">>, <<"x">>>>}, !.fail = TRUE], Open, Roaming)}

RetryJobs ==
    {Job("curl", <<L("retry"), W(N(2))>> \o f[1] \o <<At(A)>>, [f[2] EXCEPT !.retry = 2], Config(TRUE, "deny", <<RuleA>>, << >>), Failing) :
        f \in {<<<<S(<<"L">>), L("max-redirs"), W(N(1))>>, [Plain EXCEPT !.redirs = 1]>>,
               <<<<L("retry-all-errors"), S(<<"s", "S", "L">>), L("max-redirs"), W(N(0))>>, [Plain EXCEPT !.all = TRUE]>>,
               <<<<L("retry-connrefused")>>, [Plain EXCEPT !.refused = TRUE]>>}}
    \cup {Job("wget", <<<<"inline", "tries", N(n)>>, S(<<"q">>), At(A)>>,
              [Plain EXCEPT !.retry = IF n = 0 THEN 0 ELSE n - 1, !.sink = {<<<<"w">>, <<"x">>>>}, !.fail = TRUE], Config(TRUE, "deny", <<RuleA>>, << >>), Failing) : n \in {0, 2}}

FileIn(d, t) == Cwd \o d \o <<t>>
Sinks ==
    {<<<<Sv(<<"o">>, Name(<<"x">>))>>, [Plain EXCEPT !.sink = {FileIn(<< >>, <<"x">>)}]>>,
     <<<<Sv(<<"o">>, Name(<<"f">>)), Sv(<<"D">>, Name(<<"y">>)), L("max-filesize"), W(N(2)), L("compressed")>>,
       [Plain EXCEPT !.sink = {FileIn(<< >>, <<"f">>)}, !.dump = {FileIn(<< >>, <<"y">>)}, !.cap = 2, !.unzip = TRUE]>>,
     <<<<S(<<"f", "i", "s">>), Sv(<<"w">>, Text(<<"x">>))>>, [Plain EXCEPT !.fail = TRUE]>>,
     <<<<L("fail-with-body"), L("output"), W(<<"name", <<<<"e">>, <<"x">>>>>>), L("create-dirs")>>,
       [Plain EXCEPT !.fail = TRUE, !.keep = TRUE, !.sink = {FileIn(<<<<"e">>>>, <<"x">>)}]>>,
     <<<<Sv(<<"o">>, <<"name", <<<< >>, <<"e">>, <<"x">>>>>>), L("output-dir"), W(Name(<<"d">>)), L("create-dirs")>>, [Plain EXCEPT !.sink = {<<<<"e">>, <<"x">>>>}]>>,
     <<<<S(<<"I">>)>>, [Plain EXCEPT !.head = TRUE, !.method = "HEAD"]>>,
     <<<<Sv(<<"o">>, Name(<<"d">>)), Sv(<<"D">>, Name(<<"-">>)), L("fail")>>, [Plain EXCEPT !.sink = {FileIn(<< >>, <<"d">>)}, !.fail = TRUE]>>,
     <<<<S(<<"O", "J">>)>>, [Plain EXCEPT !.remote = {Cwd}]>>,
     <<<<L("remote-name-all"), L("output-dir"), W(Name(<<"d">>)), L("remote-header-name"), L("fail")>>, [Plain EXCEPT !.remote = {Cwd \o <<<<"d">>>>}, !.fail = TRUE]>>}
SinkJobs ==
    {Job("curl", s[1] \o <<At(A)>>, s[2], Open, Giving) : s \in Sinks}
    \cup {Job("curl", s[1] \o <<At(A), L("next")>> \o s[1] \o <<L("url"), W(<<"url", Ftp>>)>>, s[2], Open, Giving) : s \in Sinks}
    \cup {Job("wget", <<L("content-disposition"), At(A)>>, [Plain EXCEPT !.remote = {Cwd}, !.fail = TRUE], Open, Giving),
          Job("wget", <<S(<<"q", "O">>), W(Name(<<"-">>)), At(A), At(BA)>>, [Plain EXCEPT !.fail = TRUE], Open, Giving)}

(* Command lines that are refused, and hosts without a transport. *)
Useless == [Plain EXCEPT !.works = FALSE]
RefusedArgs == {<< >>, <<At(A), S(<<"o">>)>>, <<S(<<"q">>), At(A)>>, <<L("proxy"), At(A)>>, <<L("retry"), W(Name(<<"x">>)), At(A)>>, <<L("header"), W(Text(<<"x">>)), At(A)>>,
    <<L("config"), W(Name(<<"z">>)), At(A)>>, <<Sv(<<"d">>, Text(<<"x">>)), Sv(<<"T">>, Name(<<"f">>)), At(A)>>, <<Sv(<<"d">>, <<"at", <<<<"z">>>>>>), At(A)>>,
    <<S(<<"G">>), L("data-binary"), W(<<"at", <<<<"r">>>>>>), At(A)>>,
    <<Sv(<<"F">>, <<"form", "text", <<"x">>>>), Sv(<<"d">>, Text(<<"x">>)), At(A)>>, <<L("aws-sigv4"), W(Text(<<"x">>)), At(A)>>, <<Sv(<<"b">>, Name(<<"z">>)), At(A)>>, <<W(Name(<<"x">>))>>}
RefusedJobs ==
    {Job("curl", a, Useless, Open, Giving) : a \in RefusedArgs}
    \cup {Job("wget", a, Useless, Open, Giving) : a \in {<< >>, <<S(<<"k">>), At(A)>>, <<<<"inline", "tries", Name(<<"x">>)>>, At(A)>>, <<At(A), L("user")>>}}
    \cup {[Job("curl", <<S(<<"k">>), At(A)>>, Useless, Open, Giving) EXCEPT !.strict = TRUE]}
    \cup {[Job(t, <<At(A)>>, Useless, Open, Giving) EXCEPT !.backend = b] : t \in {"curl", "wget"}, b \in {"none", "denying", "unavailable"}}

AllJobs ==
    LET refused == RefusedJobs
    IN  PolicyJobs \cup ShapeJobs \cup RetryJobs \cup SinkJobs \cup refused

-----------------------------------------------------------------------------
(* Properties.                                                                *)

Changed == {p \in DOMAIN disk' : p \notin DOMAIN disk \/ disk'[p] # disk[p]}
Shown(t) == {i \in DOMAIN t : t[i][1] = "body"}
Acceptable(r) ==
    LET w == job.want
    IN  /\ r.k = "response" /\ ~(w.fail /\ r.status >= 400) /\ (w.unzip => r.encoding = "none" \/ (r.encoding = "gzip" /\ r.plain # {}))
        /\ Len(IF w.unzip /\ r.encoding = "gzip" THEN CHOOSE b \in r.plain : TRUE ELSE r.body) <= w.cap
Allowed(p) ==
    LET w == job.want
    IN  \/ p \in w.sink \cup w.dump
        \/ \E q \in w.sink \cup w.dump \cup w.remote : IsPrefix(p, q) /\ disk'[p] = Dir
        \/ \E d \in w.remote : Len(p) = Len(d) + 1 /\ IsPrefix(d, p) /\ Last(p)[1] # "-"
(* What one delivery did, from what the command wanted and the server gave.   *)
DeliveryHolds ==
    LET w == job.want
        r == xfer.result
        b == IF w.unzip /\ r.encoding = "gzip" THEN CHOOSE c \in r.plain : TRUE ELSE r.body
        bodies == {p \in Changed : disk'[p] # Dir /\ p \notin w.dump}
        done == xfer'.code = 0
    IN  /\ \A p \in Changed : Allowed(p)
        /\ (status' = 0) = (status = 0 /\ done)
        /\ done => w.works /\ Acceptable(r)
        /\ done /\ ~w.head => /\ (w.sink = {} /\ w.remote = {}) = (\E i \in Shown(out') : i > Len(out) /\ out'[i][2] = b)
                              /\ \A p \in w.sink : disk'[p] = <<"text", b>>
                              /\ w.remote # {} => \E p \in DOMAIN disk' : disk'[p] = <<"text", b>> /\ Allowed(p)
        /\ ~done /\ ~w.keep => Shown(out') = Shown(out) /\ \A p \in bodies : disk'[p] = <<"text", << >>>>
        /\ Acceptable(r) /\ ~done => (\E p \in bodies : disk'[p][2] = << >>) \/ w.sink \cup w.remote \cup w.dump # {}

(* A transfer that reports success has put the whole decoded response where   *)
(* it was asked for, within the size allowed; one that reports a failure has  *)
(* shown none of it, and at worst left the file it opened empty; and nothing  *)
(* but the files asked for changes (finalize_response, write_curl_response,   *)
(* sanitize_filename, wget_save_one).                                         *)
Delivered == [][phase = "attempted" /\ phase' = "next" => DeliveryHolds]_vars
=============================================================================
