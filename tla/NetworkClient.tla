---------------------------- MODULE NetworkClient ----------------------------
(* curl and wget: arguments are parsed into options, every URL becomes a      *)
(* request, and a request goes through the policy, the transport, redirects   *)
(* and retries before its response is delivered to the output or to files.    *)
(*                                                                            *)
(* A word of the command line is a tuple whose first element is its kind:     *)
(* <<"num", n>>, <<"name", path>>, <<"url", u>>, <<"hdr", name, value>>,      *)
(* <<"data", text>>, <<"at", path>> (a text that begins with @), <<"form",    *)
(* content, v>>, <<"user", name, whether it holds a password>>.  Header names *)
(* are in lower case: the code compares them without case.  What the server   *)
(* answers is the environment's choice.  ctx is the command's UtilContext     *)
(* with its arguments: [tool, argv, strict, clock, cwd, home, disk, backend,  *)
(* policy, answers].                                                          *)
EXTENDS NetworkPolicy

CONSTANTS
    DefaultRedirs,  \* redirects followed when no limit is given (50)
    NameMax         \* bytes of a file name (255)

Maybe(f, k) == IF k \in DOMAIN f THEN {f[k]} ELSE {}

-----------------------------------------------------------------------------
(* Files.  A path is a sequence of texts; a file is <<kind, content>>.        *)

Dir == <<"dir", << >>>>
Dot == <<".">>
DotDot == <<".", ".">>
normalize_path(p) ==
    FoldLeft(LAMBDA acc, c : CASE c \in {<< >>, Dot} -> acc
                               [] c = DotDot -> IF acc = << >> THEN acc ELSE Front(acc)
                               [] OTHER -> Append(acc, c), << >>, p)

(* A name that begins with / has an empty first part.                         *)
IsAbsolute(name) == Len(name) > 1 /\ name[1] = << >>
resolve_path(cwd, name) == normalize_path(IF IsAbsolute(name) THEN name ELSE cwd \o name)

(* A file name as the words give it: its path. *)
NameOf(v) == IF v[1] \in {"name", "at"} THEN v[2] ELSE << <<"t">> >>
read_data_file(ctx, p) ==
    LET full == resolve_path(ctx.cwd, p)
    IN  IF full \in DOMAIN ctx.disk /\ ctx.disk[full] # Dir THEN Good(ctx.disk[full][2]) ELSE Bad

(* Opening for writing makes the missing directories of the path (external).  *)
MakeParents(d, p) ==
    LET missing == {q \in {SubSeq(p, 1, n) : n \in 0..(Len(p) - 1)} : q \notin DOMAIN d}
    IN  [q \in missing |-> Dir] @@ d
(* write_bytes: the file is emptied when it is opened; a full disk keeps it   *)
(* so.                                                                        *)
write_bytes(d, p, data, full) ==
    IF p \in DOMAIN d /\ d[p] = Dir THEN [disk |-> d, ok |-> FALSE]
    ELSE [disk |-> (p :> <<"text", IF full THEN << >> ELSE data>>) @@ MakeParents(d, p), ok |-> ~full]

-----------------------------------------------------------------------------
(* Arguments.  A token is <<"long", name>>, <<"inline", name, value>>,        *)
(* <<"short", letters, attached value>> or <<"word", value>>.                 *)

Flags == {"create-dirs", "remote-name", "remote-header-name", "include", "silent", "show-error", "location", "head",
          "fail", "verbose", "retry-connrefused", "retry-all-errors", "remote-name-all", "get", "compressed",
          "fail-with-body", "netrc", "netrc-optional"}
Numbers == {"max-filesize", "max-redirs", "retry", "max-time", "connect-timeout", "retry-delay", "retry-max-time"}
Datas == {"data", "data-ascii", "data-binary", "data-raw", "data-urlencode", "json"}
Names == {"request", "user-agent", "referer", "user", "output", "output-dir", "dump-header", "write-out", "aws-sigv4",
          "range", "upload-file", "cookie", "oauth2-bearer", "time-cond", "netrc-file"}
Valued == Numbers \cup Datas \cup Names \cup {"header", "form", "form-string", "url"}

SILENT_NO_OP_FLAGS == {"parallel", "parallel-immediate", "progress-bar", "no-progress-meter", "no-buffer",
    "styled-output", "no-keepalive", "no-sessionid", "tcp-nodelay", "tcp-fastopen", "path-as-is", "tr-encoding",
    "trace-time", "trace-ids"}
SILENT_NO_OP_FLAGS_WITH_ARG == {"parallel-max", "happy-eyeballs-timeout-ms", "expect100-timeout", "keepalive-time",
    "speed-limit", "speed-time", "tftp-blksize", "limit-rate"}
SECURITY_RELEVANT_NO_OP_FLAGS == {"ipv4", "ipv6", "http0.9", "http1.0", "http1.1", "http2", "http2-prior-knowledge",
    "http3", "http3-only", "ssl", "ssl-reqd", "tlsv1", "tlsv1.0", "tlsv1.1", "tlsv1.2", "tlsv1.3", "false-start",
    "alpn", "no-alpn", "no-npn", "ca-native"}
SECURITY_RELEVANT_NO_OP_FLAGS_WITH_ARG == {"resolve", "interface", "local-port", "dns-interface", "dns-ipv4-addr",
    "dns-ipv6-addr", "dns-servers"}
is_security_relevant_no_op(n) == n \in SECURITY_RELEVANT_NO_OP_FLAGS \cup SECURITY_RELEVANT_NO_OP_FLAGS_WITH_ARG

ShortFlags == ("s" :> "silent") @@ ("S" :> "show-error") @@ ("L" :> "location") @@ ("I" :> "head") @@ ("f" :> "fail")
    @@ ("v" :> "verbose") @@ ("i" :> "include") @@ ("O" :> "remote-name") @@ ("J" :> "remote-header-name")
    @@ ("G" :> "get") @@ ("n" :> "netrc")
ShortValued == ("X" :> "request") @@ ("H" :> "header") @@ ("d" :> "data") @@ ("o" :> "output") @@ ("w" :> "write-out")
    @@ ("u" :> "user") @@ ("A" :> "user-agent") @@ ("e" :> "referer") @@ ("D" :> "dump-header") @@ ("F" :> "form")
    @@ ("T" :> "upload-file") @@ ("b" :> "cookie") @@ ("r" :> "range") @@ ("z" :> "time-cond")
ShortIgnored == {"Z", "#"}
ShortDropped == {"k", "4", "6", "0", "1", "2", "3"}

NoOpts == [on |-> {}, val |-> << >>, headers |-> << >>, data |-> << >>, forms |-> << >>, urls |-> << >>, dropped |-> {}]
ShowError(o) == "silent" \notin o.on \/ "show-error" \in o.on

(* The parser's state: the options so far, the option whose value comes next  *)
(* (take_value) and whether an error ended it.                                *)
Cursor == [opts |-> NoOpts, want |-> {}, ok |-> TRUE]
Fails(c) == [c EXCEPT !.ok = FALSE]
Turn(c, flag) == [c EXCEPT !.opts.on = @ \cup {flag}]
Awaits(c, n) == [c EXCEPT !.want = {n}]
Drops(ctx, c, flag) == IF ctx.strict THEN Fails(c) ELSE [c EXCEPT !.opts.dropped = @ \cup {flag}]
UrlOf(v) == IF v[1] = "url" THEN v[2] ELSE [scheme |-> "", userinfo |-> FALSE, host |-> << >>, port |-> {}, path |-> << >>, query |-> << >>]

Takes(ctx, c0, n, v) ==
    LET c == [c0 EXCEPT !.want = {}]
    IN  CASE n = "header" -> IF v[1] = "hdr" THEN [c EXCEPT !.opts.headers = Append(@, <<v[2], v[3]>>)] ELSE Fails(c)
          [] n \in Datas -> [c EXCEPT !.opts.data = Append(@, <<n, v>>)]
          [] n \in {"form", "form-string"} ->
                 IF v[1] # "form" THEN Fails(c)
                 ELSE [c EXCEPT !.opts.forms = Append(@, IF n = "form" THEN <<v[2], v[3]>> ELSE <<"text", v[3]>>)]
          [] n = "url" -> [c EXCEPT !.opts.urls = Append(@, UrlOf(v))]
          [] n \in Numbers -> IF v[1] = "num" THEN [c EXCEPT !.opts.val = (n :> v[2]) @@ @] ELSE Fails(c)
          [] n \in Names -> [c EXCEPT !.opts.val = (n :> v) @@ @]
          [] n \in SECURITY_RELEVANT_NO_OP_FLAGS_WITH_ARG -> Drops(ctx, c, n)
          [] OTHER -> c

parse_long_option(ctx, c, n) ==
    CASE n \in Flags -> Turn(c, IF n = "netrc-optional" THEN "netrc" ELSE n)
      [] n \in Valued \cup SILENT_NO_OP_FLAGS_WITH_ARG \cup SECURITY_RELEVANT_NO_OP_FLAGS_WITH_ARG -> Awaits(c, n)
      [] n \in SILENT_NO_OP_FLAGS -> c
      [] n \in SECURITY_RELEVANT_NO_OP_FLAGS -> Drops(ctx, c, n)
      [] OTHER -> Fails(c)    \* reject_or_unknown

ShortLetter(ctx, c, letters, i, attached) ==
    LET l == letters[i]
        rest == IF i < Len(letters) THEN {<<"text", From(letters, i + 1)>>} ELSE attached
    IN  CASE ~c.ok \/ (\E j \in 1..(i - 1) : letters[j] \in DOMAIN ShortValued) -> c
          [] l \in DOMAIN ShortFlags -> Turn(c, ShortFlags[l])
          [] l \in ShortIgnored -> c
          [] l \in ShortDropped -> Drops(ctx, c, l)
          [] l \in DOMAIN ShortValued /\ rest = {} -> Awaits(c, ShortValued[l])
          [] l \in DOMAIN ShortValued -> Takes(ctx, c, ShortValued[l], CHOOSE v \in rest : TRUE)
          [] OTHER -> Fails(c)
parse_short_option(ctx, c, letters, attached) ==
    FoldLeft(LAMBDA a, i : ShortLetter(ctx, a, letters, i, attached), c, [i \in DOMAIN letters |-> i])

(* A value is whatever token comes next, an option included. *)
AsValue(token) == IF token[1] = "word" THEN token[2] ELSE token
CurlToken(ctx, c, token) ==
    CASE ~c.ok -> c
      [] c.want # {} -> Takes(ctx, c, CHOOSE n \in c.want : TRUE, AsValue(token))
      [] token[1] = "long" -> parse_long_option(ctx, c, token[2])
      [] token[1] = "short" -> parse_short_option(ctx, c, token[2], token[3])
      [] token[1] = "word" -> [c EXCEPT !.opts.urls = Append(@, UrlOf(token[2]))]
      [] OTHER -> Fails(c)
parse_single_segment(ctx, argv) ==
    LET c == FoldLeft(LAMBDA a, t : CurlToken(ctx, a, t), Cursor, argv)
    IN  IF c.ok /\ c.want = {} THEN Good(c.opts) ELSE Bad

NextTokens == {<<"long", "next">>, <<"short", <<":">>, {}>>}
split_on_next(argv) ==
    FoldLeft(LAMBDA acc, t : IF t \in NextTokens THEN Append(acc, << >>)
                             ELSE [acc EXCEPT ![Len(acc)] = Append(@, t)], << << >> >>, argv)

(* A line of a configuration file: an option name and an optional value. *)
parse_config_line(line) == <<<<"long", line[1]>>>> \o (IF line[2] = {} THEN << >> ELSE <<<<"word", CHOOSE v \in line[2] : TRUE>>>>)

ConfigTokens == {<<"long", "config">>, <<"short", <<"K">>, {}>>}
expand_config_files(ctx, argv) ==
    LET step(a, t) ==
            CASE ~a.ok -> a
              [] a.want /\ t[1] = "word" ->
                     LET f == read_data_file(ctx, NameOf(t[2]))
                     IN  IF f.ok THEN [a EXCEPT !.want = FALSE, !.tokens = @ \o FlattenSeq([i \in DOMAIN f.v |-> parse_config_line(f.v[i])])]
                         ELSE [a EXCEPT !.ok = FALSE]
              [] a.want -> [a EXCEPT !.ok = FALSE]
              [] t \in ConfigTokens -> [a EXCEPT !.want = TRUE]
              [] OTHER -> [a EXCEPT !.tokens = Append(@, t)]
    IN  FoldLeft(step, [tokens |-> << >>, want |-> FALSE, ok |-> TRUE], argv)

parse_curl_args(ctx, argv) ==
    LET expanded == expand_config_files(ctx, argv)
        segs == split_on_next(expanded.tokens)
        opts == [i \in DOMAIN segs |-> parse_single_segment(ctx, segs[i])]
    IN  IF expanded.ok /\ ~expanded.want /\ \A i \in DOMAIN opts : opts[i].ok
        THEN Good([i \in DOMAIN opts |-> opts[i].v]) ELSE Bad

(* wget: --name value or --name=value, -q and -O. *)
WgetNames == {"output-document", "user", "password", "post-data"}
WgetTimeouts == {"timeout", "connect-timeout", "read-timeout", "dns-timeout"}
WgetIgnored == {"no-check-certificate", "no-verbose", "server-response", "show-progress", "no-clobber"}
WgetTakes(c0, n, v) ==
    LET c == [c0 EXCEPT !.want = {}]
    IN  CASE n = "header" -> IF v[1] = "hdr" THEN [c EXCEPT !.opts.headers = Append(@, <<v[2], v[3]>>)] ELSE Fails(c)
          [] n \in {"tries"} \cup WgetTimeouts -> IF v[1] = "num" THEN [c EXCEPT !.opts.val = (n :> v[2]) @@ @] ELSE Fails(c)
          [] OTHER -> [c EXCEPT !.opts.val = (n :> v) @@ @]
WgetLong(c, n, inline) ==
    CASE n \in {"quiet", "content-disposition"} -> Turn(c, n)
      [] n \in WgetIgnored -> c
      [] n \notin WgetNames \cup WgetTimeouts \cup {"header", "tries"} -> Fails(c)
      [] inline = {} -> Awaits(c, n)
      [] OTHER -> WgetTakes(c, n, CHOOSE v \in inline : TRUE)
WgetShort(c, letters, attached) ==
    LET o == {i \in DOMAIN letters : letters[i] = "O"}
    IN  IF o = {} THEN IF \A i \in DOMAIN letters : letters[i] = "q" THEN Turn(c, "quiet") ELSE Fails(c)
        ELSE LET first == CHOOSE i \in o : \A j \in o : i <= j
                 rest  == IF first < Len(letters) THEN {<<"text", From(letters, first + 1)>>} ELSE attached
                 quiet == IF first > 1 THEN Turn(c, "quiet") ELSE c
             IN  CASE \E i \in 1..(first - 1) : letters[i] # "q" -> Fails(c)
                   [] rest = {} -> Awaits(quiet, "output-document")
                   [] OTHER -> WgetTakes(quiet, "output-document", CHOOSE v \in rest : TRUE)
WgetToken(c, token) ==
    CASE ~c.ok -> c
      [] c.want # {} -> WgetTakes(c, CHOOSE n \in c.want : TRUE, AsValue(token))
      [] token[1] = "long" -> WgetLong(c, token[2], {})
      [] token[1] = "inline" -> WgetLong(c, token[2], {token[3]})
      [] token[1] = "short" -> WgetShort(c, token[2], token[3])
      [] OTHER -> [c EXCEPT !.opts.urls = Append(@, UrlOf(token[2]))]
parse_wget_args(argv) ==
    LET c == FoldLeft(WgetToken, Cursor, argv)
    IN  IF c.ok /\ c.want = {} THEN Good(<<c.opts>>) ELSE Bad

-----------------------------------------------------------------------------
(* Requests.                                                                  *)

NewLines == {"CR", "LF"}
strip_crlf(t) == SelectSeq(t, LAMBDA c : c \notin NewLines)
Unreserved == {"a", "b", "c", "-", ".", "x", "y"}
percent_encode(t) == FlattenSeq([i \in DOMAIN t |-> IF t[i] \in Unreserved THEN <<t[i]>> ELSE <<"%", t[i]>>])

(* <<"eq", name, text>> is name=text, with an empty name for =text;           *)
(* <<"nameat", name, path>> is name@path.                                     *)
urlencode_spec(ctx, v) ==
    LET named(n, t) == IF n = << >> THEN Good(percent_encode(t)) ELSE Good(n \o <<"=">> \o percent_encode(t))
    IN  CASE v[1] = "at" -> LET f == read_data_file(ctx, v[2]) IN IF f.ok THEN named(<< >>, f.v) ELSE Bad
          [] v[1] = "nameat" -> LET f == read_data_file(ctx, v[3]) IN IF f.ok THEN named(v[2], f.v) ELSE Bad
          [] v[1] = "eq" -> named(v[2], v[3])
          [] OTHER -> named(<< >>, v[2])

materialize_piece(ctx, piece) ==
    LET v == piece[2]
        plain == CASE v[1] # "at" -> Good(v[2])
                   [] piece[1] = "data-raw" -> Good(<<"@">> \o Last(v[2]))
                   [] OTHER -> read_data_file(ctx, v[2])
    IN  CASE piece[1] = "data-urlencode" -> urlencode_spec(ctx, v)
          [] piece[1] \in {"data", "data-ascii"} /\ plain.ok -> Good(strip_crlf(plain.v))
          [] OTHER -> plain

load_part_body(ctx, f) == IF f[1] = "text" THEN Good(f[2]) ELSE read_data_file(ctx, f[2])
encode_multipart(ctx, forms) ==
    LET parts == [i \in DOMAIN forms |-> load_part_body(ctx, forms[i])]
    IN  IF \A i \in DOMAIN parts : parts[i].ok
        THEN Good(FlattenSeq([i \in DOMAIN parts |-> <<"--">> \o parts[i].v]) \o <<"--">>) ELSE Bad

(* The body, if there is one, and the headers that come with it. *)
Body(b, hs) == Good([body |-> b, headers |-> hs])
build_body(ctx, o) ==
    LET pieces == [i \in DOMAIN o.data |-> materialize_piece(ctx, o.data[i])]
        json   == \E i \in DOMAIN o.data : o.data[i][1] = "json"
        join(acc, p) == IF acc # << >> /\ ~json THEN acc \o <<"&">> \o p.v ELSE acc \o p.v
        form   == encode_multipart(ctx, o.forms)
    IN  CASE o.forms # << >> ->
               IF o.data # << >> \/ ~form.ok THEN Bad ELSE Body({form.v}, <<<<"content-type", <<"text", "multipart">>>>>>)
          [] o.data = << >> -> Body({}, << >>)
          [] \E i \in DOMAIN pieces : ~pieces[i].ok -> Bad
          [] OTHER -> Body({FoldLeft(join, << >>, pieces)},
                           IF json THEN <<<<"content-type", <<"text", "json">>>>, <<"accept", <<"text", "json">>>>>>
                           ELSE <<<<"content-type", <<"text", "urlencoded">>>>>>)

append_query(u, q) == IF q = << >> THEN u ELSE [u EXCEPT !.query = IF @ = << >> THEN q ELSE @ \o <<"&">> \o q]
(* The character "0xFF" is a byte that is no text.                            *)
apply_get_via_url(o, u, b) ==
    CASE "get" \notin o.on \/ b = {} -> Good([url |-> u, body |-> b])
      [] \E t \in b : Has(t, "0xFF") -> Bad
      [] OTHER -> Good([url |-> append_query(u, CHOOSE t \in b : TRUE), body |-> {}])

infer_method(o, hasBody, isUpload) ==
    CASE "request" \in DOMAIN o.val -> o.val["request"][2]
      [] "head" \in o.on -> "HEAD"
      [] isUpload -> "PUT"
      [] "get" \in o.on -> "GET"
      [] hasBody -> "POST"
      [] OTHER -> "GET"

HasHeader(hs, n) == \E i \in DOMAIN hs : hs[i][1] = n
add_derived_header(hs, n, opt) == IF opt = {} \/ HasHeader(hs, n) THEN hs ELSE Append(hs, <<n, CHOOSE v \in opt : TRUE>>)
basic_auth(v) == <<"basic", v>>

(* netrc: the tokens are <<"kw", word>>, <<"host", text>> or a value.         *)
Kw(t, w) == t = <<"kw", w>>
extract_login_password(ts) ==
    LET odd  == {i \in DOMAIN ts : i % 2 = 1 /\ i < Len(ts)}
        ends == {i \in odd : Kw(ts[i], "machine") \/ Kw(ts[i], "default")}
        read == {i \in odd : \A j \in ends : i < j}
        last(w) == {ts[i + 1] : i \in {k \in read : Kw(ts[k], w) /\ \A j \in read : Kw(ts[j], w) => j <= k}}
    IN  IF last("login") = {} THEN {} ELSE {<<"user", last("login"), last("password")>>}
match_netrc_entry(ts, host, exact) ==
    LET at == {i \in DOMAIN ts : IF exact THEN Kw(ts[i], "machine") /\ i < Len(ts) /\ ts[i + 1] = <<"host", host>>
                                 ELSE Kw(ts[i], "default")}
    IN  IF at = {} THEN {}
        ELSE LET i == CHOOSE k \in at : \A j \in at : k <= j
             IN  extract_login_password(From(ts, i + IF exact THEN 2 ELSE 1))
find_netrc_credentials(ts, host) ==
    LET exact == match_netrc_entry(ts, host, TRUE) IN IF exact # {} THEN exact ELSE match_netrc_entry(ts, host, FALSE)
netrc_path(ctx, o) == IF "netrc-file" \in DOMAIN o.val THEN NameOf(o.val["netrc-file"]) ELSE ctx.home \o <<<<"n", "r", "c">>>>
lookup_netrc(ctx, o, u) ==
    LET f == read_data_file(ctx, netrc_path(ctx, o))
    IN  IF u.scheme = "" \/ ~f.ok THEN {} ELSE find_netrc_credentials(f.v, u.host)

resolve_authorization(ctx, o, u) ==
    CASE "user" \in DOMAIN o.val -> {basic_auth(o.val["user"])}
      [] "oauth2-bearer" \in DOMAIN o.val -> {<<"bearer", o.val["oauth2-bearer"]>>}
      [] "netrc" \in o.on \/ "netrc-file" \in DOMAIN o.val -> {basic_auth(c) : c \in lookup_netrc(ctx, o, u)}
      [] OTHER -> {}

(* A cookie given as name=value, or the lines of a file. *)
resolve_cookie_value(ctx, v) ==
    IF v[1] = "data" THEN Good(v) ELSE LET f == read_data_file(ctx, NameOf(v)) IN IF f.ok THEN Good(<<"data", f.v>>) ELSE Bad

assemble_headers(ctx, o, bodyHeaders, u) ==
    LET given == FoldLeft(LAMBDA hs, h : IF HasHeader(hs, h[1]) THEN hs ELSE Append(hs, h), o.headers, bodyHeaders)
        auth  == add_derived_header(given, "authorization", resolve_authorization(ctx, o, u))
        agent == add_derived_header(auth, "user-agent", Maybe(o.val, "user-agent"))
        refer == add_derived_header(agent, "referer", Maybe(o.val, "referer"))
        range == add_derived_header(refer, "range", Maybe(o.val, "range"))
        since == add_derived_header(range, "if-modified-since", Maybe(o.val, "time-cond"))
        enc   == IF "compressed" \in o.on THEN add_derived_header(since, "accept-encoding", {<<"text", "gzip">>}) ELSE since
        cookie == IF "cookie" \in DOMAIN o.val THEN resolve_cookie_value(ctx, o.val["cookie"]) ELSE Bad
    IN  CASE "cookie" \notin DOMAIN o.val -> Good(enc)
          [] cookie.ok -> Good(add_derived_header(enc, "cookie", {cookie.v}))
          [] OTHER -> Bad

(* The signature covers the method, the URL, the headers and the body; it     *)
(* replaces any other authorization.                                          *)
apply_aws_sigv4(ctx, o, method, u, body, hs) ==
    LET kept  == Append(SelectSeq(hs, LAMBDA h : h[1] \notin {"authorization", "x-amz-date"}), <<"x-amz-date", <<"text", "now">>>>)
        named == IF HasHeader(kept, "host") THEN kept ELSE Append(kept, <<"host", <<"text", u.host>>>>)
    IN  IF "user" \in DOMAIN o.val /\ o.val["user"][1] = "user" /\ o.val["user"][3] /\ ctx.clock /\ u.scheme # ""
        THEN Good(Append(named, <<"authorization", <<"sigv4", method, u>>>>)) ELSE Bad

Request(u, m, hs, b, o) ==
    Good([url |-> u, method |-> m, headers |-> hs, body |-> b, follow_redirects |-> "location" \in o.on,
          max_redirs |-> Maybe(o.val, "max-redirs")])

(* build_curl_request: the body, then the URL and the method it leads to, the *)
(* headers, and the signature.                                                *)
Headed(ctx, o, via, method, headers) ==
    LET signed == apply_aws_sigv4(ctx, o, method, via.url, via.body, headers.v)
    IN  CASE ~headers.ok -> Bad
          [] "aws-sigv4" \notin DOMAIN o.val -> Request(via.url, method, headers.v, via.body, o)
          [] signed.ok -> Request(via.url, method, signed.v, via.body, o)
          [] OTHER -> Bad
Addressed(ctx, o, bodyHeaders, via, isUp) ==
    Headed(ctx, o, via, infer_method(o, via.body # {}, isUp), assemble_headers(ctx, o, IF via.body = {} THEN << >> ELSE bodyHeaders, via.url))
Bodied(ctx, o, url, b, up) ==
    LET isUp == "upload-file" \in DOMAIN o.val
        via  == apply_get_via_url(o, url, IF isUp THEN {up.v} ELSE b.v.body)
    IN  CASE ~b.ok -> Bad
          [] isUp /\ (b.v.body # {} \/ o.forms # << >> \/ ~up.ok) -> Bad
          [] ~via.ok -> Bad
          [] OTHER -> Addressed(ctx, o, b.v.headers, via.v, isUp)
build_curl_request(ctx, o, url) == Bodied(ctx, o, url, build_body(ctx, o), read_data_file(ctx, NameOf(o.val["upload-file"])))

build_wget_request(o, url) ==
    LET auth == add_derived_header(o.headers, "authorization",
                    {basic_auth(<<"user", u, Maybe(o.val, "password")>>) : u \in Maybe(o.val, "user")})
        post == Maybe(o.val, "post-data")
        hs   == IF post = {} THEN auth ELSE add_derived_header(auth, "content-type", {<<"text", "urlencoded">>})
    IN  Good([url |-> url, method |-> IF post = {} THEN "GET" ELSE "POST", headers |-> hs, body |-> {v[2] : v \in post},
              follow_redirects |-> TRUE, max_redirs |-> {}])

-----------------------------------------------------------------------------
(* Transfers.                                                                 *)

Error(e) == [k |-> "error", err |-> e]
ConnectionErrors == {"ConnectionFailed", "ConnectionRefused"}

is_redirect_status(s) == s \in {301, 302, 303, 307, 308}
is_retryable_status(s, o) == ("retry-all-errors" \in o.on /\ s >= 400) \/ s \in {408, 429, 500, 502, 503, 504}
is_retryable_error(e, o) ==
    /\ e \notin {"HostDenied", "InvalidUrl"}
    /\ \/ "retry-all-errors" \in o.on
       \/ e \in {"Timeout", "ConnectionFailed"}
       \/ e = "ConnectionRefused" /\ "retry-connrefused" \in o.on

Num(o, n, default) == IF n \in DOMAIN o.val THEN o.val[n] ELSE default

RetriesAnyError(ctx, x) ==
    LET retry == IF ctx.tool = "curl" THEN Num(x.opts, "retry", 0) ELSE Num(x.opts, "tries", 0) - 1
    IN  x.attempt < retry /\ (x.result.k = "response" => is_retryable_status(x.result.status, x.opts))

(* fetch_with_retries and the loop of wget_fetch_one. *)
Retries(ctx, x) ==
    LET retry == IF ctx.tool = "curl" THEN Num(x.opts, "retry", 0) ELSE Num(x.opts, "tries", 0) - 1
    IN  /\ x.attempt < retry
        /\ CASE ctx.tool = "wget" -> x.result.k = "error" /\ x.result.err \in {"Timeout"} \cup ConnectionErrors
             [] ctx.tool # "wget" /\ x.result.k = "error" -> is_retryable_error(x.result.err, x.opts)
             [] OTHER -> is_retryable_status(x.result.status, x.opts)

(* The backend the runtime installs checks a URL against its policy, both     *)
(* when asked and again before it fetches; a host without a transport only    *)
(* validates.                                                                 *)
backend_check(ctx, u) == IF ctx.backend = "unavailable" THEN (IF validate_http_url(u) THEN "ok" ELSE "InvalidUrl") ELSE check_url(ctx.policy, u)
CheckTarget(ctx, u) == LET valid == validate_http_url(u) IN IF valid THEN backend_check(ctx, u) ELSE "InvalidUrl"
backend_fetch(ctx, r) ==
    LET verdict == backend_check(ctx, r.url)
    IN  CASE verdict # "ok" -> {Error(verdict)}
          [] ctx.backend \in {"unavailable", "denying"} -> {Error("Other")}
          [] OTHER -> ctx.answers

Origin(u) == <<u.scheme, u.host, port_or_known_default(u)>>
is_cross_origin(from, to) == Origin(from) # Origin(to)

Sensitive == {"authorization", "cookie", "proxy-authorization", "host"}
KeepsCookies(hs) == SelectSeq(hs, LAMBDA h : h[1] \notin Sensitive \ {"cookie"})
strip_cross_origin_sensitive_headers(hs) ==
    LET kept[n \in 0..Len(hs)] ==
            IF n = 0 THEN << >>
            ELSE IF hs[n][1] \in Sensitive THEN kept[n - 1] ELSE Append(kept[n - 1], hs[n])
    IN  kept[Len(hs)]
HasSigV4(hs) == \E i \in DOMAIN hs : hs[i][1] = "authorization" /\ hs[i][2][1] = "sigv4"

(* A location is <<"abs", url>>, <<"rel", path>> or <<"bad">>. *)
resolve_redirect_url(base, loc) ==
    CASE loc[1] = "abs" -> Good(loc[2])
      [] loc[1] = "rel" -> Good([base EXCEPT !.path = loc[2], !.query = << >>])
      [] OTHER -> Bad

Demoted(r, s) ==
    IF s \in 301..303 /\ r.method \notin {"GET", "HEAD"} THEN [r EXCEPT !.method = "GET", !.body = {}] ELSE r

(* The request of the next hop, or the error that ends the chain. *)
NextHop(ctx, x) ==
    LET next == resolve_redirect_url(x.req.url, CHOOSE l \in x.result.location : TRUE)
        max  == IF x.first.max_redirs = {} THEN DefaultRedirs ELSE CHOOSE n \in x.first.max_redirs : TRUE
        cross == is_cross_origin(x.req.url, next.v)
        headers == IF cross THEN strip_cross_origin_sensitive_headers(x.req.headers) ELSE x.req.headers
    IN  CASE x.hops >= max -> Error("TooManyRedirects")
          [] ~next.ok -> Error("InvalidUrl")
          [] CheckTarget(ctx, next.v) # "ok" -> Error(CheckTarget(ctx, next.v))
          [] cross /\ HasSigV4(x.req.headers) -> Error("HostDenied")
          [] OTHER -> [k |-> "request", req |-> [Demoted(x.req, x.result.status) EXCEPT !.url = next.v, !.headers = headers]]

Redirects(x) ==
    x.result.k = "response" /\ x.first.follow_redirects /\ is_redirect_status(x.result.status) /\ x.result.location # {}

-----------------------------------------------------------------------------
(* Delivery.                                                                  *)

RESERVED_DEVICE_NAMES ==
    {<<"c", "o", "n">>, <<"p", "r", "n">>, <<"a", "u", "x">>, <<"n", "u", "l">>}
    \cup {p \o <<d>> : p \in {<<"c", "o", "m">>, <<"l", "p", "t">>}, d \in DOMAIN Digit \ {"0"}}

sanitize_filename(name) ==
    LET cut     == {i \in DOMAIN name : name[i] \in {"/", "\\"}}
        last    == IF cut = {} THEN name ELSE From(name, 1 + CHOOSE i \in cut : \A j \in cut : j <= i)
        cleaned == SelectSeq(last, LAMBDA c : c # "^")
        safe    == IF cleaned # << >> /\ cleaned[1] = "-" THEN <<"_">> \o Tail(cleaned) ELSE cleaned
    IN  IF last \in {<< >>, Dot, DotDot} \/ Split(safe, ".")[1] \in RESERVED_DEVICE_NAMES THEN << >>
        ELSE SubSeq(safe, 1, IF Len(safe) <= NameMax THEN Len(safe) ELSE NameMax)

content_disposition_filename(r) == {f \in {sanitize_filename(n) : n \in r.disposition} : f # << >>}

LastSegment(u) ==
    LET at == {i \in DOMAIN u.path : u.path[i] # << >>}
    IN  IF at = {} THEN {} ELSE {u.path[CHOOSE i \in at : \A j \in at : j <= i]}
remote_filename_from_url(u) == IF u.scheme = "" \/ LastSegment(u) = {} THEN <<"curl_output">> ELSE CHOOSE n \in LastSegment(u) : TRUE
filename_from_url(u) == IF u.scheme = "" \/ u.path = << >> \/ Last(u.path) = << >> THEN <<"index.html">> ELSE Last(u.path)

Pick(opt, default) == IF opt = {} THEN default ELSE CHOOSE v \in opt : TRUE
AsPath(text) == Split(text, "/")

(* The path of the file the body goes to, if it goes to one. *)
choose_output_filename(o, r, u) ==
    CASE "output" \in DOMAIN o.val -> {NameOf(o.val["output"])}
      [] "remote-name" \in o.on \/ "remote-name-all" \in o.on ->
             {AsPath(Pick(IF "remote-header-name" \in o.on THEN content_disposition_filename(r) ELSE {}, remote_filename_from_url(u)))}
      [] OTHER -> {}
resolve_output_path(ctx, o, name) ==
    LET base == IF "output-dir" \in DOMAIN o.val THEN resolve_path(ctx.cwd, NameOf(o.val["output-dir"])) ELSE ctx.cwd
    IN  resolve_path(base, name)

(* No directory can be made any more: the missing ones stay missing.          *)
ensure_output_parents(d, o, p, full) ==
    LET made == MakeParents(d, p)
    IN  CASE "create-dirs" \notin o.on \/ Len(p) = 1 \/ made = d -> Good(d)
          [] full -> Bad
          [] OTHER -> Good(made)

(* One write of the response: the disk, the output and the status so far. *)
Wrote(d, t, c) == [disk |-> d, out |-> t, code |-> c]
WriteFile(ctx, w, o, name, data, noDirs, full) ==
    LET p    == resolve_output_path(ctx, o, name)
        made == ensure_output_parents(w.disk, o, p, noDirs)
        res  == write_bytes(made.v, p, data, full)
    IN  IF made.ok THEN Wrote(res.disk, w.out, IF res.ok THEN 0 ELSE 23) ELSE Wrote(w.disk, w.out, 23)
Emit(w, what) == [w EXCEPT !.out = Append(@, what)]

write_dump_header(ctx, w, o, r, full) ==
    CASE "dump-header" \notin DOMAIN o.val -> w
      [] NameOf(o.val["dump-header"]) = <<<<"-">>>> -> Emit(w, <<"headers", r.status>>)
      [] OTHER -> WriteFile(ctx, w, o, NameOf(o.val["dump-header"]), <<"head", r.status>>, "dirs" \in full, "head" \in full)
write_body(ctx, w, o, r, u, full) ==
    LET name == choose_output_filename(o, r, u)
    IN  IF name = {} THEN Emit(w, <<"body", r.body>>) ELSE WriteFile(ctx, w, o, CHOOSE n \in name : TRUE, r.body, "dirs" \in full, "body" \in full)
write_curl_response(ctx, w0, o, r, u, full) ==
    LET w == write_dump_header(ctx, w0, o, r, full)
        headed == Emit(w, <<"headers", r.status>>)
    IN  CASE w.code # 0 -> w
          [] "head" \in o.on -> headed
          [] "include" \in o.on -> write_body(ctx, headed, o, r, u, full)
          [] OTHER -> write_body(ctx, w, o, r, u, full)

maybe_decompress(r) ==
    CASE r.encoding \in {"none", "identity"} -> Good(r)
      [] r.encoding \in {"gzip", "deflate"} /\ r.plain # {} -> Good([r EXCEPT !.body = CHOOSE b \in r.plain : TRUE, !.encoding = "none"])
      [] OTHER -> Bad

ErrorCode == ("HostDenied" :> 6) @@ ("ConnectionFailed" :> 7) @@ ("ConnectionRefused" :> 7) @@ ("Timeout" :> 28)
             @@ ("ResponseTooLarge" :> 63) @@ ("TooManyRedirects" :> 47) @@ ("InvalidUrl" :> 1) @@ ("Other" :> 1)
enforce_response_size(o, r) == "max-filesize" \in DOMAIN o.val /\ Len(r.body) > o.val["max-filesize"]
fail_response_code(o, r) == r.status >= 400 /\ ("fail" \in o.on \/ "fail-with-body" \in o.on)
emit_write_out_for(w, o, s) == IF "write-out" \in DOMAIN o.val THEN Emit(w, <<"writeout", s>>) ELSE w
Ending(w, c) == [w EXCEPT !.code = c]

FinalizesLate(ctx, w, o, r, u, full) ==
    LET wrote == write_curl_response(ctx, w, o, r, u, full)
    IN  CASE wrote.code # 0 -> wrote
          [] enforce_response_size(o, r) -> Ending(emit_write_out_for(wrote, o, r.status), 63)
          [] fail_response_code(o, r) -> Ending(emit_write_out_for(wrote, o, r.status), 22)
          [] OTHER -> emit_write_out_for(wrote, o, r.status)

finalize_response(ctx, w, o, r, u, full) ==
    LET wrote == write_curl_response(ctx, w, o, r, u, full)
    IN  CASE enforce_response_size(o, r) -> Ending(emit_write_out_for(w, o, r.status), 63)
          [] fail_response_code(o, r) ->
                 Ending(emit_write_out_for(IF "fail-with-body" \in o.on THEN wrote ELSE w, o, r.status), 22)
          [] wrote.code # 0 -> wrote
          [] OTHER -> emit_write_out_for(wrote, o, r.status)

CurlDelivers(ctx, w, x, full) ==
    LET o == x.opts
        r == IF "compressed" \in o.on THEN maybe_decompress(x.result) ELSE Good(x.result)
    IN  CASE x.result.k = "error" -> Ending(emit_write_out_for(w, o, 0), ErrorCode[x.result.err])
          [] ~r.ok -> Ending(w, 61)
          [] OTHER -> finalize_response(ctx, w, o, r.v, x.url, full)

wget_output_filename(o, u, r) ==
    LET named == IF "content-disposition" \in o.on THEN content_disposition_filename(r) ELSE {}
    IN  IF named # {} THEN AsPath(CHOOSE n \in named : TRUE)
        ELSE IF "output-document" \in DOMAIN o.val THEN NameOf(o.val["output-document"]) ELSE <<filename_from_url(u)>>
WgetDelivers(ctx, w, x, full) ==
    LET o == x.opts
        res == write_bytes(w.disk, resolve_path(ctx.cwd, wget_output_filename(o, x.url, x.result)), x.result.body, "body" \in full)
    IN  CASE x.result.k = "error" -> Ending(w, 1)
          [] x.result.status >= 400 -> Ending(w, 8)
          [] "output-document" \in DOMAIN o.val /\ NameOf(o.val["output-document"]) = <<<<"-">>>> -> Emit(w, <<"body", x.result.body>>)
          [] OTHER -> Wrote(res.disk, w.out, IF res.ok THEN 0 ELSE 1)

-----------------------------------------------------------------------------
(* What util_curl and util_wget do at each step of Transfers.                 *)

(* The transfers a command line asks for: options and URL.                    *)
Work(ctx) ==
    LET p == IF ctx.tool = "curl" THEN parse_curl_args(ctx, ctx.argv) ELSE parse_wget_args(ctx.argv)
    IN  IF p.ok THEN FlattenSeq([i \in DOMAIN p.v |-> [j \in DOMAIN p.v[i].urls |-> [opts |-> p.v[i], url |-> p.v[i].urls[j]]]])
        ELSE << >>
Build(ctx, o, url) ==
    LET curl == ctx.tool = "curl"
    IN  IF curl THEN build_curl_request(ctx, o, url) ELSE build_wget_request(o, url)
(* fetch_and_prepare_response to emit_write_out_for, or wget_save_one.        *)
Conclude(ctx, w, x, full) ==
    LET curl == ctx.tool = "curl"
    IN  IF curl THEN CurlDelivers(ctx, w, x, full) ELSE WgetDelivers(ctx, w, x, full)
=============================================================================
