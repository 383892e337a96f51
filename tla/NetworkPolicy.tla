---------------------------- MODULE NetworkPolicy ----------------------------
(* The policy every HTTP request of a sandbox is held against: rules written  *)
(* as text (a host, *.host or *, with an optional port), a normalised target, *)
(* deny rules before allow rules before the default.                          *)
(*                                                                            *)
(* A text is a sequence of one-character strings.  The character "V6" stands  *)
(* for the text of an IPv6 address, which holds several colons and no         *)
(* brackets, "V4" for that of an IPv4 address and "0x" for another spelling   *)
(* of it; "^" for a control character.  An optional value is a set of at most *)
(* one element.  Parsing an address or a URL is the library's work            *)
(* (external): a URL is the record it returns, with its host normalised.      *)
EXTENDS Naturals, FiniteSets, Sequences, SequencesExt

Digit == ("0" :> 0) @@ ("1" :> 1) @@ ("2" :> 2) @@ ("3" :> 3) @@ ("4" :> 4)
         @@ ("5" :> 5) @@ ("6" :> 6) @@ ("7" :> 7) @@ ("8" :> 8) @@ ("9" :> 9)
V6 == "V6"
V4 == "V4"
IpAddr(t) == t \in {<<V6>>, <<V4>>}
(* Url::parse on a host: letters in lower case, an address in its usual form. *)
UsualForm == ("A" :> "a") @@ ("B" :> "b") @@ ("C" :> "c") @@ ("0x" :> V4)
url_host(t) == [i \in DOMAIN t |-> IF t[i] \in DOMAIN UsualForm THEN UsualForm[t[i]] ELSE t[i]]

Has(t, c) == \E i \in DOMAIN t : t[i] = c
Count(t, c) == Cardinality({i \in DOMAIN t : t[i] = c})
Firsts(t, n) == SubSeq(t, 1, n)
From(t, n) == SubSeq(t, n, Len(t))

(* str::split on one character: at least one piece. *)
Split(t, c) ==
    FoldLeft(LAMBDA acc, x : IF x = c THEN Append(acc, << >>)
                             ELSE [acc EXCEPT ![Len(acc)] = Append(@, x)], << << >> >>, t)

Bad == [ok |-> FALSE]
Good(v) == [ok |-> TRUE, v |-> v]

-----------------------------------------------------------------------------
(* Rules.                                                                     *)

parse_port(t) ==
    LET n == FoldLeft(LAMBDA v, d : 10 * v + Digit[d], 0, t)
    IN  IF t # << >> /\ (\A i \in DOMAIN t : t[i] \in DOMAIN Digit) /\ Len(t) <= 5 /\ n <= 65535
        THEN Good({n}) ELSE Bad

HostPort(h, p) == IF p.ok THEN Good([host |-> h, port |-> p.v]) ELSE Bad

split_rule_port(raw) ==
    IF raw[1] = "["
    THEN IF ~Has(raw, "]") THEN Bad
         ELSE LET close == CHOOSE i \in DOMAIN raw : raw[i] = "]" /\ \A j \in 1..(i - 1) : raw[j] # "]"
                  suffix == From(raw, close + 1)
                  host == SubSeq(raw, 2, close - 1)
              IN  IF suffix = << >> THEN HostPort(host, Good({}))
                  ELSE IF suffix[1] = ":" THEN HostPort(host, parse_port(Tail(suffix)))
                  ELSE Bad
    ELSE IF Has(raw, "[") \/ Has(raw, "]") \/ Count(raw, ":") + 2 * Count(raw, V6) > 1 THEN Bad
    ELSE IF ~Has(raw, ":") THEN HostPort(raw, Good({}))
    ELSE LET i == CHOOSE j \in DOMAIN raw : raw[j] = ":"
         IN  IF i = 1 THEN Bad ELSE HostPort(Firsts(raw, i - 1), parse_port(From(raw, i + 1)))

LabelChars == {"a", "b", "c", "-", V4}
validate_domain(h) ==
    LET labels == Split(h, ".")
    IN  \A i \in DOMAIN labels :
            /\ labels[i] # << >> /\ Head(labels[i]) # "-" /\ Last(labels[i]) # "-"
            /\ \A j \in DOMAIN labels[i] : labels[i][j] \in LabelChars

normalize_rule_host(raw) ==
    LET bare == IF raw # << >> /\ Last(raw) = "." THEN Front(raw) ELSE raw
        h    == IF Len(bare) >= 2 /\ bare[1] = "[" /\ Last(bare) = "]" THEN SubSeq(bare, 2, Len(bare) - 1) ELSE bare
    IN  IF h = << >> \/ Last(h) = "." \/ (\E c \in {"/", "@", "?", "#", "%", "\\"} : Has(h, c)) THEN Bad
        ELSE IF IpAddr(h) THEN Good(h)
        ELSE IF validate_domain(url_host(h)) THEN Good(url_host(h)) ELSE Bad

AnyRule(p) == [k |-> "any", port |-> p]
HostRule(h, w, p) == [k |-> "host", host |-> h, wildcard |-> w, port |-> p]

NetworkRule_parse(raw) ==
    IF raw = << >> \/ raw[1] = " " \/ Last(raw) = " " \/ Has(raw, "^") THEN Bad
    ELSE LET sp == split_rule_port(raw)
         IN  IF ~sp.ok \/ (raw[1] = "[" /\ sp.v.host # <<V6>>) THEN Bad
             ELSE IF sp.v.host = <<"*">> THEN Good(AnyRule(sp.v.port))
             ELSE LET wild   == Len(sp.v.host) >= 2 /\ Firsts(sp.v.host, 2) = <<"*", ".">>
                      suffix == IF wild THEN From(sp.v.host, 3) ELSE sp.v.host
                      host   == normalize_rule_host(suffix)
                  IN  IF Has(suffix, "*") \/ Has(suffix, "?") \/ ~host.ok \/ (wild /\ IpAddr(host.v)) THEN Bad
                      ELSE Good(HostRule(host.v, wild, sp.v.port))

port_matches(allowed, actual) == allowed = {} \/ allowed = actual

WildcardMatches(target, host) ==
    IsSuffix(<<".">> \o host, target) /\ Len(target) > Len(host) + 1

NetworkRule_matches(r, target) ==
    /\ port_matches(r.port, target.port)
    /\ r.k = "host" => IF r.wildcard THEN WildcardMatches(target.host, r.host) ELSE target.host = r.host

-----------------------------------------------------------------------------
(* Targets and decisions.                                                     *)

KnownPort == ("http" :> 80) @@ ("https" :> 443)
port_or_known_default(u) == IF u.port # {} THEN u.port ELSE {KnownPort[u.scheme]}

(* A URL the library cannot parse has the scheme "". *)
NormalizedTarget_parse(u) ==
    IF u.scheme \notin DOMAIN KnownPort \/ u.userinfo THEN Bad
    ELSE LET h == normalize_rule_host(u.host)
         IN  IF h.ok THEN Good([scheme |-> u.scheme, host |-> h.v, port |-> port_or_known_default(u)]) ELSE Bad

validate_http_url(u) == NormalizedTarget_parse(u).ok

parse_rules(raws) == [i \in DOMAIN raws |-> NetworkRule_parse(raws[i])]

try_from_config(c) ==
    LET allow == parse_rules(c.allow)
        deny  == parse_rules(c.deny)
    IN  IF (\A i \in DOMAIN allow : allow[i].ok) /\ (\A i \in DOMAIN deny : deny[i].ok)
        THEN Good([enabled |-> c.enabled, default |-> c.default,
                   allow |-> {allow[i].v : i \in DOMAIN allow}, deny |-> {deny[i].v : i \in DOMAIN deny}])
        ELSE Bad

try_from_allowed_hosts(hosts) ==
    try_from_config([enabled |-> hosts # << >>, default |-> "deny", allow |-> hosts, deny |-> << >>])

AllowFirst(p, target) ==
    \/ \E r \in p.allow : NetworkRule_matches(r, target)
    \/ p.default = "allow" /\ ~\E r \in p.deny : NetworkRule_matches(r, target)

Allows(p, target) ==
    /\ ~\E r \in p.deny : NetworkRule_matches(r, target)
    /\ (\E r \in p.allow : NetworkRule_matches(r, target)) \/ p.default = "allow"

(* NetworkPolicy::check: "ok" or the error it returns. *)
policy_check(p, u) ==
    CASE ~p.enabled -> "HostDenied"
      [] ~validate_http_url(u) -> "InvalidUrl"
      [] Allows(p, NormalizedTarget_parse(u).v) -> "ok"
      [] OTHER -> "HostDenied"

(* HostAllowlist: rules that did not parse refuse every URL. *)
check_url(p, u) == IF p.ok THEN policy_check(p.v, u) ELSE "InvalidUrl"
=============================================================================
