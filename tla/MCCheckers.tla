----------------------------- MODULE MCCheckers -----------------------------
(* Small instances of Checkers for TLC. *)
EXTENDS Checkers, TLC

CONSTANTS r1, r2, p, q

With(t, settings) == [Entry(t) EXCEPT !.has = settings]
Versions(t, min, max) == [Entry(t) EXCEPT !.minTLS = min, !.maxTLS = max]
Asserts(type, header, compiles) ==
    [Entry("http") EXCEPT !.assertions =
        {[type |-> type, target |-> TRUE, header |-> header, compiles |-> compiles]}]

(* Settings that LoadChecks may accept, of every type. *)
Plain == {Entry(t) : t \in CheckTypes \ {"udp", "bgp"}}
Settings ==
    {With("tcp", h) : h \in {{"tls"}, {"send"}, {"expect_recv"}}}
    \cup {With("smtp", h) : h \in SUBSET {"start_tls", "username", "password"}}
    \cup {With("udp", h) : h \in {{}, {"send"}, {"send_hex", "bad_hex"}, {"send", "no_response"},
                                  {"send", "no_response", "expect_recv"}}}
    \cup {With("dns", h) : h \in {{"expected"}, {"bad_record_type"}}}
    \cup {With("websocket", h) : h \in {{"send"}, {"send", "expect_recv"}}}
    \cup {[With("udp", {"send"}) EXCEPT !.number = n] : n \in {-1, MaxAlloc, MaxAlloc + 1}}
    \cup {[Entry(t) EXCEPT !.timeout = -1] : t \in {"dns", "domain_expiry"}}
    \cup {Versions("http", 3, 4), Asserts("header_regex", TRUE, TRUE)}

(* Entries that LoadChecks refuses. *)
Refused ==
    {With("http", {"basic_auth", "bearer_token"}), With("bgp", {"no_origin"}),
     With("websocket", {"bad_url"}), Versions("tcp", 3, 2), Versions("http", 5, 0),
     Asserts("regex", FALSE, FALSE), Asserts("header_contains", FALSE, TRUE), Entry("ftp")}

Setup(c, f, a, b) == [caller |-> c, filter |-> f, file |-> (r1 :> a @@ r2 :> b)]

Tagged == [Entry("http") EXCEPT !.tags = {"prod"}, !.group = "web"]
OnlyHTTP == [NoFilter EXCEPT !.types = {"http"}]
Flags == {[types |-> {"dns"}], [tags |-> {"prod"}], [groups |-> {"db"}], [types |-> {"htpp"}]}

(* Runs meet only at the browser slots and in the memory of the BGP        *)
(* checker; any other check has a DNS check beside it.                     *)
MCSetups ==
    {Setup("worker", NoFilter, e, Entry("dns")) : e \in Plain \cup Settings}
    \cup {Setup("worker", NoFilter, Entry("playwright"), Entry("playwright"))}
    \cup {Setup("validate", NoFilter, e, Entry("dns")) : e \in Plain \cup Settings}
    \cup {Setup("probe", NoFilter, e, Entry("dns")) : e \in Plain \cup Settings}
    \cup {Setup("check", NoFilter, e, Entry("icmp")) : e \in Refused}
    \cup {Setup(c, effectiveFilter(OnlyHTTP, f), Tagged, Entry("dns")) :
              c \in {"worker", "check"}, f \in Flags}
    \cup {Setup("worker", NoFilter, Entry("bgp"), Entry("bgp")),
          Setup("worker", NoFilter, With("bgp", {"other_origin"}), Entry("dns")),
          Setup("validate", NoFilter, [Entry("bgp") EXCEPT !.timeout = -1], Entry("dns"))}

BGPSetups == {Setup("worker", NoFilter, Entry("bgp"), Entry("dns"))}
=============================================================================
