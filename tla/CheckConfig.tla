---------------------------- MODULE CheckConfig ----------------------------
(***************************************************************************)
(* From the YAML entries of checks.yml to the checks a command runs        *)
(* (internal/config/checks.go, internal/config/filter.go, cmd/filter.go),  *)
(* and the checks that /probe builds without validation                    *)
(* (internal/exporter/blackbox.go).                                        *)
(*                                                                         *)
(* An entry is reduced to what a decision depends on: its type, its group  *)
(* and tags, the settings that are present or malformed (a set of names),  *)
(* its TLS versions, its numeric setting and its assertions.               *)
(***************************************************************************)
EXTENDS Integers

CheckTypes == {"http", "smtp", "traceroute", "playwright", "tcp", "dns", "icmp",
               "grpc", "ntp", "tls", "udp", "bgp", "domain_expiry", "websocket"}

Assertions == [type : STRING, target : BOOLEAN, header : BOOLEAN, compiles : BOOLEAN]

CheckEntries ==
    [type : STRING, group : STRING, tags : SUBSET STRING, has : SUBSET STRING, minTLS : Int,
     maxTLS : Int, number : Int, timeout : Int, assertions : SUBSET Assertions]

(* An entry that sets nothing but its type. *)
Entry(t) == [type |-> t, group |-> "", tags |-> {}, has |-> {}, minTLS |-> 0,
             maxTLS |-> 0, number |-> 0, timeout |-> 0, assertions |-> {}]

-----------------------------------------------------------------------------
(* Validation *)

(* TLS versions: 0 is unset, 1 to 4 stand for 1.0 to 1.3, 5 for any other  *)
(* string.                                                                 *)
TLSVersion(s) == s \in 1 .. 4

validateTLSVersions(min, max) ==
    /\ min # 0 => TLSVersion(min)
    /\ max # 0 => TLSVersion(max)
    /\ min # 0 /\ max # 0 => min <= max

BodyAssertions == {"contains", "not_contains", "regex"}
HeaderAssertions == {"header_contains", "header_not_contains", "header_regex"}
NeedsRegex(a) == a.type \in {"regex", "header_regex"}

validateAssertions(assertions) ==
    \A a \in assertions :
        /\ a.type \in BodyAssertions \cup HeaderAssertions
        /\ a.target
        /\ a.type \in HeaderAssertions => a.header
        /\ NeedsRegex(a) => a.compiles

convertCheck_LoneUser(r) ==
    /\ r.type \in CheckTypes
    /\ r.type \in {"http", "tcp"} => validateTLSVersions(r.minTLS, r.maxTLS)
    /\ r.type = "http" =>
          /\ ~({"basic_auth", "bearer_token"} \subseteq r.has)
          /\ "bad_proxy" \notin r.has
          /\ validateAssertions(r.assertions)
    /\ r.type = "bgp" => r.has \cap {"bad_prefix", "no_origin"} = {}
    /\ r.type = "smtp" => ("username" \in r.has <=> "password" \in r.has)
    /\ r.type = "websocket" => "bad_url" \notin r.has

(* convertCheck returns no error. *)
convertCheck(r) ==
    /\ r.type \in CheckTypes
    /\ r.type \in {"http", "tcp"} => validateTLSVersions(r.minTLS, r.maxTLS)
    /\ r.type = "http" =>
          /\ ~({"basic_auth", "bearer_token"} \subseteq r.has)
          /\ "bad_proxy" \notin r.has
          /\ validateAssertions(r.assertions)
    /\ r.type = "bgp" => r.has \cap {"bad_prefix", "no_origin"} = {}
    /\ r.type = "smtp" =>
          /\ "username" \in r.has <=> "password" \in r.has
          /\ "username" \in r.has => "start_tls" \in r.has
    /\ r.type = "websocket" => "bad_url" \notin r.has

(* The numeric setting of a type, if it is not given: the count of icmp    *)
(* and traceroute, max_response_bytes of udp, the port of ntp and smtp.    *)
DefaultResponseBytes == 4096

DefaultNumber(t) ==
    CASE t \in {"icmp", "traceroute"} -> 3
      [] t = "udp" -> DefaultResponseBytes
      [] t = "ntp" -> 123
      [] t = "smtp" -> 25
      [] OTHER -> 0

(* The defaults convertCheck and LoadChecks fill in.  A number or timeout  *)
(* that is given stands, however small or large.                           *)
WithDefaults(r) ==
    [r EXCEPT !.number  = IF @ = 0 THEN DefaultNumber(r.type) ELSE @,
              !.timeout = IF @ = 0 THEN 30 ELSE @]

(* LoadChecks: one bad entry in one file, and no check is loaded at all.   *)
(* entries maps the entries of all files, by position, to their content.   *)
LoadChecks(entries) == \A i \in DOMAIN entries : convertCheck(entries[i])

-----------------------------------------------------------------------------
(* The check filter.  A dimension that is an empty set restricts nothing.  *)

NoFilter == [types |-> {}, groups |-> {}, tags |-> {}]

(* A flag that is given replaces its dimension entirely; flags is a record *)
(* with the given dimensions as its fields.                                *)
effectiveFilter(f, flags) ==
    [d \in {"types", "groups", "tags"} |-> IF d \in DOMAIN flags THEN flags[d] ELSE f[d]]

Validate(f) == f.types \subseteq CheckTypes

Matches(f, c) ==
    /\ f.types # {} => c.type \in f.types
    /\ f.groups # {} => c.group \in f.groups
    /\ f.tags # {} => f.tags \cap c.tags # {}

(* loadFilteredChecks: the positions of the checks to run.  The worker     *)
(* goes on without checks after an error, the other commands return it.    *)
loadFilteredChecks(entries, f) ==
    IF LoadChecks(entries) /\ Validate(f)
      THEN {i \in DOMAIN entries : Matches(f, entries[i])}
      ELSE {}

-----------------------------------------------------------------------------
(* What /probe runs for its module parameter, with a timeout of 30 s. *)
ProbeModules == {"http", "smtp", "tcp", "dns", "icmp", "grpc", "udp"}

buildCheckConfig(module) ==
    [Entry(module) EXCEPT !.timeout = 30,
                          !.number  = IF module = "icmp" THEN 3 ELSE 0,
                          !.has     = IF module = "udp" THEN {"send"} ELSE {}]
=============================================================================
