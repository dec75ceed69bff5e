---------------------------- MODULE CheckerSteps ----------------------------
(***************************************************************************)
(* The Run methods of the fourteen checkers (internal/check) as sequences  *)
(* of steps.  A step is one call that can fail or block:                   *)
(*   op      its name                                                      *)
(*   blocks  it waits for somebody else                                    *)
(*   ends    what ends the wait if nobody answers: the check's own         *)
(*           "timeout", the caller's context "ctx", or nothing at all      *)
(*   bad     how the run may end here: "fail", "infra", "panic", or "ok"   *)
(*           where a failure of the step is no failure of the check        *)
(*   late    how it ends if the timeout or the context ends the wait       *)
(*   ok      it can succeed                                                *)
(*   gets, defers  what it acquires, and what it arranges to be released   *)
(*           when Run returns                                              *)
(*   closes  what it releases by hand if it fails                          *)
(* Building a request fails the way sending it does, and is part of that   *)
(* step.  Judgements about an answer (status codes, expected values,       *)
(* expiry thresholds, assertions) are steps that may go either way.        *)
(***************************************************************************)
EXTENDS CheckConfig, Sequences

CONSTANT MaxAlloc   \* the largest buffer the Go runtime allocates

ASSUME DefaultFits == MaxAlloc \in Nat /\ MaxAlloc >= DefaultResponseBytes

Local(op, bad) ==
    [op |-> op, blocks |-> FALSE, ends |-> {}, bad |-> bad, late |-> "none",
     ok |-> TRUE, gets |-> {}, defers |-> {}, closes |-> {}]

Wait(op, ends, bad) ==
    [Local(op, {bad}) EXCEPT !.blocks = TRUE, !.ends = ends, !.late = bad]

Opens(step, res) == [step EXCEPT !.gets = {res}, !.defers = {res}]

(* A resource that a call hands to the next one, which closes it if it     *)
(* fails; only then is its release deferred.                               *)
Yields(step, res) == [step EXCEPT !.gets = {res}]
TakesOver(step, res) == [step EXCEPT !.closes = {res}, !.defers = {res}]

Hopeless(step) == [step EXCEPT !.ok = FALSE]
If(cond, steps) == IF cond THEN steps ELSE <<>>

Both == {"timeout", "ctx"}

(* An http.Client with the check's timeout, which one below zero does not  *)
(* limit, and a request with the caller's context; both cover the body.    *)
(* The dialers and contexts of the other checkers take a negative timeout  *)
(* as one that has passed.                                                 *)
ClientEnds(c) == IF c.timeout > 0 THEN Both ELSE {"ctx"}

(* A dialer with the check's timeout and the caller's context. *)
Dial == Opens(Wait("dial", Both, "fail"), "conn")

-----------------------------------------------------------------------------

(* The context of the request carries the timeout, body included. *)
HTTPRun(c) ==
    << Opens(Wait("do", Both, "fail"), "body"),
       Wait("read", Both, "fail"),
       Local("status", {"fail"}) >>
    \o If(c.assertions # {}, << Local("assert", {"fail"}) >>)

(* The handshake knows only the caller's context; writing knows nothing.   *)
TCPRun(c) ==
    << Dial >>
    \o If("tls" \in c.has, << Wait("handshake", {"ctx"}, "fail") >>)
    \o If("send" \in c.has, << Wait("send", {}, "fail") >>)
    \o If("expect_recv" \in c.has, << Wait("recv", {"timeout"}, "fail"),
                                      Local("match", {"fail"}) >>)

(* Once connected nothing bounds the conversation: no deadline is set on   *)
(* the connection and the SMTP client takes no context.                    *)
SMTPRun(c) ==
    << Yields(Wait("dial", Both, "fail"), "conn"),
       TakesOver(Wait("greeting", {}, "fail"), "conn"),
       Wait("hello", {}, "fail") >>
    \o If("start_tls" \in c.has, << Local("extension", {"fail"}),
                                    Wait("starttls", {}, "fail") >>)
    \o If("username" \in c.has, << Wait("auth", {}, "fail") >>)

TLSRun(c) ==
    << Dial, Wait("handshake", {"ctx"}, "fail"), Local("chain", {"fail"}) >>

TooLong(size) == size < 0 \/ size > MaxAlloc

Buffer_NoDefault(c) ==
    IF c.number < 1 \/ c.number > MaxAlloc
      THEN Hopeless(Local("buffer", {"panic"})) ELSE Local("buffer", {})

(* The buffer for the answer has max_response_bytes, or 4096 bytes if that *)
(* is 0, as it is for /probe.  make ends the process for a negative size   *)
(* and for one that the runtime cannot allocate.                           *)
Buffer(c) ==
    IF TooLong(IF c.number = 0 THEN DefaultResponseBytes ELSE c.number)
      THEN Hopeless(Local("buffer", {"panic"})) ELSE Local("buffer", {})

(* Connection and request share one deadline.  A silent peer is what a     *)
(* check with expect_response: false hopes for.                            *)
UDPRun(c) ==
    LET unanswered == "no_response" \in c.has
    IN  << IF \/ "send_hex" \in c.has /\ "bad_hex" \in c.has
              \/ c.has \cap {"send", "send_hex"} = {}
             THEN Hopeless(Local("payload", {"fail"}))
             ELSE Local("payload", {}),
           Dial,
           Wait("send", {"timeout"}, "fail") >>
        \o If(~unanswered \/ "expect_recv" \in c.has,
              << Buffer(c),
                 [Wait("recv", {"timeout"}, "fail")
                     EXCEPT !.late = IF unanswered THEN "ok" ELSE "fail"] >>)
        \o If("expect_recv" \in c.has, << Local("match", {"fail"}) >>)

NTPRun_NoDeadline(c) ==
    << Dial, Wait("send", {}, "fail"), Wait("recv", {}, "fail"),
       Local("synchronized", {"fail"}) >>

NTPRun(c) ==
    << Dial, Wait("send", {"timeout"}, "fail"), Wait("recv", {"timeout"}, "fail"),
       Local("synchronized", {"fail"}) >>

DNSRun(c) ==
    IF "bad_record_type" \in c.has
      THEN << Hopeless(Local("record_type", {"fail"})) >>
      ELSE << Wait("query", Both, "fail") >>
           \o If("expected" \in c.has, << Local("match", {"fail"}) >>)

(* Resolving the host name knows neither the timeout nor the context.      *)
(* count probes share the timeout; one answer is enough.  The context is   *)
(* only looked at between reads.                                           *)
ICMPRun(c) ==
    << Wait("resolve", {}, "fail"),
       Opens(Local("listen", {"fail"}), "conn"),
       Wait("pings", {"timeout"}, "fail") >>

GRPCRun(c) ==
    << Wait("health", Both, "fail"), Local("serving", {"fail"}) >>

TracerouteRun(c) == << Wait("mtr", Both, "fail"), Local("parse", {"fail"}) >>

(* An unreachable registry is an infrastructure error, an unknown domain   *)
(* is not.                                                                 *)
DomainExpirationRun(c) ==
    << Opens(Wait("query", ClientEnds(c), "infra"), "body"),
       Local("status", {"fail", "infra"}),
       Wait("decode", ClientEnds(c), "infra"),
       Local("expiry", {"fail"}) >>

(* "observe" compares the answer with the remembered more-specifics.       *)
(* rpkiStatus is the three last steps: a query that fails, or whose answer *)
(* cannot be read, leaves the verdict unknown and the check successful;    *)
(* only the verdict "invalid" fails it.  Its body is released when         *)
(* rpkiStatus returns, here with the rest at the end of Run.               *)
BGPRun(c) ==
    << Opens(Wait("routing", ClientEnds(c), "infra"), "body"),
       Wait("decode", ClientEnds(c), "infra"),
       Local("observe", {"fail"}),
       Local("origins", {"fail"}),
       Opens(Wait("rpki", ClientEnds(c), "ok"), "rpki_body"),
       Wait("rpki_read", ClientEnds(c), "ok"),
       Local("verdict", {"fail"}) >>

(* The dial runs in a goroutine that Run abandons when the context ends,   *)
(* with its connection if it has one by then.  The timeout bounds          *)
(* connecting but not the upgrade handshake, after whose failure the       *)
(* library closes the connection.                                          *)
WebSocketRun(c) ==
    << Yields(Wait("connect", Both, "fail"), "conn"),
       TakesOver(Wait("upgrade", {"ctx"}, "fail"), "conn") >>
    \o If("send" \in c.has,
          << Wait("send", {}, "fail") >>
          \o If("expect_recv" \in c.has, << Wait("recv", {"timeout"}, "fail"),
                                            Local("match", {"fail"}) >>))

PlaywrightRun_LateDefer(c) ==
    << Yields(Wait("slot", Both, "infra"), "slot"),
       [Opens(Local("workdir", {"infra"}), "workdir") EXCEPT !.defers = {"slot", "workdir"}],
       Wait("node", Both, "infra"),
       Local("output", {"fail", "infra"}) >>

(* The timeout covers the wait for a browser slot too. *)
PlaywrightRun(c) ==
    << Opens(Wait("slot", Both, "infra"), "slot"),
       Opens(Local("workdir", {"infra"}), "workdir"),
       Wait("node", Both, "infra"),
       Local("output", {"fail", "infra"}) >>

(* The checker of every type (newCheckers, NewBlackboxHandler). *)
RunSteps(c) ==
    CASE c.type = "http" -> HTTPRun(c)
      [] c.type = "tcp" -> TCPRun(c)
      [] c.type = "smtp" -> SMTPRun(c)
      [] c.type = "tls" -> TLSRun(c)
      [] c.type = "udp" -> UDPRun(c)
      [] c.type = "ntp" -> NTPRun(c)
      [] c.type = "dns" -> DNSRun(c)
      [] c.type = "icmp" -> ICMPRun(c)
      [] c.type = "grpc" -> GRPCRun(c)
      [] c.type = "traceroute" -> TracerouteRun(c)
      [] c.type = "domain_expiry" -> DomainExpirationRun(c)
      [] c.type = "bgp" -> BGPRun(c)
      [] c.type = "websocket" -> WebSocketRun(c)
      [] c.type = "playwright" -> PlaywrightRun(c)
=============================================================================
