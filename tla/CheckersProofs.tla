--------------------------- MODULE CheckersProofs ---------------------------
(***************************************************************************)
(* What holds of the checkers for every number of checks, every content of *)
(* checks.yml, every limit on browsers and every number of retries.        *)
(***************************************************************************)
EXTENDS Checkers, SequenceTheorems, TLAPS

(* A more-specific that is remembered was in the first answer or has       *)
(* failed an attempt, whichever runs observe in whichever order (bgp.go    *)
(* 82-102, 108-272).                                                       *)
THEOREM KnownInvariant == Spec => []KnownWasReported
<1>1. Init => KnownWasReported BY DEF Init, KnownWasReported
<1>2. KnownWasReported /\ [Next]_vars => KnownWasReported'
  <2> SUFFICES ASSUME KnownWasReported, [Next]_vars PROVE KnownWasReported' OBVIOUS
  <2>1. ASSUME NEW r \in Runs, ObserveMoreSpecifics(r) PROVE KnownWasReported'
    <3>1. CASE observed
      BY <2>1, <3>1 DEF ObserveMoreSpecifics, KnownWasReported
    <3>2. CASE ~observed
      BY <2>1, <3>2 DEF ObserveMoreSpecifics, KnownWasReported
    <3> QED BY <3>1, <3>2
  <2>2. CASE UNCHANGED <<known, baseline, alarmed>> BY <2>2 DEF KnownWasReported
  <2>3. \/ \E r \in Runs : ObserveMoreSpecifics(r)
        \/ UNCHANGED <<known, baseline, alarmed>>
    BY DEF Next, Load, ContextEnds, RouteChanges, Idle, Start, Proceeds, Fails, TimesOut,
           Cancelled, Panics, Retry, DialMoves, DialTimesOut, RunsAgain, vars, bgp, memory
  <2> QED BY <2>1, <2>2, <2>3
<1> QED BY <1>1, <1>2, PTL DEF Spec

-----------------------------------------------------------------------------
(* The steps of the checkers: their type, that only SMTP authenticates,    *)
(* that only SMTP and WebSocket hand a connection from one step to the     *)
(* next, that only WebSocket dials in a goroutine of its own, and which of *)
(* them panic or wait without a timer.                                     *)

Ops == {"do", "read", "status", "assert", "dial", "handshake", "send", "recv", "match",
        "greeting", "hello", "extension", "starttls", "auth", "chain", "payload", "buffer",
        "synchronized", "record_type", "query", "resolve", "listen", "pings", "health",
        "serving", "mtr", "parse", "decode", "expiry", "routing", "observe", "origins",
        "rpki", "rpki_read", "verdict", "connect", "upgrade", "slot", "workdir", "node",
        "output"}
DialOps == {"connect", "upgrade"}
PlainOps == Ops \ ({"auth"} \cup DialOps)

StepRecords ==
    [op : Ops, blocks : BOOLEAN, ends : SUBSET {"timeout", "ctx"},
     bad : SUBSET {"ok", "fail", "infra", "panic"}, late : {"none", "ok", "fail", "infra"},
     ok : BOOLEAN, gets : SUBSET Resources, defers : SUBSET Resources,
     closes : SUBSET Resources]

AnySteps == {s \in StepRecords : /\ s.blocks => s.late # "none"
                                 /\ s.op = "observe" => s.closes = {}}
CalmSteps == {s \in AnySteps : "panic" \notin s.bad}
TidySteps == {s \in CalmSteps : s.gets \subseteq s.defers /\ s.closes = {}}
QuietSteps == {s \in TidySteps : s.op \notin DialOps}
PlainSteps == {s \in QuietSteps : s.op # "auth"}
TimedSteps == {s \in PlainSteps : s.blocks => "timeout" \in s.ends}

LEMMA LocalStep ==
    ASSUME NEW op \in PlainOps, NEW bad \in SUBSET {"fail", "infra"}
    PROVE  Local(op, bad) \in TimedSteps /\ Hopeless(Local(op, bad)) \in TimedSteps
BY DEF Local, Hopeless, PlainOps, DialOps, TimedSteps, PlainSteps, QuietSteps, TidySteps,
       CalmSteps, AnySteps, StepRecords

LEMMA WaitStep ==
    ASSUME NEW op \in PlainOps, NEW ends \in SUBSET {"timeout", "ctx"},
           NEW bad \in {"ok", "fail", "infra"}
    PROVE  /\ Wait(op, ends, bad) \in PlainSteps
           /\ "timeout" \in ends => Wait(op, ends, bad) \in TimedSteps
BY DEF Wait, Local, PlainOps, DialOps, TimedSteps, PlainSteps, QuietSteps, TidySteps,
       CalmSteps, AnySteps, StepRecords

LEMMA OpensStep ==
    ASSUME NEW s \in PlainSteps, NEW res \in Resources
    PROVE  /\ Opens(s, res) \in PlainSteps
           /\ s \in TimedSteps => Opens(s, res) \in TimedSteps
BY DEF Opens, TimedSteps, PlainSteps, QuietSteps, TidySteps, CalmSteps, AnySteps, StepRecords

LEMMA TimedArePlain == TimedSteps \subseteq PlainSteps
BY DEF TimedSteps

(* The waits that occur. *)
LEMMA Waits ==
    ASSUME NEW op \in PlainOps
    PROVE  /\ Wait(op, Both, "fail") \in TimedSteps
           /\ Wait(op, Both, "infra") \in TimedSteps
           /\ Wait(op, {"ctx"}, "fail") \in PlainSteps
           /\ Wait(op, {"timeout"}, "fail") \in TimedSteps
           /\ Wait(op, {}, "fail") \in PlainSteps
<1>1. Both \in SUBSET {"timeout", "ctx"} /\ "timeout" \in Both BY DEF Both
<1>2. {"ctx"} \in SUBSET {"timeout", "ctx"} /\ {"timeout"} \in SUBSET {"timeout", "ctx"}
      /\ {} \in SUBSET {"timeout", "ctx"} /\ "timeout" \in {"timeout"}
  OBVIOUS
<1> QED BY <1>1, <1>2, WaitStep

(* The waits for an HTTP client, whose timeout counts if it is positive. *)
LEMMA ClientWaits ==
    ASSUME NEW op \in PlainOps, NEW c, NEW bad \in {"ok", "infra"}
    PROVE  /\ Wait(op, ClientEnds(c), bad) \in PlainSteps
           /\ c.timeout > 0 => Wait(op, ClientEnds(c), bad) \in TimedSteps
<1>1. ClientEnds(c) \in SUBSET {"timeout", "ctx"} BY DEF ClientEnds, Both
<1>2. c.timeout > 0 => "timeout" \in ClientEnds(c) BY DEF ClientEnds, Both
<1> QED BY <1>1, <1>2, WaitStep

(* The local steps that occur. *)
LEMMA Locals ==
    ASSUME NEW op \in PlainOps
    PROVE  /\ Local(op, {}) \in TimedSteps
           /\ Local(op, {"fail"}) \in TimedSteps
           /\ Local(op, {"infra"}) \in TimedSteps
           /\ Local(op, {"fail", "infra"}) \in TimedSteps
           /\ Hopeless(Local(op, {"fail"})) \in TimedSteps
<1> DEFINE B == SUBSET {"fail", "infra"}
<1>1. {} \in B /\ {"fail"} \in B /\ {"infra"} \in B /\ {"fail", "infra"} \in B
  OBVIOUS
<1> QED BY <1>1, LocalStep

LEMMA DialStep == Dial \in TimedSteps /\ Dial \in PlainSteps
<1>1. "dial" \in PlainOps BY DEF Ops, PlainOps, DialOps
<1>2. Wait("dial", Both, "fail") \in TimedSteps BY <1>1, Waits
<1>3. "conn" \in Resources BY DEF Resources
<1>4. Dial \in TimedSteps BY <1>2, <1>3, OpensStep, TimedArePlain DEF Dial
<1> QED BY <1>4, TimedArePlain

(* Sequences of steps are built from tuples and conditional parts. *)
IsRun(s, S) == s \in Seq(S) /\ Len(s) >= 1

LEMMA ExtendRun ==
    ASSUME NEW S, NEW s, IsRun(s, S), NEW cond, NEW t, cond => t \in Seq(S)
    PROVE  IsRun(s \o If(cond, t), S)
<1>1. If(cond, t) \in Seq(S) BY DEF If
<1>2. s \o If(cond, t) \in Seq(S)
      /\ Len(s \o If(cond, t)) = Len(s) + Len(If(cond, t))
  BY <1>1, ConcatProperties DEF IsRun
<1>3. Len(s) \in Nat /\ Len(If(cond, t)) \in Nat BY <1>1 DEF IsRun
<1> QED BY <1>2, <1>3 DEF IsRun

LEMMA WiderRun ==
    ASSUME NEW S, NEW T, S \subseteq T, NEW s, IsRun(s, S)
    PROVE  IsRun(s, T)
BY DEF IsRun

(* The operations that are like any other. *)
LEMMA OpsKnown ==
    \A op \in {"do", "read", "status", "assert", "dial", "handshake", "send", "recv",
               "match", "greeting", "hello", "extension", "starttls", "chain", "payload",
               "buffer", "synchronized", "record_type", "query", "resolve", "listen",
               "pings", "health", "serving", "mtr", "parse", "decode", "expiry", "routing",
               "observe", "origins", "rpki", "rpki_read", "verdict", "slot", "workdir",
               "node", "output"} : op \in PlainOps
BY DEF Ops, PlainOps, DialOps

LEMMA HTTPSteps == ASSUME NEW c PROVE IsRun(HTTPRun(c), TimedSteps)
<1>1. /\ Wait("do", Both, "fail") \in TimedSteps /\ Wait("read", Both, "fail") \in TimedSteps
      /\ Local("status", {"fail"}) \in TimedSteps /\ Local("assert", {"fail"}) \in TimedSteps
  BY OpsKnown, Waits, Locals
<1>2. Opens(Wait("do", Both, "fail"), "body") \in TimedSteps
  BY <1>1, OpensStep, TimedArePlain DEF Resources
<1>3. << Local("assert", {"fail"}) >> \in Seq(TimedSteps) BY <1>1
<1>4. IsRun(<< Opens(Wait("do", Both, "fail"), "body"), Wait("read", Both, "fail"),
               Local("status", {"fail"}) >>, TimedSteps)
  BY <1>1, <1>2 DEF IsRun
<1> QED BY <1>3, <1>4, ExtendRun DEF HTTPRun

LEMMA TCPSteps ==
    ASSUME NEW c
    PROVE  /\ IsRun(TCPRun(c), PlainSteps)
           /\ c.has \cap {"tls", "send"} = {} => IsRun(TCPRun(c), TimedSteps)
<1>1. /\ Wait("handshake", {"ctx"}, "fail") \in PlainSteps
      /\ Wait("send", {}, "fail") \in PlainSteps
      /\ Wait("recv", {"timeout"}, "fail") \in TimedSteps
      /\ Local("match", {"fail"}) \in TimedSteps
  BY OpsKnown, Waits, Locals
<1> DEFINE t1 == << Wait("handshake", {"ctx"}, "fail") >>
           t2 == << Wait("send", {}, "fail") >>
           t3 == << Wait("recv", {"timeout"}, "fail"), Local("match", {"fail"}) >>
           s1 == << Dial >> \o If("tls" \in c.has, t1)
           s2 == s1 \o If("send" \in c.has, t2)
<1>2. t1 \in Seq(PlainSteps) /\ t2 \in Seq(PlainSteps) /\ t3 \in Seq(TimedSteps) BY <1>1
<1>3. TCPRun(c) = s2 \o If("expect_recv" \in c.has, t3) BY DEF TCPRun
<1> HIDE DEF t1, t2, t3
<1>4. ASSUME NEW S, TimedSteps \subseteq S,
             S = PlainSteps \/ c.has \cap {"tls", "send"} = {}
      PROVE  IsRun(TCPRun(c), S)
  <2>1. IsRun(<< Dial >>, S) BY <1>4, DialStep DEF IsRun
  <2>2. IsRun(s1, S) BY <1>2, <1>4, <2>1, ExtendRun
  <2> HIDE DEF s1
  <2>3. IsRun(s2, S) BY <1>2, <1>4, <2>2, ExtendRun
  <2> HIDE DEF s2
  <2>4. t3 \in Seq(S) BY <1>2, <1>4
  <2> QED BY <1>3, <2>3, <2>4, ExtendRun
<1> HIDE DEF s1, s2
<1> QED BY <1>4, TimedArePlain

LEMMA TLSSteps == ASSUME NEW c PROVE IsRun(TLSRun(c), PlainSteps)
<1>1. Wait("handshake", {"ctx"}, "fail") \in PlainSteps
      /\ Local("chain", {"fail"}) \in PlainSteps
  BY OpsKnown, Waits, Locals, TimedArePlain
<1> QED BY <1>1, DialStep DEF TLSRun, IsRun

(* The allocation that a bad max_response_bytes makes panic. *)
Overflowing == Hopeless(Local("buffer", {"panic"}))
UDPKinds == TimedSteps \cup {Overflowing}

(* The configurations that make a run panic. *)
Panicky(c) == c.type = "udp" /\ TooLong(c.number)

LEMMA OverflowingStep ==
    /\ Overflowing \in AnySteps /\ Overflowing.op = "buffer" /\ ~Overflowing.blocks
    /\ Overflowing.gets = {} /\ Overflowing.closes = {}
BY DEF Overflowing, Hopeless, Local, AnySteps, StepRecords, Ops

LEMMA UDPSteps ==
    ASSUME NEW c
    PROVE  /\ IsRun(UDPRun(c), UDPKinds)
           /\ ~TooLong(c.number) => IsRun(UDPRun(c), TimedSteps)
<1> DEFINE unanswered == "no_response" \in c.has
           x == IF \/ "send_hex" \in c.has /\ "bad_hex" \in c.has
                   \/ c.has \cap {"send", "send_hex"} = {}
                  THEN Hopeless(Local("payload", {"fail"})) ELSE Local("payload", {})
           y == IF TooLong(IF c.number = 0 THEN DefaultResponseBytes ELSE c.number)
                  THEN Overflowing ELSE Local("buffer", {})
           z == [Wait("recv", {"timeout"}, "fail")
                   EXCEPT !.late = IF unanswered THEN "ok" ELSE "fail"]
           t1 == << y, z >>
           t2 == << Local("match", {"fail"}) >>
           s1 == << x, Dial, Wait("send", {"timeout"}, "fail") >>
           s2 == s1 \o If(~unanswered \/ "expect_recv" \in c.has, t1)
<1>1. /\ Hopeless(Local("payload", {"fail"})) \in TimedSteps
      /\ Local("payload", {}) \in TimedSteps
      /\ Local("buffer", {}) \in TimedSteps
      /\ Wait("recv", {"timeout"}, "fail") \in TimedSteps
      /\ Wait("send", {"timeout"}, "fail") \in TimedSteps
      /\ Local("match", {"fail"}) \in TimedSteps
  BY OpsKnown, Waits, Locals
<1>0. ~TooLong(DefaultResponseBytes) BY DefaultFits DEF TooLong, DefaultResponseBytes
<1>2. x \in TimedSteps /\ (y = Overflowing \/ y \in TimedSteps)
      /\ (~TooLong(c.number) => y \in TimedSteps)
  BY <1>0, <1>1
<1>3. z \in TimedSteps
  BY <1>1 DEF TimedSteps, PlainSteps, QuietSteps, TidySteps, CalmSteps, AnySteps, StepRecords
<1>4. UDPRun(c) = s2 \o If("expect_recv" \in c.has, t2) BY DEF UDPRun, Buffer, Overflowing
<1> HIDE DEF x, y, z
<1>5. ASSUME NEW S, TimedSteps \subseteq S, y \in S PROVE IsRun(UDPRun(c), S)
  <2>1. IsRun(s1, S) /\ t1 \in Seq(S) /\ t2 \in Seq(S)
    BY <1>1, <1>2, <1>3, <1>5, DialStep DEF IsRun
  <2> HIDE DEF s1, t1, t2
  <2>2. IsRun(s2, S) BY <2>1, ExtendRun
  <2> HIDE DEF s2
  <2> QED BY <1>4, <2>1, <2>2, ExtendRun
<1> HIDE DEF s1, s2, t1, t2
<1> QED BY <1>2, <1>5 DEF UDPKinds

LEMMA NTPSteps == ASSUME NEW c PROVE IsRun(NTPRun(c), TimedSteps)
<1>1. /\ Wait("send", {"timeout"}, "fail") \in TimedSteps
      /\ Wait("recv", {"timeout"}, "fail") \in TimedSteps
      /\ Local("synchronized", {"fail"}) \in TimedSteps
  BY OpsKnown, Waits, Locals
<1> QED BY <1>1, DialStep DEF NTPRun, IsRun

LEMMA DNSSteps == ASSUME NEW c PROVE IsRun(DNSRun(c), TimedSteps)
<1>1. /\ Hopeless(Local("record_type", {"fail"})) \in TimedSteps
      /\ Wait("query", Both, "fail") \in TimedSteps /\ Local("match", {"fail"}) \in TimedSteps
  BY OpsKnown, Waits, Locals
<1>2. /\ IsRun(<< Hopeless(Local("record_type", {"fail"})) >>, TimedSteps)
      /\ IsRun(<< Wait("query", Both, "fail") >>, TimedSteps)
      /\ << Local("match", {"fail"}) >> \in Seq(TimedSteps)
  BY <1>1 DEF IsRun
<1>3. IsRun(<< Wait("query", Both, "fail") >>
            \o If("expected" \in c.has, << Local("match", {"fail"}) >>), TimedSteps)
  BY <1>2, ExtendRun
<1> QED BY <1>2, <1>3 DEF DNSRun

LEMMA ICMPSteps == ASSUME NEW c PROVE IsRun(ICMPRun(c), PlainSteps)
<1>1. /\ Wait("resolve", {}, "fail") \in PlainSteps
      /\ Wait("pings", {"timeout"}, "fail") \in PlainSteps
      /\ Local("listen", {"fail"}) \in PlainSteps
  BY OpsKnown, Waits, Locals, TimedArePlain
<1>2. Opens(Local("listen", {"fail"}), "conn") \in PlainSteps BY <1>1, OpensStep DEF Resources
<1> QED BY <1>1, <1>2 DEF ICMPRun, IsRun

LEMMA GRPCSteps == ASSUME NEW c PROVE IsRun(GRPCRun(c), TimedSteps)
<1>1. Wait("health", Both, "fail") \in TimedSteps /\ Local("serving", {"fail"}) \in TimedSteps
  BY OpsKnown, Waits, Locals
<1> QED BY <1>1 DEF GRPCRun, IsRun

LEMMA TracerouteSteps == ASSUME NEW c PROVE IsRun(TracerouteRun(c), TimedSteps)
<1>1. Wait("mtr", Both, "fail") \in TimedSteps /\ Local("parse", {"fail"}) \in TimedSteps
  BY OpsKnown, Waits, Locals
<1> QED BY <1>1 DEF TracerouteRun, IsRun

LEMMA DomainExpirationSteps ==
    ASSUME NEW c
    PROVE  /\ IsRun(DomainExpirationRun(c), PlainSteps)
           /\ c.timeout > 0 => IsRun(DomainExpirationRun(c), TimedSteps)
<1> DEFINE q == Wait("query", ClientEnds(c), "infra")
           d == Wait("decode", ClientEnds(c), "infra")
<1>1. Local("status", {"fail", "infra"}) \in TimedSteps /\ Local("expiry", {"fail"}) \in TimedSteps
  BY OpsKnown, Locals
<1>2. /\ q \in PlainSteps /\ d \in PlainSteps
      /\ c.timeout > 0 => q \in TimedSteps /\ d \in TimedSteps
  BY OpsKnown, ClientWaits
<1>3. DomainExpirationRun(c) = << Opens(q, "body"), Local("status", {"fail", "infra"}), d,
                                  Local("expiry", {"fail"}) >>
  BY DEF DomainExpirationRun
<1> HIDE DEF q, d
<1>4. Opens(q, "body") \in PlainSteps /\ (c.timeout > 0 => Opens(q, "body") \in TimedSteps)
  BY <1>2, OpensStep DEF Resources
<1>5. IsRun(DomainExpirationRun(c), PlainSteps)
  BY <1>1, <1>2, <1>3, <1>4, TimedArePlain DEF IsRun
<1>6. c.timeout > 0 => IsRun(DomainExpirationRun(c), TimedSteps)
  BY <1>1, <1>2, <1>3, <1>4 DEF IsRun
<1> QED BY <1>5, <1>6

LEMMA BGPSteps ==
    ASSUME NEW c
    PROVE  /\ IsRun(BGPRun(c), PlainSteps)
           /\ c.timeout > 0 => IsRun(BGPRun(c), TimedSteps)
<1> DEFINE q == Wait("routing", ClientEnds(c), "infra")
           d == Wait("decode", ClientEnds(c), "infra")
           k == Wait("rpki", ClientEnds(c), "ok")
           m == Wait("rpki_read", ClientEnds(c), "ok")
<1>1. /\ Local("observe", {"fail"}) \in TimedSteps /\ Local("origins", {"fail"}) \in TimedSteps
      /\ Local("verdict", {"fail"}) \in TimedSteps
  BY OpsKnown, Locals
<1>2. /\ q \in PlainSteps /\ d \in PlainSteps /\ k \in PlainSteps /\ m \in PlainSteps
      /\ c.timeout > 0 => /\ q \in TimedSteps /\ d \in TimedSteps
                          /\ k \in TimedSteps /\ m \in TimedSteps
  BY OpsKnown, ClientWaits
<1>3. BGPRun(c) = << Opens(q, "body"), d, Local("observe", {"fail"}),
                     Local("origins", {"fail"}), Opens(k, "rpki_body"), m,
                     Local("verdict", {"fail"}) >>
  BY DEF BGPRun
<1> HIDE DEF q, d, k, m
<1>4. /\ Opens(q, "body") \in PlainSteps /\ Opens(k, "rpki_body") \in PlainSteps
      /\ c.timeout > 0 => Opens(q, "body") \in TimedSteps /\ Opens(k, "rpki_body") \in TimedSteps
  BY <1>2, OpensStep DEF Resources
<1>5. IsRun(BGPRun(c), PlainSteps)
  BY <1>1, <1>2, <1>3, <1>4, TimedArePlain DEF IsRun
<1>6. c.timeout > 0 => IsRun(BGPRun(c), TimedSteps)
  BY <1>1, <1>2, <1>3, <1>4 DEF IsRun
<1> QED BY <1>5, <1>6

LEMMA PlaywrightSteps == ASSUME NEW c PROVE IsRun(PlaywrightRun(c), TimedSteps)
<1>1. /\ Wait("slot", Both, "infra") \in TimedSteps /\ Local("workdir", {"infra"}) \in TimedSteps
      /\ Wait("node", Both, "infra") \in TimedSteps
      /\ Local("output", {"fail", "infra"}) \in TimedSteps
  BY OpsKnown, Waits, Locals
<1>3. Opens(Wait("slot", Both, "infra"), "slot") \in TimedSteps
      /\ Opens(Local("workdir", {"infra"}), "workdir") \in TimedSteps
  BY <1>1, OpensStep, TimedArePlain DEF Resources
<1> QED BY <1>1, <1>3 DEF PlaywrightRun, IsRun

(* AUTH comes only after STARTTLS. *)
AuthSafe(s) ==
    \A i \in 1 .. Len(s) : s[i].op = "auth" => \E j \in 1 .. i - 1 : s[j].op = "starttls"

(* No step is part of a dial in a goroutine of its own. *)
NoDial(s) == \A i \in 1 .. Len(s) : s[i].op \notin DialOps

(* What a step acquires is deferred by it, or closed by the next one if    *)
(* that fails and deferred by it otherwise.                                *)
Releases(s) ==
    /\ \A i \in 1 .. Len(s) : s[i].closes \subseteq s[i].defers
    /\ \A i \in 1 .. Len(s) - 1 : s[i].gets \subseteq s[i].defers \cup s[i + 1].closes
    /\ s[Len(s)].gets \subseteq s[Len(s)].defers

LEMMA PlainRunsSafe ==
    ASSUME NEW s, IsRun(s, PlainSteps \cup {Overflowing})
    PROVE  /\ s \in Seq(AnySteps) /\ Len(s) >= 1 /\ AuthSafe(s) /\ Releases(s)
           /\ NoDial(s)
<1>1. \A x \in PlainSteps \cup {Overflowing} :
         /\ x \in AnySteps /\ x.op # "auth" /\ x.op \notin DialOps
         /\ x.gets \subseteq x.defers /\ x.closes = {}
  BY OverflowingStep DEF PlainSteps, QuietSteps, TidySteps, CalmSteps, DialOps
<1>2. \A i \in 1 .. Len(s) : s[i] \in PlainSteps \cup {Overflowing} BY DEF IsRun
<1>3. Len(s) \in Nat /\ Len(s) >= 1 BY DEF IsRun
<1>4. s \in Seq(AnySteps) BY <1>1 DEF IsRun
<1>5. AuthSafe(s) BY <1>1, <1>2 DEF AuthSafe
<1>6. Releases(s) BY <1>1, <1>2, <1>3 DEF Releases
<1>7. NoDial(s) BY <1>1, <1>2 DEF NoDial
<1> QED BY <1>3, <1>4, <1>5, <1>6, <1>7

(* The connection an SMTP or a WebSocket run opens is handed on by its     *)
(* first step and taken over by the second, which closes it if it fails.   *)
LEMMA HandOverSteps ==
    ASSUME NEW op \in Ops \ {"observe"}, NEW ends \in SUBSET {"timeout", "ctx"}
    PROVE  /\ Yields(Wait(op, ends, "fail"), "conn") \in CalmSteps
           /\ Yields(Wait(op, ends, "fail"), "conn").op = op
           /\ Yields(Wait(op, ends, "fail"), "conn").gets = {"conn"}
           /\ Yields(Wait(op, ends, "fail"), "conn").closes = {}
           /\ TakesOver(Wait(op, ends, "fail"), "conn") \in CalmSteps
           /\ TakesOver(Wait(op, ends, "fail"), "conn").op = op
           /\ TakesOver(Wait(op, ends, "fail"), "conn").gets = {}
           /\ TakesOver(Wait(op, ends, "fail"), "conn").closes = {"conn"}
           /\ TakesOver(Wait(op, ends, "fail"), "conn").defers = {"conn"}
BY DEF Yields, TakesOver, Wait, Local, CalmSteps, AnySteps, StepRecords, Resources

(* A run that begins with steps a and b and goes on with steps of S. *)
Begins(s, a, b, S) ==
    /\ s \in Seq(CalmSteps) /\ Len(s) >= 2
    /\ s[1] = a /\ s[2] = b
    /\ \A i \in 3 .. Len(s) : s[i] \in S

LEMMA ExtendBegun ==
    ASSUME NEW S, S \subseteq CalmSteps, NEW s, NEW a, NEW b, Begins(s, a, b, S), NEW cond,
           NEW t, cond => t \in Seq(S)
    PROVE  Begins(s \o If(cond, t), a, b, S)
<1>1. CASE cond
  <2>1. If(cond, t) = t /\ t \in Seq(S) /\ t \in Seq(CalmSteps) BY <1>1 DEF If
  <2>2. s \in Seq(CalmSteps) /\ Len(s) \in Nat /\ Len(t) \in Nat BY <2>1 DEF Begins
  <2> DEFINE u == s \o t
  <2>3. /\ u \in Seq(CalmSteps) /\ Len(u) = Len(s) + Len(t)
        /\ \A i \in 1 .. Len(s) + Len(t) :
              u[i] = IF i <= Len(s) THEN s[i] ELSE t[i - Len(s)]
    BY <2>1, <2>2, ConcatProperties
  <2> HIDE DEF u
  <2>4. u[1] = s[1] /\ u[2] = s[2] BY <2>2, <2>3 DEF Begins
  <2>5. ASSUME NEW i \in 3 .. Len(u) PROVE u[i] \in S
    <3>1. CASE i <= Len(s) BY <2>2, <2>3, <3>1 DEF Begins
    <3>2. CASE i > Len(s)
      <4>1. i - Len(s) \in 1 .. Len(t) BY <2>2, <2>3, <3>2
      <4>2. u[i] = t[i - Len(s)] BY <2>2, <2>3, <3>2
      <4> QED BY <2>1, <4>1, <4>2
    <3> QED BY <2>2, <2>3, <3>1, <3>2
  <2>6. Begins(u, a, b, S) BY <2>2, <2>3, <2>4, <2>5 DEF Begins
  <2> QED BY <2>1, <2>6 DEF u
<1>2. CASE ~cond
  <2>1. If(cond, t) = <<>> BY <1>2 DEF If
  <2>2. s \o <<>> = s BY DEF Begins
  <2> QED BY <2>1, <2>2
<1> QED BY <1>1, <1>2

LEMMA BegunReleases ==
    ASSUME NEW s, NEW a, NEW b, Begins(s, a, b, TidySteps), a.gets = {"conn"},
           a.closes = {}, b.gets = {}, b.closes = {"conn"}, b.defers = {"conn"}
    PROVE  Releases(s)
<1>1. Len(s) \in Nat /\ Len(s) >= 2 BY DEF Begins
<1>2. \A i \in 3 .. Len(s) : s[i].gets \subseteq s[i].defers /\ s[i].closes = {}
  BY DEF Begins, TidySteps
<1>3. /\ s[1].gets = {"conn"} /\ s[1].closes = {} /\ s[2].gets = {}
      /\ s[2].closes = {"conn"} /\ s[2].defers = {"conn"}
  BY DEF Begins
<1>4. \A i \in 1 .. Len(s) : i = 1 \/ i = 2 \/ i \in 3 .. Len(s) BY <1>1
<1>5. ASSUME NEW i \in 1 .. Len(s) PROVE s[i].closes \subseteq s[i].defers
  BY <1>2, <1>3, <1>4
<1>6. ASSUME NEW i \in 1 .. Len(s) - 1
      PROVE  s[i].gets \subseteq s[i].defers \cup s[i + 1].closes
  BY <1>1, <1>2, <1>3
<1>7. s[Len(s)].gets \subseteq s[Len(s)].defers BY <1>1, <1>2, <1>3
<1> QED BY <1>5, <1>6, <1>7 DEF Releases

LEMMA StepKinds ==
    /\ TimedSteps \subseteq PlainSteps /\ PlainSteps \subseteq QuietSteps
    /\ QuietSteps \subseteq TidySteps /\ TidySteps \subseteq CalmSteps
    /\ CalmSteps \subseteq AnySteps
BY DEF TimedSteps, PlainSteps, QuietSteps, TidySteps, CalmSteps

LEMMA WebSocketSteps ==
    ASSUME NEW c
    PROVE  /\ WebSocketRun(c) \in Seq(CalmSteps) /\ Len(WebSocketRun(c)) >= 1
           /\ Releases(WebSocketRun(c)) /\ AuthSafe(WebSocketRun(c))
<1> DEFINE a == Yields(Wait("connect", Both, "fail"), "conn")
           b == TakesOver(Wait("upgrade", {"ctx"}, "fail"), "conn")
           s1 == << a, b >>
           t1 == << Wait("send", {}, "fail") >>
           t2 == << Wait("recv", {"timeout"}, "fail"), Local("match", {"fail"}) >>
           t3 == t1 \o If("expect_recv" \in c.has, t2)
           s2 == s1 \o If("send" \in c.has, t3)
<1>1. /\ Wait("send", {}, "fail") \in PlainSteps
      /\ Wait("recv", {"timeout"}, "fail") \in PlainSteps
      /\ Local("match", {"fail"}) \in PlainSteps
  BY OpsKnown, Waits, Locals, TimedArePlain
<1>2. /\ "connect" \in Ops \ {"observe"} /\ "upgrade" \in Ops \ {"observe"}
      /\ Both \in SUBSET {"timeout", "ctx"} /\ {"ctx"} \in SUBSET {"timeout", "ctx"}
  BY DEF Ops, Both
<1>3. /\ a \in CalmSteps /\ a.op = "connect" /\ a.gets = {"conn"} /\ a.closes = {}
      /\ b \in CalmSteps /\ b.op = "upgrade" /\ b.gets = {} /\ b.closes = {"conn"}
      /\ b.defers = {"conn"}
  BY <1>2, HandOverSteps
<1>4. WebSocketRun(c) = s2 BY DEF WebSocketRun
<1> HIDE DEF a, b
<1>5. IsRun(t1, PlainSteps) /\ t2 \in Seq(PlainSteps) BY <1>1 DEF IsRun
<1> HIDE DEF t1, t2
<1>6. t3 \in Seq(PlainSteps) BY <1>5, ExtendRun DEF IsRun
<1>7. Begins(s1, a, b, PlainSteps) BY <1>3 DEF Begins
<1> HIDE DEF s1, t3
<1>8. Begins(s2, a, b, PlainSteps) BY <1>6, <1>7, ExtendBegun, StepKinds
<1> HIDE DEF s2
<1>9. Begins(s2, a, b, TidySteps) BY <1>8, StepKinds DEF Begins
<1>10. Releases(s2) BY <1>3, <1>9, BegunReleases
<1>11. AuthSafe(s2)
  <2>1. \A i \in 3 .. Len(s2) : s2[i].op # "auth" BY <1>8 DEF Begins, PlainSteps
  <2>2. s2[1].op # "auth" /\ s2[2].op # "auth" /\ Len(s2) \in Nat BY <1>3, <1>8 DEF Begins
  <2>3. \A i \in 1 .. Len(s2) : i = 1 \/ i = 2 \/ i \in 3 .. Len(s2) BY <2>2
  <2> QED BY <2>1, <2>2, <2>3 DEF AuthSafe
<1>12. s2 \in Seq(CalmSteps) /\ Len(s2) \in Nat /\ Len(s2) >= 2 BY <1>8 DEF Begins
<1> QED BY <1>4, <1>10, <1>11, <1>12

LEMMA SMTPSteps ==
    ASSUME NEW c
    PROVE  /\ SMTPRun(c) \in Seq(CalmSteps) /\ Len(SMTPRun(c)) >= 1
           /\ Releases(SMTPRun(c)) /\ NoDial(SMTPRun(c))
           /\ ("username" \in c.has => "start_tls" \in c.has) => AuthSafe(SMTPRun(c))
<1> DEFINE d == Yields(Wait("dial", Both, "fail"), "conn")
           g == TakesOver(Wait("greeting", {}, "fail"), "conn")
           h == Wait("hello", {}, "fail")
           e == Local("extension", {"fail"})
           t == Wait("starttls", {}, "fail")
           a == Wait("auth", {}, "fail")
           s1 == << d, g, h >>
           t1 == << e, t >>
           t2 == << a >>
           s2 == s1 \o If("start_tls" \in c.has, t1)
           s3 == s2 \o If("username" \in c.has, t2)
<1>1. h \in PlainSteps /\ e \in PlainSteps /\ t \in PlainSteps
  BY OpsKnown, Waits, Locals, TimedArePlain
<1>2. /\ "dial" \in Ops \ {"observe"} /\ "greeting" \in Ops \ {"observe"}
      /\ Both \in SUBSET {"timeout", "ctx"} /\ {} \in SUBSET {"timeout", "ctx"}
  BY DEF Ops, Both
<1>15. /\ d \in CalmSteps /\ d.op = "dial" /\ d.gets = {"conn"} /\ d.closes = {}
       /\ g \in CalmSteps /\ g.op = "greeting" /\ g.gets = {} /\ g.closes = {"conn"}
       /\ g.defers = {"conn"}
  BY <1>2, HandOverSteps
<1>3. a \in QuietSteps
  BY DEF Wait, Local, QuietSteps, TidySteps, CalmSteps, AnySteps, StepRecords, Ops, DialOps
<1>4. t.op = "starttls" BY DEF Wait, Local
<1>5. SMTPRun(c) = s3 BY DEF SMTPRun
<1> HIDE DEF d, g, h, e, t, a
<1>6. /\ Begins(s1, d, g, PlainSteps) /\ t1 \in Seq(PlainSteps) /\ t2 \in Seq(QuietSteps)
      /\ Len(s1) = 3 /\ Len(t1) = 2 /\ t1[2] = t /\ Len(t2) = 1
  BY <1>1, <1>3, <1>15, StepKinds DEF Begins
<1> HIDE DEF s1, t1, t2
<1>7. Begins(s2, d, g, PlainSteps) BY <1>6, ExtendBegun, StepKinds
<1> HIDE DEF s2
<1>8. Begins(s2, d, g, QuietSteps) BY <1>7, StepKinds DEF Begins
<1>9. Begins(s3, d, g, QuietSteps) BY <1>6, <1>8, ExtendBegun, StepKinds
<1>10. \A i \in 1 .. Len(s2) : s2[i].op # "auth"
  <2>1. \A i \in 3 .. Len(s2) : s2[i].op # "auth" BY <1>7 DEF Begins, PlainSteps
  <2>2. s2[1].op # "auth" /\ s2[2].op # "auth" /\ Len(s2) \in Nat
    BY <1>7, <1>15 DEF Begins
  <2>3. \A i \in 1 .. Len(s2) : i = 1 \/ i = 2 \/ i \in 3 .. Len(s2) BY <2>2
  <2> QED BY <2>1, <2>2, <2>3
<1>11. ASSUME "username" \in c.has, "start_tls" \in c.has PROVE AuthSafe(s3)
  <2>1. s1 \in Seq(CalmSteps) /\ t1 \in Seq(CalmSteps) /\ t2 \in Seq(CalmSteps)
    BY <1>6, StepKinds DEF Begins
  <2>2. s2 = s1 \o t1 /\ s3 = s2 \o t2 BY <1>11 DEF If, s2
  <2>3. Len(s2) = 5 /\ s2[5] = t
    <3>1. /\ Len(s1 \o t1) = Len(s1) + Len(t1)
          /\ \A i \in 1 .. Len(s1) + Len(t1) :
                (s1 \o t1)[i] = IF i <= Len(s1) THEN s1[i] ELSE t1[i - Len(s1)]
      BY <2>1, ConcatProperties
    <3> QED BY <1>6, <2>2, <3>1
  <2>4. s2 \in Seq(CalmSteps) BY <1>7 DEF Begins
  <2>5. Len(s3) = 6 /\ \A i \in 1 .. 5 : s3[i] = s2[i]
    <3>1. /\ Len(s2 \o t2) = Len(s2) + Len(t2)
          /\ \A i \in 1 .. Len(s2) + Len(t2) :
                (s2 \o t2)[i] = IF i <= Len(s2) THEN s2[i] ELSE t2[i - Len(s2)]
      BY <2>1, <2>4, ConcatProperties
    <3>2. \A i \in 1 .. 5 : (s2 \o t2)[i] = s2[i] BY <1>6, <2>3, <3>1
    <3> HIDE DEF s3
    <3> QED BY <1>6, <2>2, <2>3, <3>1, <3>2
  <2> HIDE DEF s3
  <2>6. s3[5].op = "starttls" BY <1>4, <2>3, <2>5
  <2>7. \A i \in 1 .. 6 : s3[i].op = "auth" => i = 6 BY <1>10, <2>3, <2>5
  <2>8. AuthSafe(s3)
    <3> SUFFICES ASSUME NEW i \in 1 .. 6, s3[i].op = "auth"
                 PROVE  \E j \in 1 .. i - 1 : s3[j].op = "starttls"
      BY <2>5 DEF AuthSafe
    <3>1. 5 \in 1 .. i - 1 BY <2>7
    <3> QED BY <2>6, <3>1
  <2> QED BY <2>8
<1>12. ASSUME "username" \notin c.has PROVE AuthSafe(s3)
  <2>1. s3 = s2 \o <<>> BY <1>12 DEF If
  <2> HIDE DEF s3
  <2>2. s3 = s2 BY <1>7, <2>1 DEF Begins
  <2> QED BY <1>10, <2>2 DEF AuthSafe
<1> HIDE DEF s3
<1>13. Releases(s3)
  <2>1. Begins(s3, d, g, TidySteps) BY <1>9, StepKinds DEF Begins
  <2> QED BY <1>15, <2>1, BegunReleases
<1>14. ("username" \in c.has => "start_tls" \in c.has) => AuthSafe(s3) BY <1>11, <1>12
<1>16. s3 \in Seq(CalmSteps) /\ Len(s3) \in Nat /\ Len(s3) >= 2 BY <1>9 DEF Begins
<1>17. NoDial(s3)
  <2>1. \A i \in 3 .. Len(s3) : s3[i].op \notin DialOps BY <1>9 DEF Begins, QuietSteps
  <2>2. s3[1].op \notin DialOps /\ s3[2].op \notin DialOps
    BY <1>9, <1>15 DEF Begins, DialOps
  <2>3. \A i \in 1 .. Len(s3) : i = 1 \/ i = 2 \/ i \in 3 .. Len(s3) BY <1>16
  <2> QED BY <2>1, <2>2, <2>3 DEF NoDial
<1> QED BY <1>5, <1>13, <1>14, <1>16, <1>17

(* A configuration that was validated, or that /probe made. *)
Sound(c) ==
    /\ c.type \in CheckTypes
    /\ c.type = "smtp" /\ "username" \in c.has => "start_tls" \in c.has

(* The configurations of the checks whose runs must end (Bounded). *)
TimedConfig(c) ==
    \/ c.type \notin {"smtp", "tls", "websocket", "tcp", "icmp", "bgp", "domain_expiry"}
    \/ c.type = "tcp" /\ c.has \cap {"tls", "send"} = {}
    \/ c.type \in {"bgp", "domain_expiry"} /\ c.timeout > 0

LEMMA StepsOfSound ==
    ASSUME NEW c, Sound(c)
    PROVE  /\ RunSteps(c) \in Seq(AnySteps) /\ Len(RunSteps(c)) >= 1
           /\ AuthSafe(RunSteps(c)) /\ Releases(RunSteps(c))
           /\ c.type # "websocket" => NoDial(RunSteps(c))
           /\ TimedConfig(c) => RunSteps(c) \in Seq(UDPKinds)
           /\ ~Panicky(c) => RunSteps(c) \in Seq(CalmSteps)
<1>0. /\ TimedSteps \subseteq UDPKinds /\ UDPKinds \subseteq PlainSteps \cup {Overflowing}
      /\ PlainSteps \subseteq CalmSteps /\ CalmSteps \subseteq AnySteps
      /\ TimedSteps \subseteq PlainSteps
  BY StepKinds DEF UDPKinds
<1>1. CASE c.type = "smtp"
  <2>1. RunSteps(c) = SMTPRun(c) BY <1>1 DEF RunSteps
  <2>2. RunSteps(c) \in Seq(CalmSteps) /\ Len(RunSteps(c)) >= 1 BY <2>1, SMTPSteps
  <2>3. RunSteps(c) \in Seq(AnySteps) BY <1>0, <2>2
  <2>4. Releases(RunSteps(c)) /\ NoDial(RunSteps(c)) /\ AuthSafe(RunSteps(c))
    BY <1>1, <2>1, SMTPSteps DEF Sound
  <2> QED BY <1>1, <2>2, <2>3, <2>4 DEF TimedConfig
<1>2. CASE c.type = "websocket"
  <2>1. RunSteps(c) = WebSocketRun(c) BY <1>2 DEF RunSteps
  <2>2. /\ RunSteps(c) \in Seq(CalmSteps) /\ Len(RunSteps(c)) >= 1
        /\ Releases(RunSteps(c)) /\ AuthSafe(RunSteps(c))
    BY <2>1, WebSocketSteps
  <2>3. RunSteps(c) \in Seq(AnySteps) BY <1>0, <2>2
  <2> QED BY <1>2, <2>2, <2>3 DEF TimedConfig
<1>3. CASE c.type \in {"tcp", "tls", "icmp", "bgp", "domain_expiry"}
  <2>1. IsRun(RunSteps(c), PlainSteps) /\ (TimedConfig(c) => IsRun(RunSteps(c), TimedSteps))
    BY <1>3, TCPSteps, TLSSteps, ICMPSteps, BGPSteps, DomainExpirationSteps
       DEF RunSteps, TimedConfig
  <2>2. IsRun(RunSteps(c), PlainSteps \cup {Overflowing}) BY <2>1, WiderRun
  <2>3. TimedConfig(c) => RunSteps(c) \in Seq(UDPKinds) BY <1>0, <2>1 DEF IsRun
  <2>4. RunSteps(c) \in Seq(CalmSteps) BY <1>0, <2>1 DEF IsRun
  <2> QED BY <2>2, <2>3, <2>4, PlainRunsSafe
<1>4. CASE c.type = "udp"
  <2>1. IsRun(RunSteps(c), UDPKinds) /\ (~Panicky(c) => IsRun(RunSteps(c), TimedSteps))
    BY <1>4, UDPSteps DEF RunSteps, Panicky
  <2>2. IsRun(RunSteps(c), PlainSteps \cup {Overflowing}) BY <1>0, <2>1, WiderRun
  <2>3. RunSteps(c) \in Seq(UDPKinds) BY <2>1 DEF IsRun
  <2>4. ~Panicky(c) => RunSteps(c) \in Seq(CalmSteps) BY <1>0, <2>1 DEF IsRun
  <2> QED BY <2>2, <2>3, <2>4, PlainRunsSafe
<1>5. CASE c.type \in {"http", "ntp", "dns", "grpc", "traceroute", "playwright"}
  <2>1. IsRun(RunSteps(c), TimedSteps)
    BY <1>5, HTTPSteps, NTPSteps, DNSSteps, GRPCSteps, TracerouteSteps, PlaywrightSteps
       DEF RunSteps
  <2>2. IsRun(RunSteps(c), PlainSteps \cup {Overflowing}) BY <1>0, <2>1, WiderRun
  <2>3. RunSteps(c) \in Seq(UDPKinds) BY <1>0, <2>1 DEF IsRun
  <2>4. RunSteps(c) \in Seq(CalmSteps) BY <1>0, <2>1 DEF IsRun
  <2> QED BY <2>2, <2>3, <2>4, PlainRunsSafe
<1> QED BY <1>1, <1>2, <1>3, <1>4, <1>5 DEF Sound, CheckTypes

-----------------------------------------------------------------------------
(* The runs: a run that is under way has a sound configuration and is at   *)
(* one of its steps; one that waits to retry has a retry left.             *)

Loaded == {"ready", "running", "backoff", "returned"}

RunShape ==
    /\ status \in [Runs -> {"file", "ready", "running", "backoff"} \cup Done]
    /\ pos \in [Runs -> Nat]
    /\ result \in [Runs -> Outcomes \cup {"none"}]
    /\ attempt \in [Runs -> 0 .. Retries]
    /\ held \in [Runs -> SUBSET Resources]
    /\ deferred \in [Runs -> SUBSET Resources]
    /\ routes \in SUBSET Routes /\ answer \in [Runs -> SUBSET Routes]
    /\ DOMAIN cfg = Runs
    /\ \A r \in Runs : status[r] = "file" => cfg[r] \in CheckEntries
    /\ \A r \in Runs : status[r] \in Loaded => Sound(cfg[r])
    /\ \A r \in Runs : status[r] = "running" => pos[r] \in 1 .. Len(Steps(r))
    /\ \A r \in Runs : status[r] = "backoff" => attempt[r] < Retries

LEMMA StepTyped ==
    ASSUME RunShape, NEW r \in Runs, status[r] = "running"
    PROVE  /\ Step(r) \in AnySteps
           /\ Steps(r) \in Seq(AnySteps) /\ Len(Steps(r)) \in Nat
           /\ pos[r] \in 1 .. Len(Steps(r))
<1>1. Sound(cfg[r]) /\ pos[r] \in 1 .. Len(Steps(r)) BY DEF RunShape, Loaded
<1>2. Steps(r) \in Seq(AnySteps) BY <1>1, StepsOfSound DEF Steps
<1> QED BY <1>1, <1>2 DEF Step

LEMMA ReturnKeepsShape ==
    ASSUME RunShape, NEW r \in Runs, status[r] = "running", NEW outcome \in Outcomes,
           NEW closed, Return(r, outcome, closed), UNCHANGED <<cfg, attempt, routes>>
    PROVE  RunShape'
<1>1. TriesAgain(r, outcome) => attempt[r] < Retries BY DEF TriesAgain
<1>2. status'[r] \in {"backoff", "returned"} /\ (status'[r] = "backoff" => attempt[r] < Retries)
  BY <1>1 DEF Return, RunShape
<1>3. \A q \in Runs \ {r} : status'[q] = status[q] /\ pos'[q] = pos[q]
  BY DEF Return, RunShape
<1>4. /\ status' \in [Runs -> {"file", "ready", "running", "backoff"} \cup Done]
      /\ pos' \in [Runs -> Nat] /\ result' \in [Runs -> Outcomes \cup {"none"}]
      /\ held' \in [Runs -> SUBSET Resources] /\ deferred' \in [Runs -> SUBSET Resources]
      /\ answer' \in [Runs -> SUBSET Routes]
  BY DEF Return, RunShape, Done
<1>5. \A q \in Runs : status'[q] = "file" => cfg[q] \in CheckEntries
  BY <1>2, <1>3 DEF RunShape
<1>6. \A q \in Runs : status'[q] \in Loaded => Sound(cfg[q])
  BY <1>3 DEF RunShape, Loaded
<1>7. \A q \in Runs : status'[q] = "running" => pos'[q] \in 1 .. Len(Steps(q))
  BY <1>2, <1>3 DEF RunShape
<1>8. \A q \in Runs : status'[q] = "backoff" => attempt[q] < Retries
  BY <1>2, <1>3 DEF RunShape
<1> QED BY <1>4, <1>5, <1>6, <1>7, <1>8 DEF RunShape, Steps

LEMMA AdvanceKeepsShape ==
    ASSUME RunShape, NEW r \in Runs, status[r] = "running", Advance(r),
           UNCHANGED <<cfg, attempt, routes>>
    PROVE  RunShape'
<1>1. /\ Step(r) \in AnySteps /\ Len(Steps(r)) \in Nat /\ pos[r] \in 1 .. Len(Steps(r))
  BY StepTyped
<1>2. Step(r).gets \subseteq Resources /\ Step(r).defers \subseteq Resources
  BY <1>1 DEF AnySteps, StepRecords
<1>3. CASE pos[r] = Len(Steps(r))
  <2>1. /\ result' = [result EXCEPT ![r] = "ok"]
        /\ held' = [held EXCEPT ![r] = (@ \cup Step(r).gets) \ (deferred[r] \cup Step(r).defers)]
        /\ deferred' = [deferred EXCEPT ![r] = {}]
        /\ status' = [status EXCEPT ![r] = "returned"]
        /\ pos' = [pos EXCEPT ![r] = 0]
        /\ answer' = [answer EXCEPT ![r] = {}]
    BY <1>3 DEF Advance
  <2>2. /\ status' \in [Runs -> {"file", "ready", "running", "backoff"} \cup Done]
        /\ pos' \in [Runs -> Nat] /\ result' \in [Runs -> Outcomes \cup {"none"}]
        /\ held' \in [Runs -> SUBSET Resources] /\ deferred' \in [Runs -> SUBSET Resources]
        /\ answer' \in [Runs -> SUBSET Routes]
    BY <1>2, <2>1 DEF RunShape, Done, Outcomes
  <2>3. status'[r] = "returned" /\ \A q \in Runs \ {r} : status'[q] = status[q] /\ pos'[q] = pos[q]
    BY <2>1 DEF RunShape
  <2>4. \A q \in Runs : /\ status'[q] = "file" => cfg[q] \in CheckEntries
                        /\ status'[q] \in Loaded => Sound(cfg[q])
                        /\ status'[q] = "running" => pos'[q] \in 1 .. Len(Steps(q))
                        /\ status'[q] = "backoff" => attempt[q] < Retries
    BY <2>3 DEF RunShape, Loaded
  <2> QED BY <2>2, <2>4 DEF RunShape, Steps
<1>4. CASE pos[r] # Len(Steps(r))
  <2>1. /\ pos' = [pos EXCEPT ![r] = @ + 1]
        /\ answer' = [answer EXCEPT ![r] = CASE Step(r).op = "routing" -> routes
                                             [] Step(r).op = "observe" -> {}
                                             [] OTHER -> @]
        /\ held' = [held EXCEPT ![r] = @ \cup Step(r).gets]
        /\ deferred' = [deferred EXCEPT ![r] = @ \cup Step(r).defers]
        /\ UNCHANGED <<status, result>>
    BY <1>4 DEF Advance
  <2>2. held' \in [Runs -> SUBSET Resources] /\ deferred' \in [Runs -> SUBSET Resources]
    BY <1>2, <2>1 DEF RunShape
  <2>3. answer' \in [Runs -> SUBSET Routes] BY <2>1 DEF RunShape
  <2>4. pos' \in [Runs -> Nat] BY <2>1 DEF RunShape
  <2>5. \A q \in Runs : status[q] = "running" => pos'[q] \in 1 .. Len(Steps(q))
    BY <1>1, <1>4, <2>1 DEF RunShape
  <2> QED BY <2>1, <2>2, <2>3, <2>4, <2>5 DEF RunShape, Steps
<1> QED BY <1>3, <1>4

(* Loading: what runs is sound. *)
LEMMA LoadKeepsShape ==
    ASSUME RunShape, Load
    PROVE  RunShape'
<1>1. \A r \in Runs : status[r] = "file" BY DEF Load
<1>2. PICK chosen \in IF caller = "probe" THEN {Probed}
                        ELSE {loadFilteredChecks(cfg, filter)} \cup Named :
        /\ status' = [r \in Runs |-> IF r \in chosen THEN "ready" ELSE "skipped"]
        /\ cfg' = [r \in Runs |->
              CASE r \notin chosen -> cfg[r]
                [] r \in chosen /\ caller = "probe" -> buildCheckConfig(cfg[r].type)
                [] OTHER -> WithDefaults(cfg[r])]
  BY DEF Load
<1>3. ASSUME NEW r \in Runs, r \in chosen PROVE Sound(cfg'[r])
  <2>1. CASE caller = "probe"
    <3>1. cfg[r].type \in ProbeModules BY <1>2, <1>3, <2>1 DEF Probed
    <3>2. cfg'[r] = buildCheckConfig(cfg[r].type) BY <1>2, <1>3, <2>1
    <3>3. /\ cfg'[r].type = cfg[r].type
          /\ cfg'[r].has = IF cfg[r].type = "udp" THEN {"send"} ELSE {}
      BY <3>2 DEF buildCheckConfig, Entry
    <3> QED BY <3>1, <3>3 DEF Sound, ProbeModules, CheckTypes
  <2>2. CASE caller # "probe"
    <3>1. LoadChecks(cfg) BY <1>2, <1>3, <2>2 DEF loadFilteredChecks, Named
    <3>2. convertCheck(cfg[r]) BY <3>1 DEF LoadChecks, RunShape
    <3>3. cfg'[r] = WithDefaults(cfg[r]) BY <1>2, <1>3, <2>2
    <3>4. cfg[r] \in CheckEntries BY <1>1 DEF RunShape
    <3>5. cfg'[r].type = cfg[r].type /\ cfg'[r].has = cfg[r].has
      BY <3>3, <3>4 DEF WithDefaults, CheckEntries
    <3> QED BY <3>2, <3>5 DEF convertCheck, Sound
  <2> QED BY <2>1, <2>2
<1>4. \A r \in Runs : status'[r] \in {"ready", "skipped"} /\ (status'[r] = "ready" => r \in chosen)
  BY <1>2
<1>5. \A r \in Runs : status'[r] \in Loaded => Sound(cfg'[r]) BY <1>3, <1>4 DEF Loaded
<1>6. status' \in [Runs -> {"file", "ready", "running", "backoff"} \cup Done] BY <1>2 DEF Done
<1>7. DOMAIN cfg' = Runs BY <1>2
<1>8. UNCHANGED <<pos, result, attempt, held, deferred, routes, answer>>
  BY DEF Load, bgp
<1> QED BY <1>4, <1>5, <1>6, <1>7, <1>8 DEF RunShape

(* A step ends with an Advance, or with a Return that closes what the step *)
(* closes.                                                                 *)
Ends(r) ==
    \/ Advance(r)
    \/ \E outcome \in Outcomes : Return(r, outcome, Step(r).closes)

Moves(r) ==
    Proceeds(r) \/ Fails(r) \/ TimesOut(r) \/ Cancelled(r) \/ ObserveMoreSpecifics(r)

LEMMA StepEnds ==
    ASSUME RunShape, NEW r \in Runs, Moves(r)
    PROVE  status[r] = "running" /\ Ends(r) /\ UNCHANGED <<caller, cfg, attempt, routes>>
<1>1. status[r] = "running" /\ UNCHANGED <<caller, cfg, attempt, routes>>
  BY DEF Moves, Proceeds, Fails, TimesOut, Cancelled, ObserveMoreSpecifics, At
<1>2. Step(r) \in AnySteps BY <1>1, StepTyped
<1>3. /\ Step(r).closes \in SUBSET Resources
      /\ Step(r).bad \ {"panic"} \subseteq Outcomes
      /\ Step(r).blocks => Step(r).late \in Outcomes
  BY <1>2 DEF AnySteps, StepRecords, Outcomes
<1>4. "fail" \in Outcomes /\ (Step(r).op = "observe" => Step(r).closes = {})
  BY <1>2 DEF Outcomes, AnySteps
<1>5. CASE Proceeds(r) BY <1>1, <1>5 DEF Proceeds, Ends
<1>6. CASE Fails(r)
  <2>1. \E outcome \in Outcomes : Return(r, outcome, Step(r).closes) BY <1>3, <1>6 DEF Fails
  <2> QED BY <1>1, <2>1 DEF Ends
<1>7. CASE TimesOut(r) \/ Cancelled(r)
  <2>1. Step(r).blocks /\ Return(r, Step(r).late, Step(r).closes)
    BY <1>7 DEF TimesOut, Cancelled
  <2> QED BY <1>1, <1>3, <2>1 DEF Ends
<1>8. CASE ObserveMoreSpecifics(r)
  <2>1. Step(r).op = "observe" /\ (Advance(r) \/ Return(r, "fail", {}))
    BY <1>8 DEF ObserveMoreSpecifics, At
  <2> QED BY <1>1, <1>4, <2>1 DEF Ends
<1> QED BY <1>1, <1>5, <1>6, <1>7, <1>8 DEF Moves

LEMMA RunShapeInit == Init => RunShape
<1> SUFFICES ASSUME Init PROVE RunShape OBVIOUS
<1>1. cfg \in [Runs -> CheckEntries] BY SetupsKnown DEF Init
<1>2. /\ status = [r \in Runs |-> "file"] /\ pos = [r \in Runs |-> 0]
      /\ result = [r \in Runs |-> "none"] /\ attempt = [r \in Runs |-> 0]
      /\ held = [r \in Runs |-> {}] /\ deferred = [r \in Runs |-> {}]
      /\ routes = {} /\ answer = [r \in Runs |-> {}]
  BY DEF Init
<1>3. 0 \in 0 .. Retries BY RetriesNat
<1> QED BY <1>1, <1>2, <1>3 DEF RunShape, Loaded

LEMMA RunShapeStep == RunShape /\ [Next]_vars => RunShape'
<1> SUFFICES ASSUME RunShape, [Next]_vars PROVE RunShape' OBVIOUS
<1>1. CASE Load BY <1>1, LoadKeepsShape
<1>2. ASSUME NEW r \in Runs, Moves(r) PROVE RunShape'
  <2>1. status[r] = "running" /\ Ends(r) /\ UNCHANGED <<cfg, attempt, routes>>
    BY <1>2, StepEnds
  <2> QED BY <2>1, ReturnKeepsShape, AdvanceKeepsShape DEF Ends
<1>3. ASSUME NEW r \in Runs, Start(r) PROVE RunShape'
  <2>1. /\ status[r] = "ready" /\ status' = [status EXCEPT ![r] = "running"]
        /\ pos' = [pos EXCEPT ![r] = 1]
        /\ UNCHANGED <<cfg, result, held, deferred, attempt, routes, answer>>
    BY <1>3 DEF Start, bgp
  <2>2. Sound(cfg[r]) BY <2>1 DEF RunShape, Loaded
  <2>3. Len(Steps(r)) \in Nat /\ Len(Steps(r)) >= 1 BY <2>2, StepsOfSound DEF Steps
  <2>4. status' \in [Runs -> {"file", "ready", "running", "backoff"} \cup Done]
        /\ pos' \in [Runs -> Nat]
    BY <2>1 DEF RunShape
  <2>5. \A q \in Runs : /\ status'[q] = "file" => cfg[q] \in CheckEntries
                        /\ status'[q] \in Loaded => Sound(cfg[q])
                        /\ status'[q] = "running" => pos'[q] \in 1 .. Len(Steps(q))
                        /\ status'[q] = "backoff" => attempt[q] < Retries
    BY <2>1, <2>2, <2>3 DEF RunShape
  <2> QED BY <2>1, <2>4, <2>5 DEF RunShape, Steps
<1>4. ASSUME NEW r \in Runs, Panics(r) PROVE RunShape'
  <2>1. /\ status' = [q \in Runs |-> "panicked"] /\ held' = [q \in Runs |-> {}]
        /\ UNCHANGED <<cfg, pos, result, deferred, attempt, routes, answer>>
    BY <1>4 DEF Panics, bgp
  <2> QED BY <2>1 DEF RunShape, Done, Loaded
<1>5. ASSUME NEW r \in Runs, Retry(r) PROVE RunShape'
  <2>1. status[r] = "backoff" /\ attempt[r] < Retries /\ Sound(cfg[r])
    BY <1>5 DEF Retry, RunShape, Loaded
  <2>2. Len(Steps(r)) \in Nat /\ Len(Steps(r)) >= 1 BY <2>1, StepsOfSound DEF Steps
  <2>3. UNCHANGED <<cfg, result, held, deferred, routes, answer>> BY <1>5 DEF Retry, bgp
  <2>4. CASE status' = [status EXCEPT ![r] = "returned"] /\ UNCHANGED <<pos, attempt>>
    BY <2>1, <2>3, <2>4 DEF RunShape, Done, Loaded, Steps
  <2>5. CASE /\ status' = [status EXCEPT ![r] = "running"] /\ pos' = [pos EXCEPT ![r] = 1]
             /\ attempt' = [attempt EXCEPT ![r] = @ + 1]
    <3>1. /\ status' = [status EXCEPT ![r] = "running"] /\ pos' = [pos EXCEPT ![r] = 1]
          /\ attempt' = [attempt EXCEPT ![r] = @ + 1]
      BY <2>5
    <3>2. attempt' \in [Runs -> 0 .. Retries] BY <2>1, <3>1, RetriesNat DEF RunShape
    <3>3. status' \in [Runs -> {"file", "ready", "running", "backoff"} \cup Done]
          /\ pos' \in [Runs -> Nat]
      BY <3>1 DEF RunShape
    <3>4. \A q \in Runs : /\ status'[q] = "file" => cfg[q] \in CheckEntries
                          /\ status'[q] \in Loaded => Sound(cfg[q])
                          /\ status'[q] = "running" => pos'[q] \in 1 .. Len(Steps(q))
                          /\ status'[q] = "backoff" => attempt'[q] < Retries
      BY <2>1, <2>2, <3>1 DEF RunShape
    <3> QED BY <2>3, <3>2, <3>3, <3>4 DEF RunShape, Steps
  <2> QED BY <1>5, <2>4, <2>5 DEF Retry
<1>6. CASE RouteChanges
  <2>1. UNCHANGED <<cfg, status, pos, result, held, deferred, attempt, answer>>
    BY <1>6 DEF RouteChanges, runState
  <2>2. routes' \in SUBSET Routes BY <1>6 DEF RouteChanges, RunShape
  <2> QED BY <2>1, <2>2 DEF RunShape, Steps
<1>7. ASSUME NEW r \in Runs, RunsAgain(r) PROVE RunShape'
  <2>1. /\ status[r] = "returned" /\ status' = [status EXCEPT ![r] = "ready"]
        /\ result' = [result EXCEPT ![r] = "none"] /\ attempt' = [attempt EXCEPT ![r] = 0]
        /\ UNCHANGED <<cfg, pos, held, deferred, routes, answer>>
    BY <1>7 DEF RunsAgain
  <2>2. attempt' \in [Runs -> 0 .. Retries] BY <2>1, RetriesNat DEF RunShape
  <2>3. status' \in [Runs -> {"file", "ready", "running", "backoff"} \cup Done]
        /\ result' \in [Runs -> Outcomes \cup {"none"}]
    BY <2>1 DEF RunShape
  <2>4. \A q \in Runs : /\ status'[q] = "file" => cfg[q] \in CheckEntries
                        /\ status'[q] \in Loaded => Sound(cfg[q])
                        /\ status'[q] = "running" => pos[q] \in 1 .. Len(Steps(q))
                        /\ status'[q] = "backoff" => attempt'[q] < Retries
    BY <2>1 DEF RunShape, Loaded
  <2> QED BY <2>1, <2>2, <2>3, <2>4 DEF RunShape, Steps
<1>8. CASE UNCHANGED <<cfg, runState, attempt, routes, answer>>
  BY <1>8 DEF runState, RunShape, Steps
<1>9. \/ Load \/ RouteChanges
      \/ \E r \in Runs : Moves(r) \/ Start(r) \/ Panics(r) \/ Retry(r) \/ RunsAgain(r)
      \/ UNCHANGED <<cfg, runState, attempt, routes, answer>>
  BY DEF Next, Moves, ContextEnds, Idle, DialMoves, DialTimesOut, vars, bgp
<1> QED BY <1>1, <1>2, <1>3, <1>4, <1>5, <1>6, <1>7, <1>8, <1>9

LEMMA RunShapeInvariant == Spec => []RunShape
BY RunShapeInit, RunShapeStep, PTL DEF Spec

-----------------------------------------------------------------------------

(* A run that reaches AUTH has negotiated STARTTLS: validation refuses     *)
(* credentials without start_tls (checks.go 484-724), /probe passes none   *)
(* (blackbox.go 121-197), and nothing else reaches a checker (smtp.go      *)
(* 72-97).                                                                 *)
THEOREM AuthInvariant == Spec => []AuthOverTLS
<1>1. RunShape => AuthOverTLS
  <2> SUFFICES ASSUME RunShape, NEW r \in Runs, At(r, "auth")
               PROVE  \E i \in 1 .. pos[r] - 1 : Steps(r)[i].op = "starttls"
    BY DEF AuthOverTLS
  <2>1. status[r] = "running" /\ Steps(r)[pos[r]].op = "auth" BY DEF At, Step
  <2>2. Sound(cfg[r]) /\ pos[r] \in 1 .. Len(Steps(r)) BY <2>1 DEF RunShape, Loaded
  <2>3. AuthSafe(Steps(r)) BY <2>2, StepsOfSound DEF Steps
  <2> QED BY <2>1, <2>2, <2>3 DEF AuthSafe
<1> QED BY <1>1, RunShapeInvariant, PTL

-----------------------------------------------------------------------------
(* What a run holds is covered by its deferred calls, or by what the step  *)
(* it is at closes when it fails; a run that is not under way holds        *)
(* nothing.                                                                *)
Covered ==
    \A r \in Runs : /\ status[r] = "running" => held[r] \subseteq deferred[r] \cup Step(r).closes
                    /\ status[r] # "running" => held[r] = {}

LEMMA RunReleases ==
    ASSUME RunShape, NEW r \in Runs, status[r] = "running"
    PROVE  /\ pos[r] \in 1 .. Len(Steps(r)) /\ Len(Steps(r)) \in Nat
           /\ Step(r).closes \subseteq Step(r).defers
           /\ pos[r] = Len(Steps(r)) => Step(r).gets \subseteq Step(r).defers
           /\ pos[r] # Len(Steps(r)) =>
                 Step(r).gets \subseteq Step(r).defers \cup Steps(r)[pos[r] + 1].closes
<1>1. Sound(cfg[r]) /\ pos[r] \in 1 .. Len(Steps(r)) BY DEF RunShape, Loaded
<1>2. Releases(Steps(r)) BY <1>1, StepsOfSound DEF Steps
<1>3. Len(Steps(r)) \in Nat BY StepTyped
<1> QED BY <1>1, <1>2, <1>3 DEF Releases, Step

LEMMA MoveKeepsCovered ==
    ASSUME RunShape, Covered, NEW r \in Runs, Moves(r)
    PROVE  Covered'
<1>1. status[r] = "running" /\ Ends(r) /\ UNCHANGED cfg BY StepEnds
<1>2. held[r] \subseteq deferred[r] \cup Step(r).closes BY <1>1 DEF Covered
<1>3. ASSUME \A q \in Runs \ {r} : /\ status'[q] = status[q] /\ held'[q] = held[q]
                                  /\ deferred'[q] = deferred[q] /\ pos'[q] = pos[q],
             status'[r] = "running" => held'[r] \subseteq deferred'[r] \cup Step(r)'.closes,
             status'[r] # "running" => held'[r] = {}
      PROVE  Covered'
  <2>1. \A q \in Runs \ {r} : Step(q)' = Step(q) BY <1>1, <1>3 DEF Step, Steps
  <2> QED BY <1>3, <2>1 DEF Covered
<1>4. ASSUME NEW outcome \in Outcomes, Return(r, outcome, Step(r).closes) PROVE Covered'
  <2>1. status'[r] # "running" BY <1>4 DEF Return, RunShape
  <2>2. held'[r] = held[r] \ (deferred[r] \cup Step(r).closes) BY <1>4 DEF Return, RunShape
  <2>3. \A q \in Runs \ {r} : /\ status'[q] = status[q] /\ held'[q] = held[q]
                             /\ deferred'[q] = deferred[q] /\ pos'[q] = pos[q]
    BY <1>4 DEF Return, RunShape
  <2>4. held'[r] = {} BY <1>2, <2>2
  <2> QED BY <1>3, <2>1, <2>3, <2>4
<1>5. CASE Advance(r) /\ pos[r] = Len(Steps(r))
  <2>1. Step(r).closes \subseteq Step(r).defers /\ Step(r).gets \subseteq Step(r).defers
    BY <1>1, <1>5, RunReleases
  <2>2. /\ status'[r] = "returned"
        /\ held'[r] = (held[r] \cup Step(r).gets) \ (deferred[r] \cup Step(r).defers)
    BY <1>5 DEF Advance, RunShape
  <2>3. \A q \in Runs \ {r} : /\ status'[q] = status[q] /\ held'[q] = held[q]
                             /\ deferred'[q] = deferred[q] /\ pos'[q] = pos[q]
    BY <1>5 DEF Advance, RunShape
  <2>4. held'[r] = {} BY <1>2, <2>1, <2>2
  <2> QED BY <1>3, <2>2, <2>3, <2>4
<1>6. CASE Advance(r) /\ pos[r] # Len(Steps(r))
  <2>1. /\ Step(r).closes \subseteq Step(r).defers
        /\ Step(r).gets \subseteq Step(r).defers \cup Steps(r)[pos[r] + 1].closes
    BY <1>1, <1>6, RunReleases
  <2>2. /\ status' = status /\ held'[r] = held[r] \cup Step(r).gets
        /\ deferred'[r] = deferred[r] \cup Step(r).defers /\ pos'[r] = pos[r] + 1
    BY <1>6 DEF Advance, RunShape
  <2>3. \A q \in Runs \ {r} : /\ status'[q] = status[q] /\ held'[q] = held[q]
                             /\ deferred'[q] = deferred[q] /\ pos'[q] = pos[q]
    BY <1>6 DEF Advance, RunShape
  <2>4. Step(r)' = Steps(r)[pos[r] + 1] BY <1>1, <2>2 DEF Step, Steps
  <2>5. held'[r] \subseteq deferred'[r] \cup Step(r)'.closes BY <1>2, <2>1, <2>2, <2>4
  <2> QED BY <1>1, <1>3, <2>2, <2>3, <2>5
<1> QED BY <1>1, <1>4, <1>5, <1>6 DEF Ends

(* A dial that is left behind is that of a WebSocket check whose context   *)
(* has ended.                                                              *)
DialsLeft ==
    \A d \in Dials : dialing[d] # "no" => /\ ctxDone /\ cfg[d[1]].type = "websocket"
                                          /\ status[d[1]] # "file"

LEMMA DialsLeftStep == RunShape /\ DialsLeft /\ [Next]_vars => DialsLeft'
<1> SUFFICES ASSUME RunShape, DialsLeft, [Next]_vars PROVE DialsLeft' OBVIOUS
<1>0. \A d \in Dials : d[1] \in Runs /\ d = <<d[1], d[2]>> BY DEF Dials
<1>1. ASSUME NEW r \in Runs, Cancelled(r) PROVE DialsLeft'
  <2>1. /\ status[r] = "running" /\ ctxDone /\ ctxDone' /\ cfg' = cfg
        /\ Return(r, Step(r).late, Step(r).closes)
        /\ dialing' = IF Step(r).op \in {"connect", "upgrade"}
                        THEN [dialing EXCEPT ![<<r, attempt[r]>>] = Step(r).op] ELSE dialing
    BY <1>1 DEF Cancelled
  <2>2. Sound(cfg[r]) /\ pos[r] \in 1 .. Len(Steps(r)) BY <2>1 DEF RunShape, Loaded
  <2>3. Step(r).op \in {"connect", "upgrade"} => cfg[r].type = "websocket"
    BY <2>2, StepsOfSound DEF Steps, Step, NoDial, DialOps
  <2>4. \A q \in Runs : status[q] # "file" => status'[q] # "file"
    BY <2>1 DEF Return, RunShape
  <2>5. ASSUME NEW d \in Dials, dialing'[d] # "no"
        PROVE  cfg[d[1]].type = "websocket" /\ status'[d[1]] # "file"
    <3>1. CASE d = <<r, attempt[r]>> /\ Step(r).op \in {"connect", "upgrade"}
      BY <2>1, <2>3, <2>4, <3>1
    <3>2. CASE ~(d = <<r, attempt[r]>> /\ Step(r).op \in {"connect", "upgrade"})
      <4>1. dialing'[d] = dialing[d]
        <5>1. CASE Step(r).op \in {"connect", "upgrade"} BY <2>1, <3>2, <5>1
        <5>2. CASE Step(r).op \notin {"connect", "upgrade"} BY <2>1, <5>2
        <5> QED BY <5>1, <5>2
      <4> QED BY <1>0, <2>4, <2>5, <4>1 DEF DialsLeft
    <3> QED BY <3>1, <3>2
  <2> QED BY <2>1, <2>5 DEF DialsLeft
<1>2. ASSUME NEW d \in Dials, DialMoves(d) \/ DialTimesOut(d) PROVE DialsLeft'
  <2>1. dialing[d] # "no" /\ UNCHANGED <<ctxDone, cfg, status>>
    BY <1>2 DEF DialMoves, DialTimesOut, runState
  <2>2. PICK stage : dialing' = [dialing EXCEPT ![d] = stage]
    BY <1>2 DEF DialMoves, DialTimesOut
  <2>3. \A e \in Dials : e # d => dialing'[e] = dialing[e] BY <2>2
  <2> QED BY <2>1, <2>3 DEF DialsLeft
<1>3. ASSUME NEW r \in Runs, Panics(r) PROVE DialsLeft' BY <1>3 DEF Panics, DialsLeft
<1>4. CASE Load
  <2>1. UNCHANGED dialing /\ \A q \in Runs : status[q] = "file" BY <1>4 DEF Load
  <2>2. \A d \in Dials : dialing[d] = "no" BY <1>0, <2>1 DEF DialsLeft
  <2> QED BY <2>1, <2>2 DEF DialsLeft
<1>5. ASSUME UNCHANGED <<cfg, dialing>>, ctxDone => ctxDone',
             \A q \in Runs : status[q] # "file" => status'[q] # "file"
      PROVE  DialsLeft'
  BY <1>0, <1>5 DEF DialsLeft
<1>6. ASSUME NEW r \in Runs,
             \/ Start(r) \/ Retry(r) \/ RunsAgain(r) \/ Proceeds(r) \/ Fails(r) \/ TimesOut(r)
             \/ ObserveMoreSpecifics(r)
      PROVE  DialsLeft'
  <2>1. UNCHANGED <<cfg, dialing, ctxDone>>
    BY <1>6 DEF Start, Retry, RunsAgain, Proceeds, Fails, TimesOut, ObserveMoreSpecifics
  <2>2. \A q \in Runs : status[q] # "file" => status'[q] # "file"
    <3>1. CASE Start(r) \/ Retry(r) \/ RunsAgain(r)
      BY <3>1 DEF Start, Retry, RunsAgain, RunShape
    <3>2. CASE Moves(r)
      <4>1. Ends(r) BY <3>2, StepEnds
      <4> QED BY <4>1 DEF Ends, Advance, Return, RunShape
    <3> QED BY <1>6, <3>1, <3>2 DEF Moves
  <2> QED BY <1>5, <2>1, <2>2
<1>7. CASE ContextEnds \/ RouteChanges \/ Idle \/ UNCHANGED vars
  <2>1. UNCHANGED <<cfg, dialing, status>> /\ (ctxDone => ctxDone')
    BY <1>7 DEF ContextEnds, RouteChanges, Idle, vars, runState
  <2> QED BY <1>5, <2>1
<1> QED BY <1>1, <1>2, <1>3, <1>4, <1>6, <1>7 DEF Next

(* Every way out of Run, in every checker, gives back what the run         *)
(* acquired, between attempts as after the last one: by deferred calls, or *)
(* by hand where the connection is not deferred yet (smtp.go 53).  Nothing *)
(* stays behind but the dial of a WebSocket check that was waiting for it  *)
(* when the context ended (websocket.go 76-86).                            *)
THEOREM ReleaseInvariant == Spec => []ReleasedOnReturn
<1>1. Init => Covered BY DEF Init, Covered
<1>2. RunShape /\ Covered /\ [Next]_vars => Covered'
  <2> SUFFICES ASSUME RunShape, Covered, [Next]_vars PROVE Covered' OBVIOUS
  <2>1. ASSUME NEW r \in Runs, Moves(r) PROVE Covered' BY <2>1, MoveKeepsCovered
  <2>2. ASSUME NEW r \in Runs, Panics(r) PROVE Covered' BY <2>2 DEF Panics, Covered
  <2>3. CASE Load
    <3>1. \A q \in Runs : status[q] = "file" BY <2>3 DEF Load
    <3>2. held' = held /\ \A q \in Runs : status'[q] \in {"ready", "skipped"}
      BY <2>3 DEF Load
    <3> QED BY <3>1, <3>2 DEF Covered
  <2>4. ASSUME NEW r \in Runs, Start(r) \/ Retry(r) \/ RunsAgain(r) PROVE Covered'
    <3>1. status[r] # "running" /\ UNCHANGED <<cfg, held, deferred>>
      BY <2>4 DEF Start, Retry, RunsAgain
    <3>2. \A q \in Runs \ {r} : status'[q] = status[q] /\ pos'[q] = pos[q]
      BY <2>4 DEF Start, Retry, RunsAgain, RunShape
    <3>3. \A q \in Runs \ {r} : Step(q)' = Step(q) BY <3>1, <3>2 DEF Step, Steps
    <3>4. held'[r] = {} BY <3>1 DEF Covered
    <3> QED BY <3>1, <3>2, <3>3, <3>4 DEF Covered
  <2>5. CASE UNCHANGED <<cfg, runState>> BY <2>5 DEF runState, Covered, Step, Steps
  <2>6. \/ Load
        \/ \E r \in Runs : Moves(r) \/ Panics(r) \/ Start(r) \/ Retry(r) \/ RunsAgain(r)
        \/ UNCHANGED <<cfg, runState>>
    BY DEF Next, Moves, ContextEnds, RouteChanges, Idle, DialMoves, DialTimesOut, vars
  <2> QED BY <2>1, <2>2, <2>3, <2>4, <2>5, <2>6
<1>3. Init => DialsLeft BY DEF Init, DialsLeft
<1>4. Covered /\ DialsLeft => ReleasedOnReturn BY DEF Covered, DialsLeft, ReleasedOnReturn
<1> QED BY <1>1, <1>2, <1>3, <1>4, DialsLeftStep, RunShapeInvariant, PTL DEF Spec

-----------------------------------------------------------------------------

(* Whatever a run of a Bounded check waits for, a timer of the check ends  *)
(* the wait: the step is none that only the peer or the context can end.   *)
(* It is the half of BoundedRunsEnd that does not depend on fairness.      *)
WaitsTimed ==
    \A r \in Runs : status[r] = "running" /\ Bounded(r) /\ Step(r).blocks
                      => "timeout" \in Step(r).ends

(* Every wait of a Bounded run has a timer: the dialers' timeouts, the     *)
(* deadlines of ntp.go 79-83 and udp.go 77-81, and the WithTimeout of      *)
(* http.go 123, dns.go 64, grpc.go 79 and their like.                      *)
THEOREM WaitsTimedInvariant == Spec => []WaitsTimed
<1>1. RunShape => WaitsTimed
  <2> SUFFICES ASSUME RunShape, NEW r \in Runs, status[r] = "running", Bounded(r), Step(r).blocks
               PROVE  "timeout" \in Step(r).ends
    BY DEF WaitsTimed
  <2>1. Sound(cfg[r]) /\ pos[r] \in 1 .. Len(Steps(r)) BY DEF RunShape, Loaded
  <2>2. TimedConfig(cfg[r]) BY DEF Bounded, TimedConfig
  <2>3. Steps(r) \in Seq(UDPKinds) BY <2>1, <2>2, StepsOfSound DEF Steps
  <2>4. Step(r) \in UDPKinds BY <2>1, <2>3 DEF Step
  <2>5. ~Overflowing.blocks BY OverflowingStep
  <2> QED BY <2>4, <2>5 DEF UDPKinds, TimedSteps
<1> QED BY <1>1, RunShapeInvariant, PTL

(* Only a UDP check whose max_response_bytes is negative or beyond what    *)
(* can be allocated ends the process (udp.go 110-114): no other            *)
(* configuration of any checker that loading accepts or /probe builds      *)
(* does, if the default of 4096 bytes can be allocated.                    *)
THEOREM PanicInvariant == Spec => []PanicsFromBadSize
<1>1. Init => PanicsFromBadSize BY DEF Init, PanicsFromBadSize
<1>2. RunShape /\ PanicsFromBadSize /\ [Next]_vars => PanicsFromBadSize'
  <2> SUFFICES ASSUME RunShape, PanicsFromBadSize, [Next]_vars
               PROVE  PanicsFromBadSize'
    OBVIOUS
  <2>1. ASSUME NEW r \in Runs, Panics(r) PROVE PanicsFromBadSize'
    <3>1. status[r] = "running" /\ "panic" \in Step(r).bad /\ cfg' = cfg
      BY <2>1 DEF Panics
    <3>2. Sound(cfg[r]) /\ pos[r] \in 1 .. Len(Steps(r)) BY <3>1 DEF RunShape, Loaded
    <3>3. ~Panicky(cfg[r]) => Steps(r) \in Seq(CalmSteps) BY <3>2, StepsOfSound DEF Steps
    <3>4. ~Panicky(cfg[r]) => Step(r) \in CalmSteps BY <3>2, <3>3 DEF Step
    <3>5. Panicky(cfg[r]) BY <3>1, <3>4 DEF CalmSteps
    <3> QED BY <3>1, <3>5 DEF PanicsFromBadSize, Panicky
  <2>2. CASE Load
    <3>1. \A q \in Runs : status'[q] \in {"ready", "skipped"} BY <2>2 DEF Load
    <3> QED BY <3>1 DEF PanicsFromBadSize
  <2>3. ASSUME cfg' = cfg, \A q \in Runs : status'[q] = "panicked" => status[q] = "panicked"
        PROVE  PanicsFromBadSize'
    BY <2>3 DEF PanicsFromBadSize
  <2>4. ASSUME NEW r \in Runs, Moves(r) PROVE PanicsFromBadSize'
    <3>1. Ends(r) /\ cfg' = cfg BY <2>4, StepEnds
    <3>2. \A q \in Runs : status'[q] = "panicked" => status[q] = "panicked"
      BY <3>1 DEF Ends, Advance, Return, RunShape
    <3> QED BY <2>3, <3>1, <3>2
  <2>5. ASSUME NEW r \in Runs, Start(r) \/ Retry(r) \/ RunsAgain(r)
        PROVE  PanicsFromBadSize'
    <3>1. /\ cfg' = cfg
          /\ \A q \in Runs : status'[q] = "panicked" => status[q] = "panicked"
      BY <2>5 DEF Start, Retry, RunsAgain, RunShape
    <3> QED BY <2>3, <3>1
  <2>6. CASE UNCHANGED <<cfg, runState>> BY <2>3, <2>6 DEF runState
  <2>7. \/ Load
        \/ \E r \in Runs : Moves(r) \/ Panics(r) \/ Start(r) \/ Retry(r) \/ RunsAgain(r)
        \/ UNCHANGED <<cfg, runState>>
    BY DEF Next, Moves, ContextEnds, RouteChanges, Idle, DialMoves, DialTimesOut, vars
  <2> QED BY <2>1, <2>2, <2>4, <2>5, <2>6, <2>7
<1> QED BY <1>1, <1>2, RunShapeInvariant, PTL DEF Spec

-----------------------------------------------------------------------------

(* The variables that are not about the runs. *)
SharedTypes ==
    /\ caller \in {"worker", "probe", "check", "validate"}
    /\ ctxDone \in BOOLEAN
    /\ dialing \in [Dials -> {"no", "connect", "upgrade", "open"}]
    /\ known \in SUBSET Routes /\ baseline \in SUBSET Routes
    /\ alarmed \in SUBSET Routes
    /\ observed \in BOOLEAN
    /\ surprise \in [Runs -> BOOLEAN]

LEMMA SharedTypesStep == RunShape /\ SharedTypes /\ [Next]_vars => SharedTypes'
<1> SUFFICES ASSUME RunShape, SharedTypes, [Next]_vars PROVE SharedTypes' OBVIOUS
<1> USE DEF SharedTypes
<1>1. ASSUME NEW r \in Runs, ObserveMoreSpecifics(r) PROVE SharedTypes'
  <2>1. answer[r] \subseteq Routes /\ Rogue(r) \subseteq Routes BY DEF RunShape, Rogue
  <2>2. UNCHANGED <<caller, ctxDone, dialing>> BY <1>1 DEF ObserveMoreSpecifics
  <2>3. /\ known' \in SUBSET Routes /\ baseline' \in SUBSET Routes /\ alarmed' \in SUBSET Routes
        /\ observed' \in BOOLEAN
    BY <1>1, <2>1 DEF ObserveMoreSpecifics
  <2>4. surprise' \in [Runs -> BOOLEAN] BY <1>1 DEF ObserveMoreSpecifics
  <2> QED BY <2>2, <2>3, <2>4
<1>2. ASSUME NEW r \in Runs, RunsAgain(r) PROVE SharedTypes' BY <1>2 DEF RunsAgain
<1>3. CASE ContextEnds BY <1>3 DEF ContextEnds, bgp, memory
<1>4. ASSUME \/ \E r \in Runs : Cancelled(r) \/ Panics(r)
             \/ \E d \in Dials : DialMoves(d) \/ DialTimesOut(d)
      PROVE  SharedTypes'
  <2>1. UNCHANGED <<caller, ctxDone, known, baseline, alarmed, observed, surprise>>
    BY <1>4 DEF Cancelled, Panics, DialMoves, DialTimesOut, bgp, memory
  <2>2. dialing' \in [Dials -> {"no", "connect", "upgrade", "open"}]
    BY <1>4 DEF Cancelled, Panics, DialMoves, DialTimesOut
  <2> QED BY <2>1, <2>2
<1>5. CASE UNCHANGED <<caller, ctxDone, dialing, memory>> BY <1>5 DEF memory
<1>6. \/ \E r \in Runs : \/ ObserveMoreSpecifics(r) \/ RunsAgain(r) \/ Cancelled(r)
                         \/ Panics(r)
      \/ \E d \in Dials : DialMoves(d) \/ DialTimesOut(d)
      \/ ContextEnds
      \/ UNCHANGED <<caller, ctxDone, dialing, memory>>
  BY DEF Next, Load, RouteChanges, Idle, Start, Proceeds, Fails, TimesOut, Retry, vars, bgp
<1> QED BY <1>1, <1>2, <1>3, <1>4, <1>5, <1>6

(* Type correctness; in particular no run makes more than Retries retries  *)
(* (scheduler.go 201-237), whatever ends its attempts.                     *)
THEOREM TypeCorrect == Spec => []TypeOK
<1>1. Init => SharedTypes
  <2> SUFFICES ASSUME Init PROVE SharedTypes OBVIOUS
  <2>1. caller \in {"worker", "probe", "check", "validate"} BY SetupsKnown DEF Init
  <2>2. dialing \in [Dials -> {"no", "connect", "upgrade", "open"}] /\ surprise \in [Runs -> BOOLEAN]
    BY DEF Init
  <2> QED BY <2>1, <2>2 DEF Init, SharedTypes
<1>2. RunShape /\ SharedTypes => TypeOK BY DEF RunShape, SharedTypes, TypeOK, Resources
<1> QED BY <1>1, <1>2, SharedTypesStep, RunShapeInvariant, PTL DEF Spec

-----------------------------------------------------------------------------
(* A run that has met a new more-specific and still succeeds has made a    *)
(* retry: an attempt by itself never lets one pass, whatever other runs    *)
(* observe in between (bgp.go 82-102, scheduler.go 201-237).               *)
SurpriseNeedsRetry ==
    \A r \in Runs :
        status[r] = "returned" /\ result[r] = "ok" /\ surprise[r] => attempt[r] > 0

(* A run that has met a new more-specific has failed an attempt since; it  *)
(* is done, waits to retry, or has retried.                                *)
SurpriseFails ==
    \A r \in Runs :
        surprise[r] => \/ attempt[r] > 0
                       \/ status[r] = "panicked"
                       \/ status[r] \in {"returned", "backoff"} /\ result[r] = "fail"

LEMMA SurpriseFailsStep == RunShape /\ TypeOK /\ SurpriseFails /\ [Next]_vars => SurpriseFails'
<1> SUFFICES ASSUME RunShape, TypeOK, SurpriseFails, [Next]_vars PROVE SurpriseFails'
  OBVIOUS
<1>1. ASSUME NEW r \in Runs, ObserveMoreSpecifics(r) PROVE SurpriseFails'
  <2> DEFINE new == IF observed THEN answer[r] \ known ELSE {}
  <2>1. /\ status[r] = "running" /\ attempt' = attempt
        /\ surprise' = [surprise EXCEPT ![r] = @ \/ new # {}]
        /\ IF Rogue(r) \cup new # {} THEN Return(r, "fail", {}) ELSE Advance(r)
    BY <1>1 DEF ObserveMoreSpecifics, At
  <2> HIDE DEF new
  <2>2. \A q \in Runs \ {r} : /\ status'[q] = status[q] /\ result'[q] = result[q]
                             /\ surprise'[q] = surprise[q]
    BY <2>1 DEF Return, Advance, RunShape, TypeOK
  <2>3. CASE new # {}
    <3>1. Return(r, "fail", {}) BY <2>1, <2>3
    <3>2. status'[r] \in {"returned", "backoff"} /\ result'[r] = "fail"
      BY <3>1 DEF Return, RunShape
    <3> QED BY <2>1, <2>2, <3>2 DEF SurpriseFails
  <2>4. CASE new = {}
    <3>1. surprise'[r] = surprise[r] BY <2>1, <2>4 DEF TypeOK
    <3>2. surprise[r] => attempt[r] > 0 BY <2>1 DEF SurpriseFails
    <3> QED BY <2>1, <2>2, <3>1, <3>2 DEF SurpriseFails
  <2> QED BY <2>3, <2>4
<1>2. ASSUME NEW r \in Runs, Proceeds(r) \/ Fails(r) \/ TimesOut(r) \/ Cancelled(r)
      PROVE  SurpriseFails'
  <2>1. status[r] = "running" /\ Ends(r) /\ attempt' = attempt
    BY <1>2, StepEnds DEF Moves
  <2>2. surprise' = surprise
    BY <1>2 DEF Proceeds, Fails, TimesOut, Cancelled, memory
  <2>3. \A q \in Runs \ {r} : status'[q] = status[q] /\ result'[q] = result[q]
    BY <2>1 DEF Ends, Return, Advance, RunShape
  <2>4. surprise[r] => attempt[r] > 0 BY <2>1 DEF SurpriseFails
  <2> QED BY <2>1, <2>2, <2>3, <2>4 DEF SurpriseFails
<1>3. ASSUME NEW r \in Runs, Panics(r) PROVE SurpriseFails'
  BY <1>3 DEF Panics, SurpriseFails
<1>4. ASSUME NEW r \in Runs, Start(r) PROVE SurpriseFails'
  BY <1>4 DEF Start, bgp, memory, SurpriseFails, RunShape
<1>5. ASSUME NEW r \in Runs, Retry(r) PROVE SurpriseFails'
  <2>1. status[r] = "backoff" /\ UNCHANGED <<result, surprise>>
    BY <1>5 DEF Retry, bgp, memory
  <2>2. CASE status' = [status EXCEPT ![r] = "returned"] /\ attempt' = attempt
    BY <2>1, <2>2 DEF SurpriseFails, RunShape
  <2>3. CASE status' = [status EXCEPT ![r] = "running"]
             /\ attempt' = [attempt EXCEPT ![r] = @ + 1]
    <3>1. attempt[r] \in Nat BY RetriesNat DEF RunShape
    <3>2. attempt'[r] > 0 BY <2>3, <3>1 DEF RunShape
    <3>3. \A q \in Runs \ {r} : status'[q] = status[q] /\ attempt'[q] = attempt[q]
      BY <2>3 DEF RunShape
    <3> QED BY <2>1, <3>2, <3>3 DEF SurpriseFails
  <2> QED BY <1>5, <2>2, <2>3 DEF Retry
<1>6. ASSUME NEW r \in Runs, RunsAgain(r) PROVE SurpriseFails'
  <2>1. ~surprise'[r] BY <1>6 DEF RunsAgain, TypeOK
  <2>2. \A q \in Runs \ {r} : /\ status'[q] = status[q] /\ result'[q] = result[q]
                             /\ attempt'[q] = attempt[q] /\ surprise'[q] = surprise[q]
    BY <1>6 DEF RunsAgain, RunShape, TypeOK
  <2> QED BY <2>1, <2>2 DEF SurpriseFails
<1>7. CASE Load
  <2>1. UNCHANGED <<attempt, surprise>> /\ \A q \in Runs : status[q] = "file"
    BY <1>7 DEF Load, bgp, memory
  <2> QED BY <2>1 DEF SurpriseFails
<1>8. CASE UNCHANGED <<runState, attempt, surprise>>
  BY <1>8 DEF runState, SurpriseFails
<1>9. \/ Load
      \/ \E r \in Runs : \/ ObserveMoreSpecifics(r) \/ Proceeds(r) \/ Fails(r) \/ TimesOut(r)
                         \/ Cancelled(r) \/ Panics(r) \/ Start(r) \/ Retry(r) \/ RunsAgain(r)
      \/ UNCHANGED <<runState, attempt, surprise>>
  BY DEF Next, ContextEnds, RouteChanges, Idle, DialMoves, DialTimesOut, vars, bgp, memory
<1> QED BY <1>1, <1>2, <1>3, <1>4, <1>5, <1>6, <1>7, <1>8, <1>9

(* An attempt that meets a new more-specific fails, so that only a retry   *)
(* can turn its run into a success (bgp.go 82-102, scheduler.go 201-237).  *)
THEOREM SurpriseInvariant == Spec => []SurpriseNeedsRetry
<1>1. Init => SurpriseFails BY DEF Init, SurpriseFails
<1>2. SurpriseFails => SurpriseNeedsRetry BY DEF SurpriseFails, SurpriseNeedsRetry
<1> QED BY <1>1, <1>2, SurpriseFailsStep, RunShapeInvariant, TypeCorrect, PTL DEF Spec

(* The retries are therefore all that separates the code from what         *)
(* docs/alerting.md says of the BGP checker: without them a run that meets *)
(* a new more-specific never ends in success.                              *)
THEOREM NewRouteFailsWithoutRetries == Retries = 0 /\ Spec => []NewRouteFailsCheck
<1>1. Retries = 0 /\ RunShape /\ SurpriseNeedsRetry => NewRouteFailsCheck
  <2> SUFFICES ASSUME Retries = 0, RunShape, SurpriseNeedsRetry, NEW r \in Runs,
                      status[r] = "returned", result[r] = "ok"
               PROVE  ~surprise[r]
    BY DEF NewRouteFailsCheck
  <2>1. attempt[r] \in 0 .. 0 BY DEF RunShape
  <2> QED BY <2>1 DEF SurpriseNeedsRetry
<1>2. Retries = 0 => [](Retries = 0)
  <2>1. Retries = 0 => (Retries = 0)' OBVIOUS
  <2> QED BY <2>1, PTL
<1> QED BY <1>1, <1>2, SurpriseInvariant, RunShapeInvariant, PTL
=============================================================================
