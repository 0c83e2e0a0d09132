------------------------------- MODULE Compile -------------------------------
(***************************************************************************)
(* The table that better-firewall compiles a stored state to: chains of    *)
(* rules, each with what it matches and what it does then.  What a rule    *)
(* matches is a set of packets, so that the expressions of a rule, which   *)
(* must all hold, are sets that are intersected.                           *)
(***************************************************************************)
EXTENDS Addresses

CONSTANTS
    Packets,  \* packets as they reach a hook; the fields are those used below
    Ifaces    \* the interfaces that the name of an interface in a rule stands for

Directions == {"in", "out", "routed"}
Levels == {"off", "low", "medium", "high", "full"}
NoSet == ""
AnyIface == ""
AnyType == -1
NoNet == [v6 |-> FALSE, lo |-> 0, size |-> 0]  \* the address "any"

\* What the commands store of a rule, as far as compile looks at it.
Endpoints == [net : Nets \cup {NoNet}, set : STRING,
              ports : SUBSET [lo : Nat, hi : Nat, proto : {"any", "tcp", "udp"}]]
Rules == [action : {"allow", "deny", "reject", "limit"}, dir : Directions,
          iif : {AnyIface} \cup DOMAIN Ifaces, oif : {AnyIface} \cup DOMAIN Ifaces,
          proto : STRING, icmp : {AnyType} \cup Nat, src : Endpoints, dst : Endpoints,
          log : {"", "log", "log-all"}, disabled : BOOLEAN, expired : BOOLEAN,
          dapp : STRING, sapp : STRING]

RulesOf(s) == ToSet(s.rules4) \cup ToSet(s.rules6)

-----------------------------------------------------------------------------
\* Chains are named by their part and their direction.
Chains ==
    ({"base", "before-logging", "before", "user", "after", "after-logging",
      "user-logging", "reject", "track", "skip-to-policy"} \X Directions)
    \cup ({"not-local", "logging-deny", "user-limit", "user-limit-accept", "user-egress"}
          \X {"any"})

(* What a rule does once it matches.                                       *)

Rule(S, do) == [on |-> S, do |-> do, to |-> <<>>]
Accept(S) == Rule(S, "accept")
Drop(S)   == Rule(S, "drop")
Reject(S) == Rule(S, "reject")
Return(S) == Rule(S, "return")
Log(S)    == Rule(S, "log")
Jump(S, chain) == [on |-> S, do |-> "jump", to |-> chain]

(* Expressions. *)

Nfproto(v6) == {p \in Packets : p.v6 = v6}
L4proto(proto) == {p \in Packets : p.proto = proto}
Iif(name) == {p \in Packets : p.iif \in Ifaces[name]}
Oif(name) == {p \in Packets : p.oif \in Ifaces[name]}
CtState(states) == {p \in Packets : p.ct \in states}
IcmpType(proto, types) == {p \in Packets : p.proto = proto /\ p.icmp \in types}
HopLimit(n) == {p \in Packets : p.hl = n}
FibAddrType(t) == {p \in Packets : p.cast = t}
PortEq(proto, which, n) == {p \in Packets : p.proto = proto /\ p[which] = n}

\* What remains after the limit of 3 messages a minute.
Limit3 == {p \in Packets : p.calm}

\* An address of the other family matches nothing, and "any" everything.
AddrMatch(which, net, v6) ==
    IF net = NoNet THEN Packets
    ELSE IF net.v6 # v6 THEN {}
    ELSE {p \in Packets : p.v6 = v6 /\ p[which] \in Block(net)}

SetMatch(which, ivs, v6) == {p \in Packets : p.v6 = v6 /\ InSet(p[which], ivs)}

-----------------------------------------------------------------------------
(* What the policies and IPV6 of /etc/default/better-firewall make of the  *)
(* stored ones: they replace them, unless they are words that compile does *)
(* not know ("unset").  Panic goes before both.                            *)

Unset == "unset"

Policy(st, d) ==
    IF st.panic THEN "deny"
    ELSE IF st.etc[d] # Unset THEN st.etc[d] ELSE st.policies[d]

IPv6On(st) == IF st.etcIPv6 # Unset THEN st.etcIPv6 = "yes" ELSE st.ipv6

\* The policy of the base chain of a direction, after all of its rules.
ChainPolicy(st, d) == IF Policy(st, d) = "allow" THEN "accept" ELSE "drop"

PolicyVerdict(st, d) ==
    CASE Policy(st, d) = "allow"  -> Accept(Packets)
      [] Policy(st, d) = "reject" -> Reject(Packets)
      [] OTHER                    -> Drop(Packets)

\* The loopback interface, on the side a direction has one.
Loopback(d) == CASE d = "in"  -> Iif("lo")
                 [] d = "out" -> Oif("lo")
                 [] OTHER     -> {}

Base(st, d) ==
    IF st.panic THEN <<>>
    ELSE (IF IPv6On(st) THEN <<>>
          ELSE <<Accept(Nfproto(TRUE) \cap Loopback(d)), Drop(Nfproto(TRUE))>>)
         \o <<Jump(Packets, <<"before-logging", d>>), Jump(Packets, <<"before", d>>),
              Jump(Packets, <<"user", d>>), Jump(Packets, <<"after", d>>),
              Jump(Packets, <<"after-logging", d>>), Jump(Packets, <<"reject", d>>),
              Jump(Packets, <<"track", d>>)>>

-----------------------------------------------------------------------------
(* The before chains: bans, what conntrack knows, what no host can do      *)
(* without, and what is not for this host.                                 *)

\* The bans that have not run out, by the source address.
BanRules(st) ==
    LET family(v6) == Drop(SetMatch("src", Elements(st.bans, v6), v6))
    IN <<family(FALSE), family(TRUE)>>

Icmp4 == Nfproto(FALSE) \cap IcmpType("icmp", {3, 11, 12, 8})

\* ICMPv6, by what RFC 4890 asks of a type: nothing, that it comes from this
\* link and has crossed no router, or that it comes from a link-local address.
LinkLocal == {p \in Packets : p.link}

Icmp6(d) ==
    LET always == {1, 2, 3, 4, 128} \cup (IF d = "in" THEN {} ELSE {129})
        near   == {133, 134, 135, 136, 141, 142, 148, 149}
    IN Nfproto(TRUE) \cap
        (IF d = "routed" THEN IcmpType("icmpv6", always)
         ELSE IcmpType("icmpv6", always)
              \cup (IcmpType("icmpv6", near) \cap HopLimit(255))
              \cup (IcmpType("icmpv6", {130, 131, 132, 143}) \cap LinkLocal)
              \cup (IcmpType("icmpv6", {151, 152, 153}) \cap LinkLocal \cap HopLimit(1)))

\* Ping replies to a multicast address and mobile IPv6, on input.
PingReply6 == Nfproto(TRUE) \cap IcmpType("icmpv6", {129})
MobileIp6 == Nfproto(TRUE) \cap IcmpType("icmpv6", {144, 145, 146, 147})

DhcpAnswer ==
    Nfproto(FALSE) \cap PortEq("udp", "sport", 67) \cap PortEq("udp", "dport", 68)
DhcpAnswer6 ==
    Nfproto(TRUE) \cap LinkLocal
        \cap PortEq("udp", "sport", 547) \cap PortEq("udp", "dport", 546)

\* mDNS and UPnP, to their groups.
Discovery ==
    {p \in PortEq("udp", "dport", 5353) : p.group = "mdns"}
    \cup {p \in PortEq("udp", "dport", 1900) : p.group = "upnp"}

RoutingHeader0 == Nfproto(TRUE) \cap {p \in Packets : p.rh0}

\* Mutant of Before that bans only those who open a connection.
BeforeBansLast(st, d) ==
    (IF d = "routed" THEN <<>> ELSE <<Accept(Loopback(d))>>)
    \o <<Drop(RoutingHeader0), Accept(CtState({"established", "related"}))>>
    \o (IF d = "out" THEN <<>> ELSE BanRules(st))
    \o (IF d # "in" THEN <<>>
        ELSE <<Accept(PingReply6),
               Jump(CtState({"invalid"}), <<"logging-deny", "any">>),
               Drop(CtState({"invalid"}))>>)
    \o (IF d = "out" THEN <<>> ELSE <<Accept(Icmp4)>>)
    \o <<Accept(Icmp6(d))>>
    \o (IF d # "in" THEN <<>>
        ELSE <<Accept(MobileIp6), Accept(DhcpAnswer), Accept(DhcpAnswer6),
               Jump(Nfproto(FALSE), <<"not-local", "any">>), Accept(Discovery)>>)
    \o (IF d = "out" THEN <<Jump(Packets, <<"user-egress", "any">>)>> ELSE <<>>)

Before(st, d) ==
    (IF d = "routed" THEN <<>> ELSE <<Accept(Loopback(d))>>)
    \o <<Drop(RoutingHeader0)>>
    \o (IF d = "out" THEN <<>> ELSE BanRules(st))
    \o <<Accept(CtState({"established", "related"}))>>
    \o (IF d # "in" THEN <<>>
        ELSE <<Accept(PingReply6),
               Jump(CtState({"invalid"}), <<"logging-deny", "any">>),
               Drop(CtState({"invalid"}))>>)
    \o (IF d = "out" THEN <<>> ELSE <<Accept(Icmp4)>>)
    \o <<Accept(Icmp6(d))>>
    \o (IF d # "in" THEN <<>>
        ELSE <<Accept(MobileIp6), Accept(DhcpAnswer), Accept(DhcpAnswer6),
               Jump(Nfproto(FALSE), <<"not-local", "any">>), Accept(Discovery)>>)
    \o (IF d = "out" THEN <<Jump(Packets, <<"user-egress", "any">>)>> ELSE <<>>)

NotLocal ==
    <<Return(FibAddrType("local")), Return(FibAddrType("multicast")),
      Return(FibAddrType("broadcast")),
      Jump(Limit3, <<"logging-deny", "any">>), Drop(Packets)>>

\* The noise that takes the policy without a line in the log.
After(d) ==
    IF d # "in" THEN <<>>
    ELSE LET quiet(S) == Jump(S, <<"skip-to-policy", d>>)
             to(v6, proto, ports) ==
               Nfproto(v6) \cap UNION {PortEq(proto, "dport", n) : n \in ports}
         IN <<quiet(Nfproto(FALSE) \cap FibAddrType("broadcast")),
              quiet(to(FALSE, "udp", {137, 138})),
              quiet(to(FALSE, "tcp", {139, 445})),
              quiet(DhcpAnswer \cup to(TRUE, "udp", {546, 547}))>>

RejectChain(st, d) == IF Policy(st, d) = "reject" THEN <<Reject(Packets)>> ELSE <<>>

TrackChain(st, d) ==
    IF Policy(st, d) = "allow"
    THEN <<Accept(L4proto("tcp") \cap CtState({"new"})),
           Accept(L4proto("udp") \cap CtState({"new"}))>>
    ELSE <<>>

-----------------------------------------------------------------------------
(* The chains that log, by level.                                          *)

\* The limit that the levels "high" and "full" do without.
LogLimit(st) == IF st.logging \in {"high", "full"} THEN Packets ELSE Limit3

AfterLogging(st, d) ==
    IF \/ st.logging = "off"
       \/ st.logging = "low" /\ Policy(st, d) = "allow"
    THEN <<>> ELSE <<Log(LogLimit(st))>>

LoggingDeny(st) ==
    CASE st.logging = "off" -> <<>>
      [] st.logging = "low" -> <<Return(CtState({"invalid"}) \cap Limit3), Log(Limit3)>>
      [] OTHER -> <<Log(CtState({"invalid"}) \cap LogLimit(st)), Log(LogLimit(st))>>

BeforeLogging(st) ==
    CASE st.logging = "medium" -> <<Log(CtState({"new"}) \cap Limit3)>>
      [] st.logging = "high"   -> <<Log(Limit3)>>
      [] st.logging = "full"   -> <<Log(Packets)>>
      [] OTHER                 -> <<>>

UserLimit(st) ==
    (IF st.logging = "off" THEN <<>> ELSE <<Log(Limit3)>>) \o <<Reject(Packets)>>

-----------------------------------------------------------------------------
(* User rules.                                                             *)

\* The protocols that the ports of a rule call for.
PortProtos(ports) ==
    UNION {IF q.proto \in {"tcp", "udp"} THEN {q.proto} ELSE {"tcp", "udp"} : q \in ports}

\* The passes a rule is compiled in, one for each protocol.
ProtoVariants(r) ==
    IF r.proto # "any" THEN <<r.proto>>
    ELSE LET protos == PortProtos(r.src.ports \cup r.dst.ports) IN
         IF protos = {} THEN <<"any">>
         ELSE (IF "tcp" \in protos THEN <<"tcp">> ELSE <<>>)
              \o (IF "udp" \in protos THEN <<"udp">> ELSE <<>>)

EndpointAddr(st, a, which, v6) ==
    IF a.set # NoSet THEN SetMatch(which, Elements(st.sets[a.set], v6), v6)
    ELSE AddrMatch(which, a.net, v6)

\* The ranges of one protocol; without any, every port.
PortExprs(ports, which, proto) ==
    LET mine == {q \in ports : q.proto \in {"any", proto}} IN
    IF mine = {} THEN Packets
    ELSE {p \in Packets : \E q \in mine : p[which] \in q.lo .. q.hi}

\* Mutant of RuleMatch without the guard of the family.
RuleMatchAnyFamily(st, r, proto, v6) ==
    (IF r.iif = AnyIface THEN Packets ELSE Iif(r.iif))
    \cap (IF r.oif = AnyIface THEN Packets ELSE Oif(r.oif))
    \cap (IF proto = "any" THEN Packets ELSE L4proto(proto))
    \cap (IF r.icmp = AnyType THEN Packets ELSE IcmpType(proto, {r.icmp}))
    \cap EndpointAddr(st, r.src, "src", v6)
    \cap EndpointAddr(st, r.dst, "dst", v6)
    \cap (IF proto \notin {"tcp", "udp"} THEN Packets
          ELSE PortExprs(r.src.ports, "sport", proto)
               \cap PortExprs(r.dst.ports, "dport", proto))

RuleMatch(st, r, proto, v6) ==
    Nfproto(v6)
    \cap (IF r.iif = AnyIface THEN Packets ELSE Iif(r.iif))
    \cap (IF r.oif = AnyIface THEN Packets ELSE Oif(r.oif))
    \cap (IF proto = "any" THEN Packets ELSE L4proto(proto))
    \cap (IF r.icmp = AnyType THEN Packets ELSE IcmpType(proto, {r.icmp}))
    \cap EndpointAddr(st, r.src, "src", v6)
    \cap EndpointAddr(st, r.dst, "dst", v6)
    \cap (IF proto \notin {"tcp", "udp"} THEN Packets
          ELSE PortExprs(r.src.ports, "sport", proto)
               \cap PortExprs(r.dst.ports, "dport", proto))

\* What a rule logs: the packets it matches, or those that open a flow.
Logged(r, match) ==
    CASE r.log = ""    -> {}
      [] r.log = "log" -> match \cap CtState({"new"})
      [] OTHER         -> match

\* The limit of 6 a minute from one source to one port, beyond which new
\* packets are rejected, and then every packet is accepted.
CompileLimit(match) ==
    <<Jump(match \cap CtState({"new"}) \cap {p \in Packets : p.over}, <<"user-limit", "any">>),
      Jump(match, <<"user-limit-accept", "any">>)>>

RuleVerdict(r, match) ==
    CASE r.action = "allow"  -> <<Accept(match)>>
      [] r.action = "deny"   -> <<Drop(match)>>
      [] r.action = "reject" -> <<Reject(match)>>
      [] r.action = "limit"  -> CompileLimit(match)

\* A rule's part of the user chain of its direction, and of the logging chain.
Active(r) == ~r.disabled /\ ~r.expired

CompileRule(st, r, v6) ==
    FlattenSeq([i \in DOMAIN ProtoVariants(r) |->
        LET match == RuleMatch(st, r, ProtoVariants(r)[i], v6) IN
        (IF r.log = "" THEN <<>> ELSE <<Jump(match, <<"user-logging", r.dir>>)>>)
        \o RuleVerdict(r, match)])

CompileRuleLog(st, r, v6) ==
    IF r.log = "" THEN <<>>
    ELSE FlattenSeq([i \in DOMAIN ProtoVariants(r) |->
             LET logged == Logged(r, RuleMatch(st, r, ProtoVariants(r)[i], v6)) IN
             <<Log(logged \cap Limit3), Return(logged)>>])

\* The rules of a direction with their families, in the order they are compiled:
\* the IPv4 list before the IPv6 one.
OfRules(st, d) ==
    LET part(rules, v6) ==
          FlattenSeq([i \in DOMAIN rules |->
              IF Active(rules[i]) /\ rules[i].dir = d
              THEN <<[rule |-> rules[i], v6 |-> v6]>> ELSE <<>>])
    IN part(st.rules4, FALSE) \o part(st.rules6, TRUE)

User(st, d) ==
    FlattenSeq([i \in DOMAIN OfRules(st, d) |->
        CompileRule(st, OfRules(st, d)[i].rule, OfRules(st, d)[i].v6)])

\* Logging "off" returns before the rules' own logs.
UserLogging(st, d) ==
    (IF st.logging = "off" THEN <<Return(Packets)>> ELSE <<>>)
    \o FlattenSeq([i \in DOMAIN OfRules(st, d) |->
           CompileRuleLog(st, OfRules(st, d)[i].rule, OfRules(st, d)[i].v6)])

-----------------------------------------------------------------------------
\* The rules of a chain.
Chain(st, name) ==
    LET d == name[2] IN
    CASE name[1] = "base"           -> Base(st, d)
      [] name[1] = "before-logging" -> BeforeLogging(st)
      [] name[1] = "before"         -> Before(st, d)
      [] name[1] = "user"           -> User(st, d)
      [] name[1] = "after"          -> After(d)
      [] name[1] = "after-logging"  -> AfterLogging(st, d)
      [] name[1] = "reject"         -> RejectChain(st, d)
      [] name[1] = "track"          -> TrackChain(st, d)
      [] name[1] = "skip-to-policy" -> <<PolicyVerdict(st, d)>>
      [] name[1] = "user-logging"   -> UserLogging(st, d)
      [] name[1] = "logging-deny"   -> LoggingDeny(st)
      [] name[1] = "not-local"      -> NotLocal
      [] name[1] = "user-limit"     -> UserLimit(st)
      [] name[1] = "user-limit-accept" -> <<Accept(Packets)>>
      [] name[1] = "user-egress"    -> <<>>
=============================================================================
