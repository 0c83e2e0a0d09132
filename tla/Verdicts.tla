------------------------------ MODULE Verdicts ------------------------------
(***************************************************************************)
(* The verdict that a state calls for: the one of the first user rule of a *)
(* packet's family and direction that matches it, or of the policy, unless *)
(* it is one of the packets on which users have no say.  Nothing here      *)
(* depends on how chains are laid out, nor on logging.                     *)
(***************************************************************************)
EXTENDS Compile

-----------------------------------------------------------------------------
(* Which packets a rule is about. *)

InEndpoint(s, a, addr, v6) ==
    IF a.set # NoSet THEN \E n \in s.sets[a.set] : n.v6 = v6 /\ addr \in Block(n)
    ELSE a.net # NoNet => a.net.v6 = v6 /\ addr \in Block(a.net)

InPorts(ports, port, proto) ==
    ports # {} => \E q \in ports : q.proto \in {"any", proto} /\ port \in q.lo .. q.hi

Matches(s, r, v6, p) ==
    /\ ~r.disabled /\ ~r.expired
    /\ p.v6 = v6 /\ p.dir = r.dir
    /\ r.iif = AnyIface \/ p.iif \in Ifaces[r.iif]
    /\ r.oif = AnyIface \/ p.oif \in Ifaces[r.oif]
    /\ r.proto \in {"any", p.proto}
    /\ r.icmp \in {AnyType, p.icmp}
    /\ InEndpoint(s, r.src, p.src, v6) /\ InEndpoint(s, r.dst, p.dst, v6)
    /\ InPorts(r.src.ports, p.sport, p.proto) /\ InPorts(r.dst.ports, p.dport, p.proto)
    /\ r.src.ports \cup r.dst.ports # {} => p.proto \in {"tcp", "udp"}

RulesFor(s, p) == IF p.v6 THEN s.rules6 ELSE s.rules4

\* The first rule that matches, which decides; 0 when there is none.
FirstMatch(s, p) ==
    SelectInSeq(RulesFor(s, p), LAMBDA r : Matches(s, r, p.v6, p))

RuleDecides(r, p) ==
    CASE r.action = "allow"  -> "accept"
      [] r.action = "deny"   -> "drop"
      [] r.action = "reject" -> "reject"
      [] r.action = "limit"  -> IF p.ct = "new" /\ p.over THEN "reject" ELSE "accept"

PolicyDecides(s, p) ==
    CASE Policy(s, p.dir) = "allow"  -> "accept"
      [] Policy(s, p.dir) = "reject" -> "reject"
      [] OTHER                       -> "drop"

Banned(s, p) == \E n \in s.bans : n.v6 = p.v6 /\ p.src \in Block(n)

\* What no rule can let in, not even into a connection that is open.
Forbidden(s, p) ==
    \/ p.v6 /\ (~IPv6On(s) \/ p.rh0)
    \/ p.dir # "out" /\ Banned(s, p)

Open(p) == p.ct \in {"established", "related"} \/ (p.dir = "in" /\ p \in PingReply6)

\* What no rule can keep out, since the network would not work.
Needed(p) ==
    \/ p \in Icmp6(p.dir)
    \/ p.dir # "out" /\ p \in Icmp4
    \/ p.dir = "in" /\ p \in MobileIp6 \cup DhcpAnswer \cup DhcpAnswer6

Elsewhere(p) == p.dir = "in" /\ ~p.v6 /\ p.cast = "other"

\* The first of these that applies to a packet.
Judge(s, p) ==
    IF s.panic THEN "drop"
    ELSE IF p \in Loopback(p.dir) THEN "accept"
    ELSE IF Forbidden(s, p) THEN "drop"
    ELSE IF Open(p) THEN "accept"
    ELSE IF p.dir = "in" /\ p.ct = "invalid" THEN "drop"
    ELSE IF Needed(p) THEN "accept"
    ELSE IF Elsewhere(p) THEN "drop"
    ELSE IF p.dir = "in" /\ p \in Discovery THEN "accept"
    ELSE IF FirstMatch(s, p) # 0 THEN RuleDecides(RulesFor(s, p)[FirstMatch(s, p)], p)
    ELSE PolicyDecides(s, p)

=============================================================================
