------------------------------ MODULE MCFilter ------------------------------
(***************************************************************************)
(* Instances of Filter: 16 addresses in a family, two networks and two     *)
(* hosts of them, packets of each kind that a chain tells apart, and       *)
(* stored states that combine policies, levels, bans, sets and rule lists. *)
(***************************************************************************)
EXTENDS FilterProps, TLC

MCTop == 16

Net(v6, lo, size) == [v6 |-> v6, lo |-> lo, size |-> size]
MCNets == {Net(v6, b[1], b[2]) : v6 \in BOOLEAN, b \in {<<1, 1>>, <<2, 1>>, <<0, 4>>, <<8, 4>>}}
MCIfaces == "lo" :> {"lo"} @@ "eth0" :> {"eth0"} @@ "eth+" :> {"eth0", "eth1"}

-----------------------------------------------------------------------------
P0 == [dir |-> "in", v6 |-> FALSE, iif |-> "eth0", oif |-> "", proto |-> "tcp", icmp |-> 0,
       src |-> 1, dst |-> 9, sport |-> 1000, dport |-> 22, ct |-> "new", hl |-> 64,
       rh0 |-> FALSE, cast |-> "local", group |-> "", link |-> FALSE, over |-> FALSE, calm |-> TRUE]

Toward(d, v6) ==
    CASE d = "in"     -> [P0 EXCEPT !.v6 = v6]
      [] d = "out"    -> [P0 EXCEPT !.v6 = v6, !.dir = d, !.iif = "", !.oif = "eth0", !.cast = "other"]
      [] d = "routed" -> [P0 EXCEPT !.v6 = v6, !.dir = d, !.oif = "eth1", !.cast = "other"]

Plain == {Toward(d, v6) : d \in Directions, v6 \in BOOLEAN}

Icmp(p, type) == [p EXCEPT !.proto = IF p.v6 THEN "icmpv6" ELSE "icmp", !.icmp = type,
                           !.sport = 0, !.dport = 0]

MCPackets ==
    Plain
    \cup {[p EXCEPT !.src = 2] : p \in Plain}
    \cup {[p EXCEPT !.dport = 80] : p \in Plain}
    \cup {[p EXCEPT !.proto = "udp", !.src = 6] : p \in Plain}
    \cup {[p EXCEPT !.ct = "established"] : p \in Plain}
    \cup {[p EXCEPT !.ct = "invalid", !.dport = 80, !.calm = p.v6] : p \in Plain}
    \cup {[p EXCEPT !.over = TRUE] : p \in {q \in Plain : q.dir = "in"}}
    \cup {[p EXCEPT !.iif = "lo", !.ct = "invalid"] : p \in {q \in Plain : q.dir = "in"}}
    \cup {[p EXCEPT !.oif = "lo"] : p \in {q \in Plain : q.dir = "out"}}
    \cup {[p EXCEPT !.rh0 = TRUE, !.ct = "related"] : p \in {q \in Plain : q.v6}}
    \cup {Icmp(p, IF p.v6 THEN 128 ELSE 8) : p \in Plain}
    \cup {[Icmp(p, IF p.v6 THEN 129 ELSE 0) EXCEPT !.ct = "invalid"] : p \in Plain}
    \cup {[Icmp(p, 135) EXCEPT !.hl = n] : p \in {q \in Plain : q.v6}, n \in {64, 255}}
    \cup {[Icmp(p, 130) EXCEPT !.link = TRUE] : p \in {q \in Plain : q.v6}}
    \cup {Icmp(Toward("in", TRUE), 144)}
    \cup {[P0 EXCEPT !.cast = c, !.proto = "udp", !.dport = n, !.calm = FALSE] :
             c \in {"other", "broadcast"}, n \in {137, 80}}
    \cup {[P0 EXCEPT !.proto = "udp", !.sport = 67, !.dport = 68],
          [Toward("in", TRUE) EXCEPT !.proto = "udp", !.sport = 547, !.dport = 546, !.link = TRUE],
          [P0 EXCEPT !.cast = "multicast", !.group = "mdns", !.proto = "udp", !.dport = 5353],
          [P0 EXCEPT !.proto = "esp", !.dport = 0, !.sport = 0]}

-----------------------------------------------------------------------------
AnyEnd == [net |-> NoNet, ports |-> {}, set |-> NoSet]
From(net) == [AnyEnd EXCEPT !.net = net]
Ports(lo, hi, proto) == [AnyEnd EXCEPT !.ports = {[lo |-> lo, hi |-> hi, proto |-> proto]}]

R0 == [action |-> "allow", dir |-> "in", iif |-> AnyIface, oif |-> AnyIface, proto |-> "any",
       icmp |-> AnyType, src |-> AnyEnd, dst |-> AnyEnd, log |-> "", disabled |-> FALSE,
       expired |-> FALSE, dapp |-> "", sapp |-> ""]

Tcp(lo, hi) == [R0 EXCEPT !.proto = "tcp", !.dst = Ports(lo, hi, "tcp")]
Both(port) == [R0 EXCEPT !.dst = Ports(port, port, "any")]

\* Lists of rules of a family: each pits rules against one another.
Lists(v6) ==
    { <<>>,
      \* a host before its network before everyone
      << [Tcp(22, 22) EXCEPT !.action = "deny", !.src = From(Net(v6, 1, 1)), !.log = "log"],
         [Tcp(22, 80) EXCEPT !.src = From(Net(v6, 0, 4)), !.log = "log-all"],
         [Both(22) EXCEPT !.action = "reject", !.log = "log"] >>,
      \* a limit, and what it leaves
      << [Tcp(22, 22) EXCEPT !.action = "limit", !.iif = "eth+", !.log = "log"],
         [R0 EXCEPT !.action = "deny", !.iif = "eth0"],
         Tcp(22, 22) >>,
      \* rules that are not in force, a set, and the other directions
      << [Tcp(22, 22) EXCEPT !.disabled = TRUE],
         [R0 EXCEPT !.action = "deny", !.expired = TRUE],
         Tcp(80, 80),
         [R0 EXCEPT !.src = [AnyEnd EXCEPT !.set = "lan"], !.action = "reject"],
         [Tcp(22, 22) EXCEPT !.dir = "routed", !.oif = "eth+"],
         [Both(22) EXCEPT !.dir = "out", !.action = "limit", !.log = "log-all"] >>,
      \* wider rules after narrower ones, and before
      << [Tcp(22, 22) EXCEPT !.src = From(Net(v6, 0, 4))],
         [Tcp(22, 22) EXCEPT !.src = From(Net(v6, 1, 1)), !.action = "deny"],
         [Both(22) EXCEPT !.action = "reject"],
         [R0 EXCEPT !.proto = "udp", !.dst = Ports(22, 22, "udp")],
         [R0 EXCEPT !.proto = IF v6 THEN "icmpv6" ELSE "icmp", !.icmp = IF v6 THEN 135 ELSE 0],
         [R0 EXCEPT !.action = "deny"],
         [R0 EXCEPT !.proto = "esp"] >> }

S0 == [panic |-> FALSE, policies |-> [in |-> "deny", out |-> "allow", routed |-> "deny"],
       etc |-> [in |-> "deny", out |-> "allow", routed |-> "deny"], ipv6 |-> TRUE, etcIPv6 |-> "yes",
       logging |-> "low", rules4 |-> <<>>, rules6 |-> <<>>, bans |-> {},
       sets |-> ("lan" :> {Net(FALSE, 0, 4), Net(FALSE, 1, 1), Net(TRUE, 2, 1)})]

WithRules(v) == {[S0 EXCEPT !.rules4 = l, !.rules6 = m] :
                    l \in IF v = 6 THEN {<<>>} ELSE Lists(FALSE),
                    m \in IF v = 4 THEN {<<>>} ELSE Lists(TRUE)}

\* "bfw default" writes a policy to both files.
Policed(s) ==
    {[s EXCEPT !.policies = [d \in Directions |-> p], !.etc = [d \in Directions |-> p]] :
        p \in {"allow", "deny", "reject"}}

MCStates ==
    UNION {Policed(s) : s \in WithRules(4) \cup WithRules(6)}
    \cup {[s EXCEPT !.logging = l] : s \in WithRules(4), l \in Levels}
    \cup {[s EXCEPT !.bans = {Net(FALSE, 1, 1), Net(TRUE, 0, 4), Net(TRUE, 1, 1)}] : s \in WithRules(6)}
    \cup {[S0 EXCEPT !.panic = TRUE, !.bans = {Net(FALSE, 8, 4)}],
          [S0 EXCEPT !.etcIPv6 = "no"],
          \* an import that stored other policies, and a word in /etc/default that is none
          [S0 EXCEPT !.ipv6 = FALSE, !.policies = [d \in Directions |-> "allow"]],
          [S0 EXCEPT !.etc = [@ EXCEPT !["in"] = Unset], !.policies = [@ EXCEPT !["in"] = "allow"]],
          [S0 EXCEPT !.etc = [d \in Directions |-> "reject"], !.logging = "medium"]}

\* The states here are among those that the theorems are about.
ASSUME SetsApart
ASSUME PortsFit
ASSUME SetsAlone
=============================================================================
