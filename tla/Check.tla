-------------------------------- MODULE Check --------------------------------
(***************************************************************************)
(* What "bfw check" warns of: rules that an earlier rule leaves nothing    *)
(* to, and a policy under which no rule lets ssh in.                       *)
(***************************************************************************)
EXTENDS Compile

\* A port range of protocol "any" covers one of tcp or udp.
PortProtoCovers(pa, pb) == pa = pb \/ (pb = "any" /\ pa \in {"tcp", "udp", "any"})

(* Whether endpoint b covers what endpoint a matches. *)
AddrSuperset(a, b) ==
    IF b.set # NoSet \/ a.set # NoSet THEN a.set = b.set
    ELSE /\ b.net # NoNet => a.net # NoNet /\ PrefixContains(a.net, b.net)
         /\ b.ports # {} =>
              /\ a.ports # {}
              /\ \A pa \in a.ports : \E pb \in b.ports :
                     /\ PortProtoCovers(pa.proto, pb.proto)
                     /\ pb.lo <= pa.lo /\ pa.hi <= pb.hi

(* Whether rule b, when it comes first, leaves nothing to rule a. *)
RuleSuperset(a, b) ==
    /\ a.dir = b.dir
    /\ b.iif \in {AnyIface, a.iif}
    /\ b.oif \in {AnyIface, a.oif}
    /\ b.proto \in {"any", a.proto}
    /\ b.icmp \in {AnyType, a.icmp}
    /\ b.dapp \in {"", a.dapp}
    /\ b.sapp \in {"", a.sapp}
    /\ AddrSuperset(a.src, b.src) /\ AddrSuperset(a.dst, b.dst)

\* Mutant of ShadowedBy that takes a rule that has run out for one in force.
ShadowedByExpired(rules, j, i) ==
    /\ i < j
    /\ ~rules[j].disabled /\ ~rules[i].disabled
    /\ RuleSuperset(rules[j], rules[i])

\* The warnings "rule j shadowed by rule i", for the list of one family.
ShadowedBy(rules, j, i) ==
    /\ i < j
    /\ ~rules[j].disabled /\ Active(rules[i])
    /\ RuleSuperset(rules[j], rules[i])

Shadowed(rules, j) == \E i \in DOMAIN rules : ShadowedBy(rules, j, i)

-----------------------------------------------------------------------------
SshPort == 22

\* An active rule that lets in new connections to port 22, of anyone at all.
SshAllowsPort(r) ==
    /\ Active(r)
    /\ r.action \in {"allow", "limit"}
    /\ r.dir = "in"
    /\ r.proto \in {"tcp", "any"}
    /\ r.dst.ports # {} =>
         \E q \in r.dst.ports : q.proto \in {"tcp", "any"} /\ SshPort \in q.lo .. q.hi

\* Mutant of LockoutRisk that looks at one family.
LockoutRiskV4(s) ==
    /\ s.policies["in"] \in {"deny", "reject"} \/ s.panic
    /\ ~\E r \in ToSet(s.rules4) : SshAllowsPort(r)

\* The warning "ssh lockout risk", which looks at the stored policy.
LockoutRisk(s) ==
    /\ s.policies["in"] \in {"deny", "reject"} \/ s.panic
    /\ ~\E r \in ToSet(s.rules4 \o s.rules6) : SshAllowsPort(r)
=============================================================================
