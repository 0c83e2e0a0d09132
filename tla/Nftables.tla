------------------------------ MODULE Nftables ------------------------------
(***************************************************************************)
(* The import of what nft -j list ruleset wrote.  A ruleset is a set of    *)
(* chains and a sequence of rules, each bound to a chain; "odd" says that  *)
(* it has an object that nothing is made of (a named set, a map, a quota). *)
(* Counters and comments are left out: they decide nothing.                *)
(***************************************************************************)
EXTENDS Merge

Hooks == [input |-> "in", output |-> "out", forward |-> "routed"]
HookOf(d) == CHOOSE h \in DOMAIN Hooks : Hooks[h] = d

Bases == [family : Texts, table : Texts, name : Texts, type : Texts, hook : Texts, policy : Texts]
\* An address is of its payload's family, and only tcp and udp have ports.
Exprs ==
    {e \in [op : Texts, word : Texts, side : {"src", "dst"}, v6 : BOOLEAN, net : Nets \cup {NoNet},
            host : BOOLEAN, lo : Nat, hi : Nat, n : Nat] :
        /\ e.op = "addr" => e.net # NoNet /\ e.net.v6 = e.v6
        /\ e.op = "port" => e.word \in {"tcp", "udp"}}
Docs == [odd : BOOLEAN, chains : SUBSET Bases, rules : Seq([chain : Bases, exprs : Seq(Exprs)])]

\* The families of addresses that a chain of a table sees.
Sees == [ip |-> {FALSE}, ip6 |-> {TRUE}, inet |-> {FALSE, TRUE}]

PolicyMap(policy) ==
    CASE policy \in {None, "accept"} -> "allow"
      [] policy = "drop"           -> "deny"
      [] OTHER                     -> None

-----------------------------------------------------------------------------
(* The first pass: which chains there are.  One policy is stored for each  *)
(* direction, and one list of rules for each family.                       *)

ChainFits(c) ==
    /\ c.family \in DOMAIN Sees
    /\ c.type = "filter" /\ c.hook \in DOMAIN Hooks
    /\ PolicyMap(c.policy) # None

OnHook(doc, hook) == {c \in doc.chains : c.hook = hook}

OnePerHook(doc) ==
    \A a, b \in doc.chains : a.family = b.family /\ a.hook = b.hook => a = b
PoliciesAgree(doc) ==
    \A a, b \in doc.chains : a.hook = b.hook => PolicyMap(a.policy) = PolicyMap(b.policy)

\* nft accepts what no chain is for.
HookPolicy(doc, hook) ==
    IF OnHook(doc, hook) = {} THEN "allow"
    ELSE PolicyMap((CHOOSE c \in OnHook(doc, hook) : TRUE).policy)

\* The same, had a family without a chain been taken for one with the policy.
CoveredByAny(doc, hook) ==
    {c.family : c \in OnHook(doc, hook)} \in {{}, {"inet"}, {"ip", "ip6"}, {"ip"}, {"ip6"}}

Covered(doc, hook) ==
    LET families == {c.family : c \in OnHook(doc, hook)} IN
    \/ families \in {{}, {"inet"}, {"ip", "ip6"}}
    \/ families \in {{"ip"}, {"ip6"}} /\ HookPolicy(doc, hook) = "allow"

Catalogued(doc) ==
    /\ ~doc.odd
    /\ \A c \in doc.chains : ChainFits(c)
    /\ OnePerHook(doc) /\ PoliciesAgree(doc)
    /\ \A hook \in DOMAIN Hooks : Covered(doc, hook)

-----------------------------------------------------------------------------
(* The second pass: one rule, expression by expression.  Repeated matches  *)
(* must all hold, and a rule of bfw has room for one of each kind.         *)

NftProtos == {"tcp", "udp", "icmp", "icmpv6", "ah", "esp", "gre", "vrrp", "igmp", "ipv6"}
NftVerdicts == [accept |-> "allow", drop |-> "deny", reject |-> "reject"]

Blank(c) == [ok |-> TRUE, done |-> FALSE, families |-> Sees[c.family], rule |-> PlainRule(None, Hooks[c.hook])]

Narrow(cv, v6) == [cv EXCEPT !.ok = @ /\ v6 \in cv.families, !.families = {v6}]

\* The protocols of ICMP have one family each.
SetProto(cv, p) ==
    LET narrowed == CASE p = "icmp"   -> Narrow(cv, FALSE)
                      [] p = "icmpv6" -> Narrow(cv, TRUE)
                      [] OTHER        -> cv
    IN [narrowed EXCEPT !.ok = @ /\ p \in NftProtos /\ cv.rule.proto \in {"any", p},
                        !.rule.proto = p]

IfaceEq(cv, side, name) ==
    [cv EXCEPT !.ok = @ /\ name # None /\ cv.rule[side] \in {AnyIface, name}, !.rule[side] = name]

\* A second prefix takes the place of the first address.
AddrEq(cv, e) ==
    LET narrowed == Narrow(cv, e.v6) IN
    [narrowed EXCEPT !.ok = @ /\ (e.host => cv.rule[e.side].net \in {NoNet, e.net}),
                     !.rule[e.side].net = e.net]

PortIs(cv, e) ==
    LET typed  == SetProto(cv, e.word)
        ranges == {[lo |-> e.lo, hi |-> e.hi, proto |-> e.word]}
    IN [typed EXCEPT !.ok = @ /\ e.lo <= e.hi /\ cv.rule[e.side].ports \in {{}, ranges},
                     !.rule[e.side].ports = ranges]

IcmpTypeIs(cv, e) ==
    [SetProto(cv, IF e.v6 THEN "icmpv6" ELSE "icmp") EXCEPT
        !.ok = @ /\ cv.rule.icmp \in {AnyType, e.n}, !.rule.icmp = e.n]

Expr(cv, e) ==
    IF cv.done THEN [cv EXCEPT !.ok = FALSE]
    ELSE CASE e.op = "l4proto"  -> SetProto(cv, e.word)
           [] e.op = "protocol" -> SetProto(Narrow(cv, e.v6), e.word)
           [] e.op = "nfproto"  -> Narrow(cv, e.v6)
           [] e.op = "iifname"  -> IfaceEq(cv, "iif", e.word)
           [] e.op = "oifname"  -> IfaceEq(cv, "oif", e.word)
           [] e.op = "addr"     -> AddrEq(cv, e)
           [] e.op = "port"     -> PortIs(cv, e)
           [] e.op = "icmptype" -> IcmpTypeIs(cv, e)
           [] e.op = "log"      -> [cv EXCEPT !.rule.log = "log-all"]
           [] e.op \in DOMAIN NftVerdicts ->
                [cv EXCEPT !.done = TRUE, !.rule.action = NftVerdicts[e.op]]
           [] OTHER -> [cv EXCEPT !.ok = FALSE]

ConvertRule(r) == FoldLeft(Expr, Blank(r.chain), r.exprs)

Converts(doc, r) == r.chain \in doc.chains /\ ConvertRule(r).ok /\ ConvertRule(r).done

NftRefused(doc) == ~(Catalogued(doc) /\ \A i \in DOMAIN doc.rules : Converts(doc, doc.rules[i]))

-----------------------------------------------------------------------------
\* The rules of one family; a rule without one is in both lists.
NftRules(doc, v6) ==
    FlattenSeq([i \in DOMAIN doc.rules |->
        LET cv == ConvertRule(doc.rules[i]) IN IF v6 \in cv.families THEN <<cv.rule>> ELSE <<>>])

NftMerged(s, doc) ==
    [s EXCEPT !.policies = [d \in Directions |-> HookPolicy(doc, HookOf(d))],
              !.ipv6 = TRUE,
              !.rules4 = MergeRules(@, NftRules(doc, FALSE)),
              !.rules6 = MergeRules(@, NftRules(doc, TRUE))]
=============================================================================
