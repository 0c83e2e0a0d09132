----------------------------- MODULE MCImporters -----------------------------
(***************************************************************************)
(* Instances of Importers: files of up to two rules in each chain, of every *)
(* kind that the importers tell apart, and states with and without rules.  *)
(***************************************************************************)
EXTENDS ImportersProps, TLC

MCTop == 16
MCTexts == STRING
Net(v6, lo, size) == [v6 |-> v6, lo |-> lo, size |-> size]
MCNets == {Net(v6, 0, size) : v6 \in BOOLEAN, size \in {4, 8}} \cup {Net(v6, lo, 1) : v6 \in BOOLEAN, lo \in {1, 2, 9}}

\* "eth*" is a pattern for nft, and "eth+" for iptables and bfw.
Named == "lo" :> {"lo"} @@ "eth0" :> {"eth0"} @@ "eth1" :> {"eth1"}
MCIfaces == Named @@ "eth+" :> {"eth0", "eth1"} @@ "eth*" :> {}
MCNftIfaces == Named @@ "eth+" :> {} @@ "eth*" :> {"eth0", "eth1"}

P0 == [dir |-> "in", v6 |-> FALSE, iif |-> "eth0", oif |-> "", proto |-> "tcp", icmp |-> 0,
       src |-> 1, dst |-> 9, sport |-> 1000, dport |-> 22, ct |-> "new", hl |-> 64,
       rh0 |-> FALSE, cast |-> "local", group |-> "", link |-> FALSE, over |-> FALSE, calm |-> TRUE]
Toward(d, v6) ==
    CASE d = "in"     -> [P0 EXCEPT !.v6 = v6]
      [] d = "out"    -> [P0 EXCEPT !.v6 = v6, !.dir = d, !.iif = "", !.oif = "eth0", !.cast = "other"]
      [] d = "routed" -> [P0 EXCEPT !.v6 = v6, !.dir = d, !.oif = "eth1", !.cast = "other"]
Plain == {Toward(d, v6) : d \in Directions, v6 \in BOOLEAN}
MCPackets ==
    Plain
    \cup {[p EXCEPT !.src = a] : a \in {2, 5}, p \in {q \in Plain : q.dir # "routed"}}
    \cup {[p EXCEPT !.dport = 80, !.iif = "eth1"] : p \in {q \in Plain : q.dir = "in"}}
    \cup {[p EXCEPT !.proto = "udp", !.dport = 53] : p \in {q \in Plain : q.dir # "routed"}}
    \cup {[p EXCEPT !.proto = proto, !.icmp = 5, !.sport = 0, !.dport = 0] :
              proto \in {"icmp", "icmpv6"}, p \in {q \in Plain : q.dir = "in"}}

-----------------------------------------------------------------------------
S0 == [panic |-> FALSE, policies |-> [in |-> "deny", out |-> "allow", routed |-> "deny"],
       etc |-> [in |-> "deny", out |-> "allow", routed |-> "deny"], ipv6 |-> TRUE, etcIPv6 |-> "yes",
       logging |-> "low", rules4 |-> <<>>, rules6 |-> <<>>, bans |-> {}, sets |-> <<>>]

Policed(w) == [S0 EXCEPT !.policies = [d \in Directions |-> w], !.etc = [d \in Directions |-> w]]

Plainly == {S0, Policed("allow"), Policed("reject"), [S0 EXCEPT !.ipv6 = FALSE]}

-----------------------------------------------------------------------------
NoOption == [p |-> "", src |-> NoNet, dst |-> NoNet, iif |-> AnyIface, oif |-> AnyIface, sports |-> {},
        dports |-> {}, mods |-> {}, icmp |-> AnyType, icmp6 |-> FALSE, ct |-> "", with |-> "",
        target |-> "ACCEPT", odd |-> FALSE]
Ports(lo, hi) == {[lo |-> lo, hi |-> hi]}

Ssh == [NoOption EXCEPT !.p = "tcp", !.mods = {"tcp"}, !.dports = Ports(22, 22)]
Sshs(v6) == [NoOption EXCEPT !.p = "tcp", !.dports = Ports(22, 80), !.src = Net(v6, 0, 4), !.target = "DROP"]
Dns == [NoOption EXCEPT !.p = "udp", !.mods = {"multiport"}, !.target = "REJECT", !.with = "port-unreachable",
                   !.dports = Ports(53, 53) \cup Ports(80, 80)]
Card == [NoOption EXCEPT !.iif = "eth0"]
Cards == [NoOption EXCEPT !.iif = "+", !.target = "DROP"]
All == [NoOption EXCEPT !.p = "all", !.target = "REJECT"]
Redirect == [NoOption EXCEPT !.p = "icmp", !.icmp = 5, !.target = "DROP"]
Open4 == [NoOption EXCEPT !.mods = {"conntrack"}, !.ct = "RELATED,ESTABLISHED"]
Count == [Ssh EXCEPT !.target = ""]
End == [NoOption EXCEPT !.target = "RETURN"]

Good(v6) == {Ssh, Sshs(v6), Dns, Card, Cards, All, Open4, Count, End}
              \cup IF v6 THEN {} ELSE {Redirect}

Bad(v6) == {[Ssh EXCEPT !.p = "udp"], [Ssh EXCEPT !.p = "sctp", !.mods = {}], [Ssh EXCEPT !.p = "", !.mods = {}],
            [Ssh EXCEPT !.odd = TRUE], [Ssh EXCEPT !.src = Net(~v6, 0, 4)], [Ssh EXCEPT !.target = "RETURN"],
            [Redirect EXCEPT !.p = "icmpv6"], [Open4 EXCEPT !.target = "DROP"], [Open4 EXCEPT !.p = "tcp"],
            [Open4 EXCEPT !.mods = {}], [All EXCEPT !.with = "host-unreachable"],
            [Card EXCEPT !.with = "port-unreachable"], [Ssh EXCEPT !.target = "web"]}

Pol(chain, word) == [op |-> ":", chain |-> chain, pos |-> 0, policy |-> word, spec |-> NoOption]
Add(chain, spec) == [op |-> "A", chain |-> chain, pos |-> 0, policy |-> "", spec |-> spec]
Ins(chain, pos, spec) == [op |-> "I", chain |-> chain, pos |-> pos, policy |-> "", spec |-> spec]
Dump(lines) == [othertables |-> FALSE, filter |-> lines]

Pairs(v6) == {<<Add("INPUT", a), Add("INPUT", b)>> : a, b \in Good(v6)}
             \cup {<<Add("INPUT", a), Ins("INPUT", n, b)>> : a \in {Ssh, Cards}, b \in Good(v6), n \in {1, 2}}

Policies(v6) ==
    {Dump(<<Pol("INPUT", w)>> \o l) :
        w \in {"-", "ACCEPT", "DROP", "REJECT"}, l \in {<<>>, <<Add("INPUT", Ssh)>>, <<Add("INPUT", All)>>}}

Faulty(v6) ==
    {Dump(<<Add("INPUT", a), Add("INPUT", s)>>) : a \in {Ssh, End}, s \in Bad(v6)}
    \cup {Dump(<<Add("INPUT", Ssh), Ins("INPUT", 3, Ssh)>>),
          Dump(<<Pol("INPUT", "DROP"), Pol("INPUT", "DROP")>>),
          Dump(<<Pol("INPUT", "QUEUE")>>),
          [Dump(<<Add("INPUT", Ssh)>>) EXCEPT !.othertables = TRUE]}

Elsewhere4 ==
    {Dump(<<Pol("OUTPUT", w), Pol("FORWARD", "ACCEPT"), Add("OUTPUT", Dns), Add("FORWARD", Cards)>>) :
        w \in {"ACCEPT", "DROP"}}

MCDumps4 == {NoDump} \cup Policies(FALSE) \cup Elsewhere4 \cup Faulty(FALSE)
            \cup {Dump(<<Pol("INPUT", "DROP")>> \o l) : l \in Pairs(FALSE)}
MCDumps6 == {NoDump, Dump(<<Pol("INPUT", "DROP"), Add("INPUT", Sshs(TRUE)), Add("INPUT", Card)>>),
             Dump(<<Pol("INPUT", "ACCEPT"), Pol("OUTPUT", "REJECT"), Add("INPUT", Dns)>>),
             Dump(<<Add("INPUT", All), Add("INPUT", Ssh), Pol("FORWARD", "-")>>),
             Dump(<<Add("INPUT", [Ssh EXCEPT !.odd = TRUE])>>)}

-----------------------------------------------------------------------------
(* Rulesets of nft. *)

NoExpr == [op |-> "", word |-> "", side |-> "src", v6 |-> FALSE, net |-> NoNet, host |-> TRUE,
           lo |-> 0, hi |-> 0, n |-> 0]
Meta(op, word) == [NoExpr EXCEPT !.op = op, !.word = word]
Typed(op, v6, word) == [Meta(op, word) EXCEPT !.v6 = v6]
From(net, host) == [NoExpr EXCEPT !.op = "addr", !.net = net, !.host = host, !.v6 = net.v6]
To(proto, lo, hi) == [Meta("port", proto) EXCEPT !.side = "dst", !.lo = lo, !.hi = hi]
IcmpIs(v6, n) == [NoExpr EXCEPT !.op = "icmptype", !.v6 = v6, !.n = n]
Do(verdict) == Meta(verdict, "")

Conds == {Meta("l4proto", "tcp"), Meta("l4proto", "icmp"), Meta("l4proto", "sctp"), Typed("protocol", FALSE, "udp"),
          Typed("protocol", TRUE, "tcp"), Typed("nfproto", TRUE, ""), Meta("iifname", "eth0"),
          Meta("iifname", "eth*"), Meta("oifname", "eth1"), From(Net(FALSE, 1, 1), TRUE),
          From(Net(FALSE, 0, 4), FALSE), From(Net(TRUE, 0, 8), FALSE), To("tcp", 22, 22), To("tcp", 22, 80),
          To("udp", 53, 53), IcmpIs(FALSE, 5), IcmpIs(TRUE, 5), IcmpIs(FALSE, 4), Do("log"), Do("jump")}

Base0(family, hook, policy) ==
    [family |-> family, table |-> "filter", name |-> hook, type |-> "filter", hook |-> hook, policy |-> policy]
RuleOf(c, exprs) == [chain |-> c, exprs |-> exprs]
Ruleset(chains, rules) == [odd |-> FALSE, chains |-> chains, rules |-> rules]

Input == Base0("inet", "input", "drop")
OneRule == {Ruleset({Input}, <<RuleOf(Input, <<a, b, Do("accept")>>)>>) : a, b \in Conds}

TwoRules ==
    LET bodies == {<<To("tcp", 22, 22), Do("drop")>>, <<To("tcp", 22, 80), Do("accept")>>,
                   <<From(Net(FALSE, 0, 4), FALSE), Do("reject")>>, <<Typed("nfproto", TRUE, ""), Do("accept")>>,
                   <<Do("accept")>>, <<To("tcp", 22, 22), Do("accept")>>}
    IN {Ruleset({Input}, <<RuleOf(Input, a), RuleOf(Input, b)>>) : a, b \in bodies}

\* Chains of every family on a hook, each with a rule or without.
Families ==
    LET pick(f) == {{}} \cup {{Base0(f, "input", w)} : w \in {"", "drop"}}
        body(c) == RuleOf(c, <<To("tcp", 22, 22), Do(IF c.policy = "" THEN "reject" ELSE "accept")>>)
        seq(S)  == SetToSeq({body(c) : c \in S})
    IN {Ruleset(f \cup i \cup s, rules) : f \in pick("ip"), i \in pick("inet"), s \in pick("ip6"), rules \in {<<>>}}
       \cup {Ruleset(f \cup i \cup s, seq(f \cup i \cup s)) : f \in pick("ip"), i \in pick("inet"), s \in pick("ip6")}
       \cup {Ruleset({Base0("inet", h, w)}, <<RuleOf(Base0("inet", h, w), <<To("udp", 53, 53), Do("reject")>>)>>) :
                h \in {"output", "forward", "prerouting"}, w \in {"accept", "drop", "queue"}}

FaultyRulesets ==
    {[Ruleset({Input}, <<>>) EXCEPT !.odd = TRUE],
     Ruleset({[Input EXCEPT !.type = ""]}, <<>>), Ruleset({[Input EXCEPT !.family = "bridge"]}, <<>>),
     Ruleset({Input, [Input EXCEPT !.table = "other"]}, <<>>),
     Ruleset({Input}, <<RuleOf([Input EXCEPT !.table = "other"], <<Do("accept")>>)>>),
     Ruleset({Input}, <<RuleOf(Input, <<To("tcp", 22, 22)>>)>>),
     Ruleset({Input}, <<RuleOf(Input, <<Do("accept"), Do("log")>>)>>)}

MCNoRulesets == {}
MCRulesets == OneRule \cup TwoRules \cup Families \cup FaultyRulesets

-----------------------------------------------------------------------------
(* Configurations of firewalld. *)

MCZoneOrder == <<"public", "trusted", "work">>
MCEtcServices == "domain" :> {[lo |-> 53, hi |-> 53, proto |-> p] : p \in {"tcp", "udp"}}

Ranges(proto, lo, hi) == {[lo |-> lo, hi |-> hi, proto |-> proto]}
SetEnd(name) == [net |-> NoNet, set |-> name]
NetEnd(net) == [net |-> net, set |-> NoSet]

NoElem == [kind |-> "", name |-> "", ports |-> {}, proto |-> "", families |-> Both, src |-> AnyEnd, dst |-> AnyEnd,
           match |-> "", icmp |-> AnyType, log |-> FALSE, verdict |-> "", odd |-> FALSE]
PortElem(kind, proto, lo, hi) == [NoElem EXCEPT !.kind = kind, !.proto = proto, !.ports = Ranges(proto, lo, hi)]
ServiceElem(name) == [NoElem EXCEPT !.kind = "service", !.name = name]
Rich(src, verdict) == [NoElem EXCEPT !.kind = "rule", !.src = src, !.verdict = verdict]
RichPort(src, verdict) ==
    [Rich(src, verdict) EXCEPT !.match = "port", !.proto = "tcp", !.ports = Ranges("tcp", 22, 22)]

Elems == {PortElem("port", "tcp", 22, 22), PortElem("port", "sctp", 22, 22), PortElem("source-port", "tcp", 1000, 1000),
          [NoElem EXCEPT !.kind = "protocol", !.proto = "udp"], [NoElem EXCEPT !.kind = "protocol", !.proto = "icmpv6"],
          RichPort(AnyEnd, "drop"),
          ServiceElem("web"), ServiceElem("domain"), ServiceElem("nowhere"),
          Rich(NetEnd(Net(FALSE, 0, 4)), "drop"), Rich(SetEnd("block"), "reject"), Rich(AnyEnd, "reject"), Rich(AnyEnd, ""),
          RichPort(NetEnd(Net(TRUE, 0, 4)), "drop"), [RichPort(AnyEnd, "accept") EXCEPT !.families = {FALSE}, !.log = TRUE],
          [Rich(AnyEnd, "accept") EXCEPT !.match = "service", !.name = "web"],
          [Rich(AnyEnd, "accept") EXCEPT !.match = "icmp-type", !.icmp = 5, !.families = {TRUE}],
          [Rich(AnyEnd, "accept") EXCEPT !.match = "icmp-type", !.icmp = 5],
          [RichPort(AnyEnd, "accept") EXCEPT !.odd = TRUE]}

Service(ports, protos, includes) ==
    [NoService EXCEPT !.ok = TRUE, !.ports = ports, !.protos = protos, !.includes = includes]
Nothing == <<>>  \* a directory without files
Files(policies, services, ipsets, zones) ==
    [policies |-> policies, services |-> services, ipsets |-> ipsets, zones |-> zones]

Host6 == [target |-> "", priority |-> -15000, ingress |-> {"ANY"}, egress |-> {"HOST"},
          rules |-> <<[v6 |-> TRUE, icmp |-> 5, verdict |-> "accept"]>>]
Block4 == [type |-> "hash:net", v6 |-> FALSE, entries |-> {Net(FALSE, 0, 4)}]
Zone(bindings, elems) == [target |-> "", bindings |-> bindings, elems |-> elems]
Ssh22 == PortElem("port", "tcp", 22, 22)
Web80 == PortElem("port", "tcp", 80, 80)

Stock == Files("allow-host-ipv6" :> Host6, "web" :> Service(Ranges("tcp", 80, 80), <<>>, <<>>),
               "block" :> Block4, "public" :> Zone(<<>>, <<Ssh22>>))
Tree(files) == [default |-> "public", direct |-> FALSE, vendor |-> Stock, etc |-> files]
OnlyZones(zones) == Tree(Files(Nothing, Nothing, Nothing, zones))

OneZone ==
    LET first == {Ssh22, ServiceElem("web"), ServiceElem("domain"), Rich(NetEnd(Net(FALSE, 0, 4)), "drop"),
                  Rich(SetEnd("block"), "reject"), RichPort(AnyEnd, "drop"), RichPort(NetEnd(Net(TRUE, 0, 4)), "drop")}
    IN {OnlyZones("public" :> Zone(<<>>, <<a, b>>)) : a \in first, b \in Elems}

Binds == {[iface |-> "eth0", src |-> AnyEnd], [iface |-> "eth1", src |-> AnyEnd]}
         \cup {[Unbound EXCEPT !.src = end] : end \in {NetEnd(Net(FALSE, 0, 8)), NetEnd(Net(FALSE, 1, 1)),
                                                      NetEnd(Net(FALSE, 2, 1)), NetEnd(Net(TRUE, 0, 4)), SetEnd("block"), SetEnd("none")}}

TwoZones ==
    {OnlyZones("public" :> Zone(<<a>>, <<e>>) @@ "work" :> Zone(<<b>>, <<Web80>>)) :
        a, b \in Binds, e \in {Ssh22, RichPort(NetEnd(Net(FALSE, 0, 4)), "accept")}}
    \cup {OnlyZones("public" :> Zone(<<[Unbound EXCEPT !.iface = "eth+"]>>, <<Ssh22>>) @@ "work" :> Zone(<<b>>, <<Web80>>)) :
              b \in Binds}
    \cup {OnlyZones("work" :> Zone(<<b>>, <<Web80>>)) : b \in Binds}
    \cup {OnlyZones("work" :> Zone(<<>>, <<Web80>>))}

BoundZone ==
    {OnlyZones("public" :> Zone(<<a, b>>, <<RichPort(end, "accept")>>)) :
        a, b \in Binds, end \in {AnyEnd, NetEnd(Net(FALSE, 0, 4)), NetEnd(Net(TRUE, 0, 8)), SetEnd("block")}}

Services ==
    LET web == Service(Ranges("tcp", 80, 80), <<>>, <<>>)
        with(f) == Tree(Files(Nothing, f, Nothing, "public" :> Zone(<<>>, <<ServiceElem("app")>>)))
    IN {with("app" :> Service(Ranges("tcp", 22, 22), protos, includes)) :
            protos \in {<<>>, <<"udp">>, <<"icmpv6">>}, includes \in {<<>>, <<"web">>, <<"web", "domain">>, <<"app">>}}
       \cup {with("app" :> [Service(Ranges("tcp", 22, 22), <<>>, includes) EXCEPT !.dst4 = a]
                  @@ "sub" :> [Service(Ranges("tcp", 80, 80), <<>>, <<>>) EXCEPT !.dst4 = b, !.dst6 = c]) :
                includes \in {<<>>, <<"sub">>}, a, b \in {NoNet, Net(FALSE, 0, 8), Net(FALSE, 9, 1)},
                c \in {NoNet, Net(TRUE, 9, 1)}}
       \cup {with("app" :> Service({}, <<>>, <<>>)), with("web" :> web)}

OtherTrees ==
    LET only == "public" :> Zone(<<>>, <<Web80>>)
        pol(f) == Tree(Files(f, Nothing, Nothing, only))
        set(f) == Tree(Files(Nothing, Nothing, "block" :> f,
                             "public" :> Zone(<<>>, <<RichPort(SetEnd("block"), "accept")>>)))
    IN {pol("allow-host-ipv6" :> p) : p \in {[Host6 EXCEPT !.rules = <<>>], [Host6 EXCEPT !.target = "ACCEPT"],
            [Host6 EXCEPT !.priority = -1], [Host6 EXCEPT !.egress = {"ANY"}], [Host6 EXCEPT !.rules[1].v6 = FALSE]}}
       \cup {set(s) : s \in {[Block4 EXCEPT !.type = "hash:ip"], [Block4 EXCEPT !.type = "hash:mac"],
            [Block4 EXCEPT !.v6 = TRUE], [Block4 EXCEPT !.entries = {Net(FALSE, 1, 1)}],
            [Block4 EXCEPT !.v6 = TRUE, !.entries = {Net(TRUE, 0, 8)}]}}
       \cup {[pol(Nothing) EXCEPT !.direct = TRUE], [pol(Nothing) EXCEPT !.default = "home"],
             OnlyZones("public" :> [Zone(<<>>, <<Ssh22>>) EXCEPT !.target = "ACCEPT"]),
             OnlyZones("public" :> Zone(<<>>, <<[NoElem EXCEPT !.kind = "masquerade"]>>))}

MCNoTrees == {}
MCTrees == OneZone \cup TwoZones \cup BoundZone \cup Services \cup OtherTrees

-----------------------------------------------------------------------------
\* Sets without rules, and a rule that names a set, which firewalld may have one of the same name as.
SetOnly == [S0 EXCEPT !.sets = "block" :> {Net(FALSE, 2, 1)}]
WithSet == [S0 EXCEPT !.sets = "block" :> {Net(FALSE, 1, 1)},
                      !.rules4 = <<[PlainRule("allow", "in") EXCEPT !.src.set = "block"],
                                   PlainRule("deny", "in")>>]

\* The same for what goes out, which no zone is about.
WithSetOut == [WithSet EXCEPT !.rules4 = <<[PlainRule("deny", "out") EXCEPT !.src.set = "block"]>>]

\* The catchall of an import, which was switched off since.
SwitchedOff ==
    [Policed("allow") EXCEPT !.rules4 = <<[PlainRule("allow", "in") EXCEPT !.comment = "allow", !.disabled = TRUE]>>]

\* States without rules, and what some imports make of them.
FewDumps == {NoDump, Dump(<<Pol("INPUT", "REJECT"), Add("INPUT", Ssh)>>)} \cup Elsewhere4
MCStored ==
    Plainly \cup {SetOnly, WithSet, WithSetOut, SwitchedOff} \cup
    {Merged(s, d4, d6) : s \in {S0, Policed("reject")}, d4 \in FewDumps,
        d6 \in {NoDump, Dump(<<Pol("INPUT", "DROP"), Add("INPUT", Sshs(TRUE)), Add("INPUT", Card)>>)}}
=============================================================================
