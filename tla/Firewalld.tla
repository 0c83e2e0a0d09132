------------------------------ MODULE Firewalld ------------------------------
(***************************************************************************)
(* The import of firewalld's permanent configuration: the tree of a        *)
(* machine over the one of its vendor.  What is bound to a zone may open   *)
(* the connections that the elements of the zone allow; each element       *)
(* becomes rules for each of the zone's bindings and for each family.      *)
(* "odd" says of a part that it has something that refuses the import      *)
(* wherever the part is used.                                              *)
(***************************************************************************)
EXTENDS Merge

CONSTANTS ZoneOrder,   \* the names of zones, sorted
          EtcServices  \* the ports of the services that /etc/services knows

Both == {FALSE, TRUE}  \* the families: IPv4 and IPv6

\* The families that have a protocol; none, for one that bfw does not know.
FwProtos ==
    [p \in {"tcp", "udp", "ah", "esp", "gre", "vrrp", "igmp", "icmp", "icmpv6"} |->
        CASE p \in {"igmp", "icmp"} -> {FALSE} [] p = "icmpv6" -> {TRUE} [] OTHER -> Both]

\* What files say.  A service with a protocol that is not known is not "ok".
FwEnds == {end \in [net : Nets \cup {NoNet}, set : Texts] : end.net = NoNet \/ end.set = NoSet}
FwPolicies == [target : Texts, priority : Int, ingress : SUBSET Texts, egress : SUBSET Texts,
               rules : Seq([v6 : BOOLEAN, icmp : Int, verdict : Texts])]
FwPorts == {q \in PortRanges : q.proto \in {"tcp", "udp"}}
FwDsts(v6) == {NoNet} \cup {n \in Nets : n.v6 = v6}
FwServices == [ok : BOOLEAN, ports : SUBSET FwPorts, protos : Seq(DOMAIN FwProtos),
               dst4 : FwDsts(FALSE), dst6 : FwDsts(TRUE), includes : Seq(Texts)]
FwIpsets == [type : Texts, v6 : BOOLEAN, entries : SUBSET Nets]
FwElemFields ==
    [kind : Texts, name : Texts, ports : SUBSET PortRanges, proto : Texts, families : SUBSET Both,
     src : FwEnds, dst : FwEnds, icmp : Int, log : BOOLEAN, verdict : Texts, odd : BOOLEAN,
     match : {None, "port", "source-port", "protocol", "icmp-type", "service"}]
FwElems ==
    {e \in FwElemFields :
        /\ {e.kind, e.match} \cap {"port", "source-port"} # {} =>
              \E q \in e.ports : e.ports = {q} /\ q.proto = e.proto
        /\ e.match = "icmp-type" => e.icmp # AnyType}
FwZones == [target : Texts, bindings : Seq([iface : Texts, src : FwEnds]), elems : Seq(FwElems)]

\* Files of one directory, by their names.
IsDir(dir, Files) == IsFiniteSet(DOMAIN dir) /\ DOMAIN dir \subseteq Texts /\ Range(dir) \subseteq Files
IsConfig(fw) ==
    /\ IsDir(fw.policies, FwPolicies) /\ IsDir(fw.services, FwServices)
    /\ IsDir(fw.ipsets, FwIpsets) /\ IsDir(fw.zones, FwZones)

\* A file of the machine goes before the vendor's of the same name.
Over(etc, vendor) ==
    [n \in DOMAIN etc \cup DOMAIN vendor |-> IF n \in DOMAIN etc THEN etc[n] ELSE vendor[n]]

Effective(tree) ==
    [default  |-> tree.default, direct |-> tree.direct,
     policies |-> Over(tree.etc.policies, tree.vendor.policies),
     services |-> Over(tree.etc.services, tree.vendor.services),
     ipsets   |-> Over(tree.etc.ipsets, tree.vendor.ipsets),
     zones    |-> Over(tree.etc.zones, tree.vendor.zones)]

-----------------------------------------------------------------------------
(* Policies: the one that every firewalld has, for what IPv6 needs.        *)

PolicyRuleFits(r) == r.v6 /\ r.icmp # AnyType /\ r.verdict = "accept"

PolicyFits(pol) ==
    /\ pol.target \in {None, "CONTINUE"} /\ pol.priority = -15000
    /\ pol.ingress = {"ANY"} /\ pol.egress = {"HOST"}
    /\ \A i \in DOMAIN pol.rules : PolicyRuleFits(pol.rules[i])

PolicyRules(pol) ==
    [i \in DOMAIN pol.rules |->
        [PlainRule("allow", "in") EXCEPT !.proto = "icmpv6", !.icmp = pol.rules[i].icmp]]

\* Of all policies, in any order: they all accept.
EmitPolicies(fw) ==
    FlattenSeq(SetToSeq({PolicyRules(pol) : pol \in Range(fw.policies)}))

-----------------------------------------------------------------------------
(* Services: ports and protocols, which a service may include from others. *)

NoService == [ok |-> FALSE, ports |-> {}, protos |-> <<>>, dst4 |-> NoNet, dst6 |-> NoNet, includes |-> <<>>]

ServiceDef(fw, name) ==
    IF name \in DOMAIN fw.services THEN fw.services[name]
    ELSE IF name \in DOMAIN EtcServices THEN [NoService EXCEPT !.ok = TRUE, !.ports = EtcServices[name]]
    ELSE NoService

\* One destination for a service and what it includes.
JoinDst(a, b) == IF a = NoNet THEN b ELSE a
DstsAgree(a, b) == NoNet \in {a, b} \/ a = b

Include(out, sub) ==
    [ok       |-> out.ok /\ sub.ok /\ DstsAgree(out.dst4, sub.dst4) /\ DstsAgree(out.dst6, sub.dst6),
     ports    |-> out.ports \cup sub.ports,
     protos   |-> out.protos \o sub.protos,
     dst4     |-> JoinDst(out.dst4, sub.dst4),
     dst6     |-> JoinDst(out.dst6, sub.dst6),
     includes |-> out.includes]

WithIncludes(subs, def) == FoldLeft(LAMBDA out, inc : Include(out, subs[inc]), def, def.includes)

\* A service with what it includes; "open" are those that are being resolved.
ResolveService(fw) ==
    LET resolve[open \in SUBSET DOMAIN fw.services] ==
            [name \in Texts |->
                IF name \in open THEN NoService
                ELSE WithIncludes(resolve[open \cup {name}], ServiceDef(fw, name))]
    IN resolve

Resolved(fw, name) == ResolveService(fw)[{}][name]

-----------------------------------------------------------------------------
(* Sets of addresses, of one family each.                                  *)

SetFits(def) ==
    /\ def.type \in {"hash:ip", "hash:net"}
    /\ \A n \in def.entries : n.v6 = def.v6 /\ (def.type = "hash:ip" => n.size = 1)

FwSets(fw) ==
    [n \in {m \in DOMAIN fw.ipsets : SetFits(fw.ipsets[m])} |-> fw.ipsets[n].entries]

-----------------------------------------------------------------------------
(* Ends of a connection, which bindings and rich rules name: an address, a *)
(* set or neither.                                                         *)

AnyEnd == [net |-> NoNet, set |-> NoSet]

EndFits(fw, end) == end.set # NoSet => end.set \in DOMAIN FwSets(fw)

EndFamilies(fw, end) ==
    IF end.set # NoSet THEN {fw.ipsets[end.set].v6}
    ELSE IF end.net # NoNet THEN {end.net.v6}
    ELSE Both

Unbound == [iface |-> AnyIface, src |-> AnyEnd]

Nested(a, b) == PrefixContains(a, b) \/ PrefixContains(b, a)

\* Whether one packet may be bound by both; two sets, or a set and an
\* address, may always have one in common.
BindingsOverlap(fw, a, b) ==
    IF AnyIface \notin {a.iface, b.iface} THEN a.iface = b.iface
    ELSE IF a.iface # b.iface THEN TRUE
    ELSE /\ EndFamilies(fw, a.src) \cap EndFamilies(fw, b.src) # {}
         /\ NoNet \notin {a.src.net, b.src.net} => Nested(a.src.net, b.src.net)

-----------------------------------------------------------------------------
(* Zones. *)

BoundZones(fw) == {z \in DOMAIN fw.zones : fw.zones[z].bindings # <<>>}

ParsesZone(fw, zone) ==
    /\ zone.target \in {None, "default"}
    /\ \A i \in DOMAIN zone.bindings : EndFits(fw, zone.bindings[i].src)

\* Zones that packets come to, which become rules.
ActiveZones(fw) == BoundZones(fw) \cup ({fw.default} \cap DOMAIN fw.zones)

Bindings(fw, z) == IF z \in BoundZones(fw) THEN fw.zones[z].bindings ELSE <<Unbound>>

ZonesFit(fw) ==
    /\ fw.default \in DOMAIN fw.zones
    /\ \A z \in DOMAIN fw.zones : ParsesZone(fw, fw.zones[z])
    /\ BoundZones(fw) # {} => fw.default \in BoundZones(fw)

CheckZoneOverlap(fw) ==
    \A y, z \in ActiveZones(fw) : y # z =>
        \A a \in ToSet(Bindings(fw, y)), b \in ToSet(Bindings(fw, z)) : ~BindingsOverlap(fw, a, b)

-----------------------------------------------------------------------------
(* A template is a rule for a set of families; for a binding it takes over *)
(* the interface, and of two sources what they have in common.             *)

Template(action, families) == [rule |-> PlainRule(action, "in"), families |-> families]

\* No rule has two sets, or a set and an address.
Clash(bound, src) ==
    \/ bound.net # NoNet /\ src.set # NoSet
    \/ bound.set # NoSet /\ src \notin {AnyEnd, bound}

Apart(bound, src) == NoNet \notin {bound.net, src.net} /\ ~Nested(bound.net, src.net)

\* The same, had the source of the rule been kept where the binding is narrower.
MeetRule(bound, src) == IF src # AnyEnd THEN src ELSE bound

Meet(bound, src) ==
    IF bound = AnyEnd THEN src
    ELSE IF bound.net # NoNet /\ src.net # NoNet /\ PrefixContains(src.net, bound.net) THEN src
    ELSE bound

SrcOf(t) == [net |-> t.rule.src.net, set |-> t.rule.src.set]

Emits(fw, b, t) ==
    \/ Apart(b.src, SrcOf(t))
    \/ ~Clash(b.src, SrcOf(t)) /\ t.families \cap EndFamilies(fw, b.src) # {}

EmitFor(fw, b, t) ==
    IF Apart(b.src, SrcOf(t)) THEN <<>>
    ELSE LET src == Meet(b.src, SrcOf(t)) IN
         <<[rule |-> [t.rule EXCEPT !.iif = b.iface, !.src.net = src.net, !.src.set = src.set],
            families |-> t.families \cap EndFamilies(fw, b.src)]>>

-----------------------------------------------------------------------------
(* Elements of a zone. *)

WithDst(t, def) ==
    IF NoNet = def.dst4 /\ NoNet = def.dst6 THEN <<t>>
    ELSE (IF def.dst4 = NoNet THEN <<>>
          ELSE <<[t EXCEPT !.rule.dst.net = def.dst4, !.families = @ \cap {FALSE}]>>)
         \o (IF def.dst6 = NoNet THEN <<>>
             ELSE <<[t EXCEPT !.rule.dst.net = def.dst6, !.families = @ \cap {TRUE}]>>)

\* The protocol that all of the ports have.
ProtoOfPorts(ports) ==
    LET protos == {q.proto : q \in ports} IN IF protos \in {{"tcp"}, {"udp"}} THEN CHOOSE p \in protos : TRUE ELSE "any"

EmitService(def) ==
    (IF def.ports = {} THEN <<>>
     ELSE WithDst([Template("allow", Both) EXCEPT !.rule.proto = ProtoOfPorts(def.ports),
                                                  !.rule.dst.ports = def.ports], def))
    \o FlattenSeq([i \in DOMAIN def.protos |->
            WithDst([Template("allow", FwProtos[def.protos[i]]) EXCEPT !.rule.proto = def.protos[i]], def)])

ServiceFits(def) == def.ok /\ (def.ports # {} \/ def.protos # <<>>)

FwVerdicts == [accept |-> "allow", drop |-> "deny", reject |-> "reject"]

\* A service in a rich rule has one kind of condition, and no address.
RichService(def) ==
    /\ ServiceFits(def)
    /\ IF def.ports = {} THEN Len(def.protos) = 1 ELSE def.protos = <<>>
    /\ def.dst4 = NoNet /\ def.dst6 = NoNet

RichFamilies(fw, e) ==
    e.families \cap EndFamilies(fw, e.src) \cap EndFamilies(fw, e.dst)

RichFits(fw, e) ==
    /\ e.verdict \in DOMAIN FwVerdicts
    /\ EndFits(fw, e.src) /\ EndFits(fw, e.dst)
    /\ e.match \in {"port", "source-port"} => e.proto \in {"tcp", "udp"}
    /\ e.match = "service"  => RichService(Resolved(fw, e.name))
    /\ e.match = "protocol" => e.proto \in DOMAIN FwProtos
    /\ e.match = "icmp-type" => RichFamilies(fw, e) \in {{FALSE}, {TRUE}}

OfProto(t, p) == [t EXCEPT !.rule.proto = p, !.families = @ \cap FwProtos[p]]

RichTemplate(fw, e) ==
    [Template(FwVerdicts[e.verdict], RichFamilies(fw, e)) EXCEPT
        !.rule.src.net = e.src.net, !.rule.src.set = e.src.set,
        !.rule.dst.net = e.dst.net, !.rule.dst.set = e.dst.set,
        !.rule.log = IF e.log THEN "log-all" ELSE None]

RichRule(fw, e) ==
    LET t   == RichTemplate(fw, e)
        def == Resolved(fw, e.name)
    IN CASE e.match = "port"        -> [t EXCEPT !.rule.dst.ports = e.ports, !.rule.proto = e.proto]
         [] e.match = "source-port" -> [t EXCEPT !.rule.src.ports = e.ports, !.rule.proto = e.proto]
         [] e.match = "protocol"    -> OfProto(t, e.proto)
         [] e.match = "icmp-type"   ->
              [OfProto(t, IF TRUE \in t.families THEN "icmpv6" ELSE "icmp") EXCEPT !.rule.icmp = e.icmp]
         [] e.match = "service"     ->
              IF def.ports = {} THEN OfProto(t, def.protos[1]) ELSE [t EXCEPT !.rule.dst.ports = def.ports]
         [] e.match = None          -> t

ElemFits(fw, e) ==
    /\ ~e.odd
    /\ CASE e.kind \in {"port", "source-port"} -> e.proto \in {"tcp", "udp"}
         [] e.kind = "protocol" -> e.proto \in DOMAIN FwProtos
         [] e.kind = "service"  -> ServiceFits(Resolved(fw, e.name))
         [] e.kind = "rule"     -> RichFits(fw, e)
         [] OTHER               -> FALSE

ZoneElem(fw, e) ==
    CASE e.kind = "port" ->
            <<[Template("allow", Both) EXCEPT !.rule.proto = e.proto, !.rule.dst.ports = e.ports]>>
      [] e.kind = "source-port" ->
            <<[Template("allow", Both) EXCEPT !.rule.proto = e.proto, !.rule.src.ports = e.ports]>>
      [] e.kind = "protocol" -> <<[Template("allow", FwProtos[e.proto]) EXCEPT !.rule.proto = e.proto]>>
      [] e.kind = "service"  -> EmitService(Resolved(fw, e.name))
      [] e.kind = "rule"     -> <<RichRule(fw, e)>>

Templates(fw, z) ==
    FlattenSeq([i \in DOMAIN fw.zones[z].elems |-> ZoneElem(fw, fw.zones[z].elems[i])])

ZoneFits(fw, z) ==
    /\ \A i \in DOMAIN fw.zones[z].elems : ElemFits(fw, fw.zones[z].elems[i])
    /\ \A b \in ToSet(Bindings(fw, z)), t \in ToSet(Templates(fw, z)) : Emits(fw, b, t)

\* Template by template, and each for binding by binding.
EmitZone(fw, z) ==
    FlattenSeq([i \in DOMAIN Templates(fw, z) |->
        FlattenSeq([j \in DOMAIN Bindings(fw, z) |->
            EmitFor(fw, Bindings(fw, z)[j], Templates(fw, z)[i])])])

EmitZones(fw) ==
    FlattenSeq([i \in DOMAIN ZoneOrder |->
        IF ZoneOrder[i] \in ActiveZones(fw) THEN EmitZone(fw, ZoneOrder[i]) ELSE <<>>])

-----------------------------------------------------------------------------
FwRefused(fw) ==
    ~(/\ ~fw.direct
      /\ \A pol \in Range(fw.policies) : PolicyFits(pol)
      /\ ZonesFit(fw) /\ CheckZoneOverlap(fw)
      /\ \A z \in ActiveZones(fw) : ZoneFits(fw, z))

FwRules(fw, v6) ==
    LET all == EmitZones(fw) IN
    (IF v6 THEN EmitPolicies(fw) ELSE <<>>)
    \o FlattenSeq([i \in DOMAIN all |-> IF v6 \in all[i].families THEN <<all[i].rule>> ELSE <<>>])

\* A set of a name that is there gets the elements that it lacks.
MergeSets(sets, new) ==
    [n \in DOMAIN sets \cup DOMAIN new |->
        (IF n \in DOMAIN sets THEN sets[n] ELSE {}) \cup (IF n \in DOMAIN new THEN new[n] ELSE {})]

FwMerged(s, fw) ==
    [s EXCEPT !.rules4 = MergeRules(@, FwRules(fw, FALSE)),
              !.rules6 = MergeRules(@, FwRules(fw, TRUE)),
              !.sets = MergeSets(@, FwSets(fw)),
              !.ipv6 = TRUE]
=============================================================================
