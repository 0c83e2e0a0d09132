--------------------------- MODULE ImportersProps ---------------------------
(***************************************************************************)
(* What an import is to keep: what the source said to packets that open a  *)
(* connection, and for what the source says nothing of what was said       *)
(* before.  The sources are modelled here as they decide by themselves.    *)
(***************************************************************************)
EXTENDS Importers, Verdicts

CONSTANT NftIfaces  \* the interfaces that a name in an nft rule stands for

ASSUME ChainsAssumption == \A p \in Packets : p.dir \in Directions /\ p.v6 \in Both

New == {p \in Packets : p.ct = "new"}
Opening(d) == {p \in New : p.dir = d}

\* The import that made the state, if one did.
LastImport == {imported[k] : k \in {Len(imported)} \ {0}}
LastFrom(kind) == {i \in LastImport : i.kind = kind}
Fresh(i) == i.before.rules4 \o i.before.rules6 = <<>>

-----------------------------------------------------------------------------
(* iptables itself: the first rule of a packet's chain that matches it and *)
(* has a verdict decides, or the policy of the chain.                      *)

InRanges(ranges, port) == ranges # {} => \E q \in ranges : port \in q.lo .. q.hi

SpecMatches(spec, p) ==
    /\ spec.p \in {None, "all", p.proto}
    /\ spec.iif \in {AnyIface, "+"} \/ p.iif \in Ifaces[spec.iif]
    /\ spec.oif \in {AnyIface, "+"} \/ p.oif \in Ifaces[spec.oif]
    /\ spec.src # NoNet => p.src \in Block(spec.src)
    /\ spec.dst # NoNet => p.dst \in Block(spec.dst)
    /\ InRanges(spec.sports, p.sport) /\ InRanges(spec.dports, p.dport)
    /\ spec.icmp \in {AnyType, p.icmp}
    /\ spec.ct # None => p.ct \in {"established", "related"}

\* The rules of a chain in the order in which iptables-restore leaves them;
\* there is no place for a rule but before, between and after the others.
Restore(done, line, c) ==
    IF line.chain # c \/ line.op = ":" THEN done
    ELSE IF line.op = "A" THEN Append(done, line.spec)
    ELSE IF line.pos \in 1 .. Len(done) + 1 THEN InsertAt(done, line.pos, line.spec)
    ELSE done
Restored(lines, c) == FoldLeft(LAMBDA done, line : Restore(done, line, c), <<>>, lines)

ChainOf(p) == CHOOSE c \in ChainNames : Direction(c) = p.dir

Words == [ACCEPT |-> "accept", DROP |-> "drop", REJECT |-> "reject"]

\* The policy that a dump declares for a chain; none or one.
Declared(dump, c) ==
    {dump.filter[i].policy : i \in {k \in DOMAIN dump.filter :
        dump.filter[k].op = ":" /\ dump.filter[k].chain = c}} \cap DOMAIN Words

\* What the source does with a packet; where it has no policy, what else is.
SourceVerdict(dump, p, otherwise) ==
    LET specs == Restored(dump.filter, ChainOf(p))
        hit   == SelectInSeq(specs, LAMBDA s : s.target # None /\ SpecMatches(s, p))
        words == {specs[i].target : i \in {hit} \ {0}} \cap DOMAIN Words
        words2 == IF words = {} THEN Declared(dump, ChainOf(p)) ELSE words
    IN IF words2 = {} THEN otherwise ELSE Words[CHOOSE w \in words2 : TRUE]

-----------------------------------------------------------------------------
\* What a state says to a packet by its rules and its stored policies.
StateVerdict(s, p) ==
    IF FirstMatch(s, p) # 0 THEN RuleDecides(RulesFor(s, p)[FirstMatch(s, p)], p)
    ELSE PolicyDecides([s EXCEPT !.panic = FALSE, !.etc = [d \in Directions |-> Unset]], p)

DumpFor(i, p) == IF p.v6 THEN i.source.v6 ELSE i.source.v4

\* Two rules of a chain with the same conditions and other verdicts, of which
\* the merge takes the second for an update of the first.
Contradicts(dump) ==
    \E c \in ChainNames :
        \E a, b \in {s \in ToSet(Restored(dump.filter, c)) : s.target \in DOMAIN Words} :
            /\ a.target # b.target
            /\ TupleKey(RuleFrom(a, Direction(c))) = TupleKey(RuleFrom(b, Direction(c)))

(* An accepted import (ImportIPTables) into a state without rules, as that *)
(* of --replace is, makes of a dump a state that says of each packet that  *)
(* opens a connection what the source says, through insertions, early ends *)
(* of chains, options that are left out and policies that differ.          *)
SourceKept ==
    \A i \in LastFrom("iptables") :
        Fresh(i) =>
            \A p \in New :
                DumpFor(i, p) # NoDump =>
                    \/ Contradicts(DumpFor(i, p))
                    \/ StateVerdict(st, p) =
                       SourceVerdict(DumpFor(i, p), p, StateVerdict(i.before, p))

\* Sets that are there already get the elements of firewalld's of the same name.
Grows(i) == i.kind = "firewalld" /\ DOMAIN i.before.sets \cap DOMAIN FwSets(i.source) # {}

\* The last rule of a direction is what a catchall of the policy would be, so
\* that none is appended, but it is switched off or has expired.
IdleCatchall(s, p) ==
    LET rules == RulesFor(s, p)
        last  == LastOf(rules, p.dir)
    IN /\ last # 0
       /\ MatchExact(rules[last], Catchall(p.dir, EffPol(s.policies[p.dir])))
       /\ ~Active(rules[last])

\* The source has neither a rule nor a policy for the packet's chain.
Silent(dump, p) ==
    dump # NoDump =>
        /\ Restored(dump.filter, ChainOf(p)) = <<>>
        /\ Declared(dump, ChainOf(p)) = {}

(* An import widens and narrows nothing for a family or a direction that   *)
(* the source says nothing of, whatever rules and catchalls of imports     *)
(* that came before are there (iptAppendPolicyCatchall, emit).             *)
OthersStand ==
    /\ \A i \in LastFrom("iptables"), p \in New :
          Silent(DumpFor(i, p), p) /\ (p.v6 => i.before.ipv6) /\ ~IdleCatchall(i.before, p) =>
              StateVerdict(st, p) = StateVerdict(i.before, p)
    /\ \A i \in LastFrom("firewalld"), p \in New \ Opening("in") :
          ~Grows(i) => StateVerdict(st, p) = StateVerdict(i.before, p)

(* README.md: unsupported enforcement semantics stop the import rather     *)
(* than being silently broadened or dropped.  What the source refuses the  *)
(* table that is loaded for the imported state does not let in.            *)
NothingBroadened ==
    \A i \in LastFrom("iptables") :
        Fresh(i) =>
            \A p \in New :
                /\ DumpFor(i, p) # NoDump /\ ~Contradicts(DumpFor(i, p))
                /\ ~Needed(p) /\ ~Elsewhere(p) /\ p \notin Loopback(p.dir) \cup Discovery
                /\ SourceVerdict(DumpFor(i, p), p, "accept") # "accept"
                => Judge(st, p) # "accept"

-----------------------------------------------------------------------------
(* nftables itself. *)

ExprHolds(e, p) ==
    CASE e.op = "l4proto"  -> p.proto = e.word
      [] e.op = "protocol" -> p.v6 = e.v6 /\ p.proto = e.word
      [] e.op = "nfproto"  -> p.v6 = e.v6
      [] e.op = "iifname"  -> p.iif \in NftIfaces[e.word]
      [] e.op = "oifname"  -> p.oif \in NftIfaces[e.word]
      [] e.op = "addr"     -> p.v6 = e.v6 /\ p[e.side] \in Block(e.net)
      [] e.op = "port"     -> p.proto = e.word /\ p[IF e.side = "src" THEN "sport" ELSE "dport"] \in e.lo .. e.hi
      [] e.op = "icmptype" -> p.proto = (IF e.v6 THEN "icmpv6" ELSE "icmp") /\ p.icmp = e.n
      [] OTHER             -> TRUE

\* The chains that a packet passes; nft accepts what none is for.
Passes(doc, p) == {c \in doc.chains : Hooks[c.hook] = p.dir /\ p.v6 \in Sees[c.family]}

ChainSays(doc, c, p) ==
    LET hit == SelectInSeq(doc.rules, LAMBDA r :
                   r.chain = c /\ \A k \in DOMAIN r.exprs : ExprHolds(r.exprs[k], p))
    IN IF hit # 0 THEN Last(doc.rules[hit].exprs).op
       ELSE IF c.policy = None THEN "accept" ELSE c.policy

RulesetSays(doc, p) ==
    IF Passes(doc, p) = {} THEN "accept"
    ELSE ChainSays(doc, CHOOSE c \in Passes(doc, p) : TRUE, p)

\* Rules whose conditions the importer widens or changes: an address that is
\* followed by a prefix on the same side, and a name that is a pattern in nft.
Overwritten(r) ==
    \E i, j \in DOMAIN r.exprs :
        /\ r.exprs[i].op = "addr" /\ r.exprs[j].op = "addr"
        /\ r.exprs[i].side = r.exprs[j].side /\ r.exprs[i].net # r.exprs[j].net
Pattern(r) ==
    \E i \in DOMAIN r.exprs :
        r.exprs[i].op \in {"iifname", "oifname"} /\ NftIfaces[r.exprs[i].word] # Ifaces[r.exprs[i].word]

\* Two rules of a list that the merge takes for one, with other verdicts.
Rivals(rules) ==
    \E a, b \in ToSet(rules) : TupleKey(a) = TupleKey(b) /\ a.action # b.action

\* Neither protocol of ICMP in packets of the other's family, which a rule of
\* bfw for it is not about.
OwnIcmp(p) == (p.proto = "icmp" => ~p.v6) /\ (p.proto = "icmpv6" => p.v6)

(* An accepted ruleset (ImportNFTables) of chains that cover a direction   *)
(* for one family, for both or for none, with policies and rules for       *)
(* either, says after it has been made two lists and one policy for each   *)
(* direction what it said before, whatever IPv6 and the policies were.     *)
RulesetKept ==
    \A i \in LastFrom("nftables") :
        Fresh(i) /\ (\A r \in ToSet(i.source.rules) : ~Overwritten(r) /\ ~Pattern(r)) =>
            \A v6 \in Both :
                \/ Rivals(NftRules(i.source, v6))
                \/ \A p \in {q \in New : q.v6 = v6 /\ OwnIcmp(q)} :
                      StateVerdict(st, p) = RulesetSays(i.source, p)

-----------------------------------------------------------------------------
(* firewalld itself: a packet has one zone; in a zone what denies goes     *)
(* before what accepts, and the rest is refused.                           *)

EndHolds(fw, end, addr, v6) ==
    IF end.set # NoSet
    THEN \E n \in fw.ipsets[end.set].entries : n.v6 = v6 /\ addr \in Block(n)
    ELSE end.net # NoNet => end.net.v6 = v6 /\ addr \in Block(end.net)

BoundBy(fw, b, p) ==
    /\ b.iface = AnyIface \/ p.iif \in Ifaces[b.iface]
    /\ EndHolds(fw, b.src, p.src, p.v6)

Claims(fw, p) ==
    {z \in BoundZones(fw) : \E k \in DOMAIN fw.zones[z].bindings : BoundBy(fw, fw.zones[z].bindings[k], p)}

ZoneOf(fw, p) == IF Claims(fw, p) = {} THEN fw.default ELSE CHOOSE z \in Claims(fw, p) : TRUE

HasPort(ports, port, proto) == \E q \in ports : q.proto = proto /\ port \in q.lo .. q.hi

\* Each service with its own destination.
ServiceHolds(fw, name, p) ==
    LET holds[n \in Texts] ==
            LET def == ServiceDef(fw, n)
                dst == IF p.v6 THEN def.dst6 ELSE def.dst4
            IN \/ /\ HasPort(def.ports, p.dport, p.proto) \/ p.proto \in ToSet(def.protos)
                  /\ IF dst = NoNet THEN def.dst4 = def.dst6 ELSE p.dst \in Block(dst)
               \/ \E k \in DOMAIN def.includes : holds[def.includes[k]]
    IN holds[name]

CondHolds(fw, e, what, p) ==
    CASE what = "port"        -> HasPort(e.ports, p.dport, p.proto)
      [] what = "source-port" -> HasPort(e.ports, p.sport, p.proto)
      [] what = "protocol"    -> p.proto = e.proto
      [] what = "service"     -> ServiceHolds(fw, e.name, p)
      [] what = "icmp-type"   -> p.proto = (IF p.v6 THEN "icmpv6" ELSE "icmp") /\ p.icmp = e.icmp
      [] OTHER                -> TRUE

ElemHolds(fw, e, p) ==
    IF e.kind # "rule" THEN CondHolds(fw, e, e.kind, p)
    ELSE /\ p.v6 \in e.families
         /\ EndHolds(fw, e.src, p.src, p.v6) /\ EndHolds(fw, e.dst, p.dst, p.v6)
         /\ CondHolds(fw, e, e.match, p)

Denies(e) == e.kind = "rule" /\ e.verdict # "accept"

\* What policies and zones say of a packet that comes in.
PolicyLetsIn(fw, p) ==
    \E pol \in Range(fw.policies) : \E k \in DOMAIN pol.rules :
        p.v6 /\ p.proto = "icmpv6" /\ p.icmp = pol.rules[k].icmp

ZoneElems(fw, p, deny) ==
    {e \in ToSet(fw.zones[ZoneOf(fw, p)].elems) : Denies(e) = deny /\ ElemHolds(fw, e, p)}

LetsIn(fw, p) ==
    \/ PolicyLetsIn(fw, p)
    \/ ZoneElems(fw, p, TRUE) = {} /\ ZoneElems(fw, p, FALSE) # {}

\* firewalld has rules of its own for ICMP that its configuration says nothing of.
Mentioned(fw, p) ==
    p.proto \in {"tcp", "udp"} \/ PolicyLetsIn(fw, p) \/ ZoneElems(fw, p, TRUE) \cup ZoneElems(fw, p, FALSE) # {}

\* Where the importer departs from firewalld: what an element accepts before
\* another one denies, packets that the default zone has because no zone
\* claims them, services that include one with another destination, and an
\* interface that names of two zones stand for, as "eth+" and "eth0" do.
DeniedLate(fw, z) ==
    LET elems == fw.zones[z].elems IN
    \E i, j \in DOMAIN elems : i < j /\ ~Denies(elems[i]) /\ Denies(elems[j])
Unclaimed(fw, p) == BoundZones(fw) # {} /\ Claims(fw, p) = {}
OneDestination(fw) ==
    \A def \in Range(fw.services) : \A k \in DOMAIN def.includes :
        LET sub == Resolved(fw, def.includes[k]) IN sub.dst4 = def.dst4 /\ sub.dst6 = def.dst6
TwoNames(fw) ==
    \E y, z \in BoundZones(fw) : y # z /\
        \E a \in ToSet(fw.zones[y].bindings), b \in ToSet(fw.zones[z].bindings) :
            /\ a.iface # b.iface /\ AnyIface \notin {a.iface, b.iface}
            /\ Ifaces[a.iface] \cap Ifaces[b.iface] # {}

\* No protocol in packets of a family that does not have it.
OwnProto(p) == p.proto \in DOMAIN FwProtos => p.v6 \in FwProtos[p.proto]

(* An accepted configuration (importFirewalld) lets in after the import    *)
(* what it let in before and no more, through bindings that are ored and   *)
(* sources that are intersected, services and what they include, sets of   *)
(* one family, and a vendor's tree that the machine's lies over.           *)
ZonesKept ==
    \A i \in LastFrom("firewalld") :
        /\ Fresh(i) /\ ~Grows(i) /\ i.before.policies["in"] # "allow"
        /\ OneDestination(i.source) /\ ~TwoNames(i.source)
        => \A v6 \in Both :
                \/ Rivals(FwRules(i.source, v6))
                \/ \A p \in {q \in Opening("in") : q.v6 = v6 /\ OwnProto(q)} :
                      /\ Mentioned(i.source, p) /\ ~Unclaimed(i.source, p)
                      /\ ~DeniedLate(i.source, ZoneOf(i.source, p))
                      => (StateVerdict(st, p) = "accept") = LetsIn(i.source, p)

-----------------------------------------------------------------------------
Incoming(i, v6) ==
    CASE i.kind = "iptables"  -> Read(IF v6 THEN i.source.v6 ELSE i.source.v4, v6).rules
      [] i.kind = "nftables"  -> NftRules(i.source, v6)
      [] i.kind = "firewalld" -> FwRules(i.source, v6)

(* A rule that decided before an import decides after it as it did, unless *)
(* the source has a rule of the very same conditions (mergeRules): nothing *)
(* that comes in goes before it or takes its place.                        *)
EarlierRulesStand ==
    \A i \in LastImport : ~Grows(i) =>
        \A v6 \in Both :
            LET keys == {TupleKey(r) : r \in ToSet(Incoming(i, v6))} IN
            \A p \in {q \in New : q.v6 = v6 /\ FirstMatch(i.before, q) # 0} :
                \/ TupleKey(RulesFor(i.before, p)[FirstMatch(i.before, p)]) \in keys
                \/ StateVerdict(st, p) = StateVerdict(i.before, p)
=============================================================================
