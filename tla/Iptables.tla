------------------------------ MODULE Iptables ------------------------------
(***************************************************************************)
(* The import of what iptables-save and ip6tables-save wrote: the rules of *)
(* the filter tables become user rules, the policies of their chains the   *)
(* stored ones, and what bfw has no rule for refuses the whole import.  A  *)
(* state is read here as its rules, its policies and IPv6.                 *)
(***************************************************************************)
EXTENDS Merge

CONSTANT NoDump  \* the file is not there

ChainNames == {"INPUT", "OUTPUT", "FORWARD"}

\* What a dump says: a policy or a rule in each line of the filter table.
Specs == [p : Texts, src : Nets \cup {NoNet}, dst : Nets \cup {NoNet}, iif : Texts, oif : Texts,
          sports : SUBSET [lo : Nat, hi : Nat], dports : SUBSET [lo : Nat, hi : Nat],
          mods : SUBSET Texts, icmp : Int, icmp6 : BOOLEAN, ct : Texts, with : Texts,
          target : Texts, odd : BOOLEAN]
Lines == [op : {":", "A", "I"}, chain : ChainNames, pos : Nat, policy : Texts, spec : Specs]
Dumps == [othertables : BOOLEAN, filter : Seq(Lines)]

\* The direction of a chain of the filter table.
Direction(chain) ==
    CASE chain = "INPUT"   -> "in"
      [] chain = "OUTPUT"  -> "out"
      [] chain = "FORWARD" -> "routed"

-----------------------------------------------------------------------------
(* The lines of a table: policies of chains, and rules appended to a chain *)
(* or inserted at a place in it.                                           *)

NoTable == [ok |-> TRUE, order |-> <<>>, policy |-> [c \in ChainNames |-> None],
            rules |-> [c \in ChainNames |-> <<>>]]

\* The same, had an insertion counted from 0.
ParseLineFromZero(t, line) ==
    LET known == [t EXCEPT !.order = IF line.chain \in ToSet(@) THEN @ ELSE Append(@, line.chain)]
        rules == t.rules[line.chain]
        pos   == IF line.op = "A" THEN Len(rules) + 1 ELSE line.pos + 1
    IN IF line.op = ":"
       THEN [known EXCEPT !.ok = @ /\ t.policy[line.chain] = None,
                          !.policy[line.chain] = line.policy]
       ELSE IF pos \in 1 .. Len(rules) + 1
       THEN [known EXCEPT !.rules[line.chain] = InsertAt(@, pos, line.spec)]
       ELSE [known EXCEPT !.ok = FALSE]

ParseLine(t, line) ==
    LET known == [t EXCEPT !.order = IF line.chain \in ToSet(@) THEN @ ELSE Append(@, line.chain)]
        rules == t.rules[line.chain]
        pos   == IF line.op = "A" THEN Len(rules) + 1 ELSE line.pos
    IN IF line.op = ":"
       THEN [known EXCEPT !.ok = @ /\ t.policy[line.chain] = None,
                          !.policy[line.chain] = line.policy]
       ELSE IF pos \in 1 .. Len(rules) + 1
       THEN [known EXCEPT !.rules[line.chain] = InsertAt(@, pos, line.spec)]
       ELSE [known EXCEPT !.ok = FALSE]

ParseSave(dump) == FoldLeft(ParseLine, NoTable, dump.filter)

-----------------------------------------------------------------------------
(* One rule.  Its options are the fields of a spec; "odd" says that one of *)
(* them is of those that are refused whatever the others are.              *)

Protos == {"tcp", "udp", "ah", "esp", "gre", "vrrp", "igmp", "icmp", "ipv6", "icmpv6"}
ProtoModules == {"tcp", "udp", "icmp", "icmpv6"}
Verdicts4 == [ACCEPT |-> "allow", DROP |-> "deny", REJECT |-> "reject"]

ProtoOf(spec) == IF spec.p \in {None, "all"} THEN "any" ELSE spec.p
Iface(name) == IF name = "+" THEN AnyIface ELSE name

\* Whether the rule has a condition other than the state of its connection.
Matched(spec) ==
    \/ spec.p # None \/ spec.iif # AnyIface \/ spec.oif # AnyIface
    \/ spec.src # NoNet \/ spec.dst # NoNet
    \/ spec.sports \cup spec.dports # {}
    \/ spec.icmp # AnyType

AddrFits(net, v6) == net # NoNet => net.v6 = v6

\* Each option by itself.
OptionsFit(spec, v6) ==
    /\ ~spec.odd
    /\ spec.p \in {None, "all"} \cup Protos
    /\ AddrFits(spec.src, v6) /\ AddrFits(spec.dst, v6)
    /\ spec.target \in {None, "ACCEPT", "DROP", "REJECT", "RETURN"}

\* What options ask of one another.
ModulesFit(spec) == \A m \in spec.mods \cap ProtoModules : m = spec.p
IcmpFits(spec) ==
    spec.icmp # AnyType => spec.p = IF spec.icmp6 THEN "icmpv6" ELSE "icmp"
PortsFit(spec) == spec.sports \cup spec.dports # {} => spec.p \in {"tcp", "udp"}
RejectFits(spec) ==
    spec.with # None => spec.target = "REJECT" /\ spec.with = "port-unreachable"

Supported(spec, v6) ==
    /\ OptionsFit(spec, v6)
    /\ ModulesFit(spec) /\ IcmpFits(spec) /\ PortsFit(spec)

\* The one condition on connections that bfw has, for what is open already,
\* which it has before all of the user's rules.
Preamble(spec, first) ==
    /\ "conntrack" \in spec.mods /\ spec.ct = "RELATED,ESTABLISHED"
    /\ spec.target = "ACCEPT" /\ ~Matched(spec)
    /\ first

RuleFrom(spec, dir) ==
    [PlainRule(Verdicts4[spec.target], dir) EXCEPT
        !.iif = Iface(spec.iif), !.oif = Iface(spec.oif), !.proto = ProtoOf(spec), !.icmp = spec.icmp,
        !.src = Endpoint(spec.src, spec.sports, ProtoOf(spec)),
        !.dst = Endpoint(spec.dst, spec.dports, ProtoOf(spec))]

\* What becomes of a rule: an error, the end of its chain, nothing, or a rule.
Outcome(spec, v6, first) ==
    CASE ~Supported(spec, v6) -> "error"
      [] Supported(spec, v6) /\ spec.ct # None ->
            IF Preamble(spec, first) THEN "nothing" ELSE "error"
      [] Supported(spec, v6) /\ spec.ct = None ->
            CASE ~RejectFits(spec)        -> "error"
              [] spec.target = None         -> "nothing"
              [] spec.target = "RETURN"   -> IF Matched(spec) THEN "error" ELSE "return"
              [] OTHER                    -> "rule"

\* One more rule of a chain; what comes after an unconditional RETURN is left out.
NextRule(acc, spec, dir, v6) ==
    LET outcome == Outcome(spec, v6, acc.rules = <<>>) IN
    IF acc.over THEN acc
    ELSE [ok    |-> acc.ok /\ outcome # "error",
          over  |-> outcome = "return",
          rules |-> IF outcome = "rule" THEN Append(acc.rules, RuleFrom(spec, dir)) ELSE acc.rules]

ChainRules(specs, dir, v6) ==
    FoldLeft(LAMBDA acc, spec : NextRule(acc, spec, dir, v6),
             [ok |-> TRUE, over |-> FALSE, rules |-> <<>>], specs)

PolicyWords == [ACCEPT |-> "allow", DROP |-> "deny", REJECT |-> "reject"]

\* One dump: its rules, chain by chain, and the policies that it declares.
Stream(dump, v6) ==
    LET t == ParseSave(dump)
        chain(c) == ChainRules(t.rules[c], Direction(c), v6)
    IN [ok       |-> /\ t.ok /\ ~dump.othertables
                     /\ \A c \in ChainNames : /\ chain(c).ok
                                              /\ t.policy[c] \in {None, "-"} \cup DOMAIN PolicyWords,
        rules    |-> FlattenSeq([i \in DOMAIN t.order |-> chain(t.order[i]).rules]),
        policies |-> [c \in {d \in ChainNames : t.policy[d] \in DOMAIN PolicyWords}
                        |-> PolicyWords[t.policy[c]]]]

NoStream == [ok |-> TRUE, rules |-> <<>>, policies |-> <<>>]
Read(dump, v6) == IF dump = NoDump THEN NoStream ELSE Stream(dump, v6)

-----------------------------------------------------------------------------
(* The merge. *)

PolicyRank(p) == CASE p = "deny" -> 3 [] p = "reject" -> 2 [] OTHER -> 1
EffPol(p) == IF p \in {"allow", "deny", "reject"} THEN p ELSE "deny"

\* A rule for every packet of a direction.
Catchall(dir, policy) == [PlainRule(policy, dir) EXCEPT !.comment = policy]

LastOf(rules, dir) == SelectLastInSeq(rules, LAMBDA r : r.dir = dir)

\* It is appended unless it is the last one of its direction already.
PolicyCatchall(rules, dir, policy) ==
    LET nr   == Catchall(dir, policy)
        last == LastOf(rules, dir)
    IN IF last # 0 /\ MatchExact(rules[last], nr) THEN rules ELSE Append(rules, nr)

\* The same, had a family that declares nothing taken the other one's policy.
WithPolicyDeclared(s, chain, four, six) ==
    LET d    == Direction(chain)
        eff4 == IF chain \in DOMAIN four.policies THEN four.policies[chain] ELSE EffPol(s.policies[d])
        eff6 == IF chain \in DOMAIN six.policies THEN six.policies[chain] ELSE eff4
        base == IF s.ipv6 /\ PolicyRank(eff6) > PolicyRank(eff4) THEN eff6 ELSE eff4
    IN [s EXCEPT !.policies[d] = base,
                 !.rules4 = IF eff4 # base THEN PolicyCatchall(@, d, eff4) ELSE @,
                 !.rules6 = IF s.ipv6 /\ eff6 # base THEN PolicyCatchall(@, d, eff6) ELSE @]

\* Policies are for both families: the stricter of the two is stored, and the
\* other family gets its own as its last rule.
WithPolicy(s, chain, four, six) ==
    LET d    == Direction(chain)
        eff4 == IF chain \in DOMAIN four.policies THEN four.policies[chain] ELSE EffPol(s.policies[d])
        eff6 == IF chain \in DOMAIN six.policies THEN six.policies[chain] ELSE EffPol(s.policies[d])
        base == IF s.ipv6 /\ PolicyRank(eff6) > PolicyRank(eff4) THEN eff6 ELSE eff4
    IN [s EXCEPT !.policies[d] = base,
                 !.rules4 = IF eff4 # base THEN PolicyCatchall(@, d, eff4) ELSE @,
                 !.rules6 = IF s.ipv6 /\ eff6 # base THEN PolicyCatchall(@, d, eff6) ELSE @]

Merged(s, d4, d6) ==
    LET four == Read(d4, FALSE)
        six  == Read(d6, TRUE)
        joined == [s EXCEPT !.rules4 = MergeRules(@, four.rules),
                            !.rules6 = MergeRules(@, six.rules),
                            !.ipv6 = @ \/ d6 # NoDump]
        input  == WithPolicy(joined, "INPUT", four, six)
        output == WithPolicy(input, "OUTPUT", four, six)
    IN WithPolicy(output, "FORWARD", four, six)

Empty(s) == s.rules = <<>> /\ DOMAIN s.policies = {}

Refused(d4, d6) ==
    LET four == Read(d4, FALSE)
        six  == Read(d6, TRUE)
    IN ~four.ok \/ ~six.ok \/ (Empty(four) /\ Empty(six))
=============================================================================
