-------------------------------- MODULE Merge --------------------------------
(***************************************************************************)
(* How imported rules join those that are there: what tells two rules of a *)
(* list apart, and what becomes of one that is there already.              *)
(***************************************************************************)
EXTENDS Compile

CONSTANT Texts  \* the strings that states and sources are made of

None == ""  \* no text, no option, no policy

ASSUME TextsAssumption ==
    {None, NoSet, AnyIface, "any", "allow", "deny", "reject", "log-all", "tcp", "udp", "icmp", "icmpv6"}
        \subseteq Texts

PortRanges == [lo : Nat, hi : Nat, proto : Texts]
Ends == [net : Nets \cup {NoNet}, set : Texts, ports : SUBSET PortRanges]

\* What lists are made of, and what importers make.
Listed ==
    [action : Texts, dir : Directions, iif : Texts, oif : Texts, proto : Texts,
     icmp : Int, src : Ends, dst : Ends, log : Texts, dapp : Texts, sapp : Texts,
     comment : Texts, disabled : BOOLEAN, expired : BOOLEAN]

\* Those that name no other sets than these.
Naming(names) == {r \in Listed : {r.src.set, r.dst.set} \subseteq names \cup {NoSet}}

\* A stored state, whose rules name sets that are there.
StateFields ==
    {"panic", "policies", "etc", "ipv6", "etcIPv6", "logging", "rules4", "rules6", "bans", "sets"}
IsState(s) ==
    /\ s = [f \in StateFields |-> s[f]]
    /\ s.policies \in [Directions -> Texts] /\ s.ipv6 \in BOOLEAN
    /\ s.rules4 \in Seq(Naming(DOMAIN s.sets)) /\ s.rules6 \in Seq(Naming(DOMAIN s.sets))

Endpoint(net, ports, proto) ==
    [net |-> net, set |-> NoSet, ports |-> {[lo |-> q.lo, hi |-> q.hi, proto |-> proto] : q \in ports}]

\* A rule without a condition.
PlainRule(action, dir) ==
    [action |-> action, dir |-> dir, iif |-> AnyIface, oif |-> AnyIface, proto |-> "any",
     icmp |-> AnyType, src |-> Endpoint(NoNet, {}, "any"), dst |-> Endpoint(NoNet, {}, "any"),
     log |-> None, dapp |-> None, sapp |-> None, comment |-> None, disabled |-> FALSE, expired |-> FALSE]

\* What tells rules of a list apart, and what makes two of them the same.
TupleKey(r) == [r EXCEPT !.action = None, !.log = None, !.comment = None, !.disabled = FALSE, !.expired = FALSE]
MatchExact(a, b) ==
    TupleKey(a) = TupleKey(b) /\ a.action = b.action /\ a.log = b.log /\ a.comment = b.comment

\* The same, had rules of different interfaces been taken for one.
MergeRuleAnyIface(rules, nr) ==
    LET j == SelectInSeq(rules, LAMBDA r : TupleKey([r EXCEPT !.iif = nr.iif]) = TupleKey(nr)) IN
    IF j = 0 THEN Append(rules, nr)
    ELSE IF MatchExact(rules[j], nr) THEN rules
    ELSE [rules EXCEPT ![j] = [nr EXCEPT !.disabled = rules[j].disabled,
                                         !.expired = rules[j].expired]]

MergeRule(rules, nr) ==
    LET j == SelectInSeq(rules, LAMBDA r : TupleKey(r) = TupleKey(nr)) IN
    IF j = 0 THEN Append(rules, nr)
    ELSE IF MatchExact(rules[j], nr) THEN rules
    ELSE [rules EXCEPT ![j] = [nr EXCEPT !.disabled = rules[j].disabled,
                                         !.expired = rules[j].expired]]

MergeRules(rules, src) == FoldLeft(MergeRule, rules, src)
=============================================================================
