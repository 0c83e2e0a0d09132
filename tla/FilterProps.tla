----------------------------- MODULE FilterProps -----------------------------
(***************************************************************************)
(* What the compiled table and the warnings of "bfw check" are to be.      *)
(***************************************************************************)
EXTENDS Filter, Check, Verdicts

(* What the theorems about these properties suppose of the states.         *)

\* mergeIntervals loses or repeats what touches a network up to the top.
SetsApart ==
    \A s \in States : /\ TopApart(s.bans)
                      /\ \A name \in DOMAIN s.sets : TopApart(s.sets[name])

\* Ports go with tcp and udp, and each side that has ports has some of every
\* protocol its rule is compiled for: portExprs matches every port otherwise,
\* as in a rule of two applications of different protocols.  A type of ICMP
\* goes with a protocol.
PortsFit ==
    \A s \in States : \A r \in RulesOf(s) :
        /\ r.icmp # AnyType => r.proto # "any"
        /\ \A ports \in {r.src.ports, r.dst.ports} \ {{}} :
             /\ r.proto \in {"any", "tcp", "udp"}
             /\ \A proto \in ToSet(ProtoVariants(r)) : \E q \in ports : q.proto \in {"any", proto}

\* AddrSuperset does not look at the ports of a side that names a set.
SetsAlone ==
    \A s \in States : \A r \in RulesOf(s) :
        \A end \in {r.src, r.dst} : end.set # NoSet => end.ports = {}

(* The chains (compile) give each packet the verdict of the first rule, or *)
(* of the policy, and no other.                                            *)
Abstract == INSTANCE Promise
KeepsPromise == Abstract!Spec

(* A ban (addThreatBanRules) ends the connections that its addresses have  *)
(* open, coming in or passing through, and no rule of the user lets one in.*)
BansCutFlows ==
    /\ verdict = "accept"
    /\ pkt.dir # "out" /\ pkt \notin Loopback(pkt.dir)
    => ~\E n \in st.bans : n.v6 = pkt.v6 /\ pkt.src \in Block(n)

(* What compile puts into its interval sets never overlaps, or the kernel  *)
(* refuses the whole batch (compileAddressSet, mergeIntervals).            *)
BatchLoads ==
    \A v6 \in BOOLEAN :
        /\ Loadable(Elements(st.bans, v6))
        /\ \A name \in DOMAIN st.sets : Loadable(Elements(st.sets[name], v6))

(* A rule that check reports as shadowed (ruleSuperset) never is the one   *)
(* that decides on a packet, so that it can be deleted.                    *)
ShadowedNeverDecides ==
    pkt # NoPacket =>
        \A j \in {FirstMatch(st, pkt)} \ {0} :
            ~Shadowed(RulesFor(st, pkt), j)

(* When check warns of a lockout, nobody new comes in by ssh: the warning  *)
(* is never idle while /etc/default agrees with the stored policy.         *)
LockoutIsReal ==
    /\ LockoutRisk(st)
    /\ st.etc["in"] \in {Unset, st.policies["in"]}
    /\ verdict = "accept"
    /\ pkt.dir = "in" /\ pkt.ct = "new" /\ pkt.proto = "tcp" /\ pkt.dport = SshPort
    => pkt \in Loopback("in")

-----------------------------------------------------------------------------
(* The inductive invariant behind them: what is known of a packet on its   *)
(* way through the chains, of one that is in a chain, of one that a chain  *)
(* let go, and of the rules before the one that is next.                   *)

\* No panic, and IPv6 is on for one of its packets.
LetOn(s, p) == ~s.panic /\ (p.v6 => IPv6On(s))

\* Nothing that the before chains look at decides, so that users have a say.
Undecided(s, p) ==
    /\ ~s.panic
    /\ p \notin Loopback(p.dir) /\ ~Forbidden(s, p) /\ ~Open(p)
    /\ ~(p.dir = "in" /\ p.ct = "invalid")
    /\ ~Needed(p)

PastBefore(s, p) ==
    /\ Undecided(s, p)
    /\ ~Elsewhere(p)
    /\ ~(p.dir = "in" /\ p \in Discovery)

\* What a packet is that is in a chain.
Within(s, p, chain) ==
    CASE chain[1] = "base" -> chain[2] = p.dir
      [] chain[1] \in {"before-logging", "before"} -> chain[2] = p.dir /\ LetOn(s, p)
      [] chain[1] = "user" -> chain[2] = p.dir /\ PastBefore(s, p)
      [] chain[1] \in {"after", "after-logging", "reject", "skip-to-policy"} ->
           chain[2] = p.dir /\ PastBefore(s, p) /\ FirstMatch(s, p) = 0
      [] chain[1] = "track" ->
           /\ chain[2] = p.dir /\ PastBefore(s, p) /\ FirstMatch(s, p) = 0
           /\ Policy(s, p.dir) # "reject"
      [] chain[1] = "not-local" -> p.dir = "in" /\ ~p.v6 /\ Undecided(s, p)
      [] chain[1] = "user-limit" -> Judge(s, p) = "reject"
      [] chain[1] = "user-limit-accept" -> Judge(s, p) = "accept"
      [] chain[1] \in {"logging-deny", "user-logging", "user-egress"} -> TRUE

\* What a packet is that comes back from a chain.
LetGo(s, p, chain) ==
    CASE chain[1] = "before" -> PastBefore(s, p)
      [] chain[1] = "user" -> FirstMatch(s, p) = 0
      [] chain[1] = "not-local" -> ~Elsewhere(p)
      [] chain[1] = "reject" -> Policy(s, p.dir) # "reject"
      [] chain[1] \in {"skip-to-policy", "user-limit", "user-limit-accept"} -> FALSE
      [] OTHER -> TRUE

\* The rules before the n-th one neither decided on the packet nor kept it.
Through(s, p, chain, n) ==
    \A j \in 1 .. n - 1 :
        LET rule == Chain(s, chain)[j] IN
        p \in rule.on => \/ rule.do = "log"
                         \/ rule.do = "jump" /\ LetGo(s, p, rule.to)

\* A chain that is waiting for another one jumped to it with the rule before
\* the next.
Fits(s, p, fs) ==
    \A k \in 1 .. Len(fs) :
        LET f == fs[k] IN
        /\ Within(s, p, f.chain)
        /\ k = Len(fs) => Through(s, p, f.chain, f.next)
        /\ k < Len(fs) =>
             /\ f.next \in 2 .. Len(Chain(s, f.chain)) + 1
             /\ Through(s, p, f.chain, f.next - 1)
             /\ Chain(s, f.chain)[f.next - 1].do = "jump"
             /\ Chain(s, f.chain)[f.next - 1].to = fs[k + 1].chain

WalkInv ==
    /\ st \in States
    /\ pkt \in Packets \cup {NoPacket}
    /\ frames \in Seq([chain : Chains, next : Nat \ {0}])
    /\ pkt = NoPacket => frames = <<>> /\ verdict = "none"
    /\ frames # <<>> => /\ verdict = "none"
                        /\ frames[1].chain = <<"base", pkt.dir>>
                        /\ Fits(st, pkt, frames)
    /\ pkt # NoPacket /\ frames = <<>> => verdict = Judge(st, pkt)
=============================================================================
