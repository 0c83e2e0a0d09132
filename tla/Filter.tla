------------------------------- MODULE Filter -------------------------------
(***************************************************************************)
(* The kernel walking the compiled table, one packet at a time: the rules  *)
(* of a chain in order, a jump into another chain and back from its end,   *)
(* and the policy of the base chain when no rule decided.                  *)
(***************************************************************************)
EXTENDS Compile

CONSTANTS States,    \* stored states that may be in force
          Installed, \* the state of a fresh installation
          NoPacket   \* no packet is in the table

\* A set has finitely many networks, and a rule names sets that there are.
StatesAssumption ==
    /\ Installed \in States
    /\ \A s \in States :
          /\ s.panic \in BOOLEAN /\ s.logging \in Levels
          /\ s.rules4 \in Seq(Rules) /\ s.rules6 \in Seq(Rules)
          /\ s.bans \in SUBSET Nets /\ IsFiniteSet(s.bans)
          /\ \A name \in DOMAIN s.sets : /\ s.sets[name] \in SUBSET Nets
                                        /\ IsFiniteSet(s.sets[name])
          /\ \A r \in RulesOf(s) : {r.src.set, r.dst.set} \subseteq {NoSet} \cup DOMAIN s.sets
ASSUME StatesAssumption

\* A packet is of one family and comes to one hook.
PacketsAssumption ==
    /\ NoPacket \notin Packets
    /\ \A p \in Packets : /\ p.dir \in Directions /\ p.v6 \in BOOLEAN
                         /\ p.cast \in {"local", "multicast", "broadcast", "other"}
ASSUME PacketsAssumption

VARIABLES st,       \* the state whose table is loaded
          pkt,      \* the packet that is walked, or NoPacket
          frames,   \* the chains it is in, each with the rule that is next
          verdict   \* its verdict, or "none"

vars == <<st, pkt, frames, verdict>>

Init ==
    /\ st = Installed
    /\ pkt = NoPacket /\ frames = <<>> /\ verdict = "none"

\* A batch replaces the table; a packet meets the old one or the new one.
Commit(s) ==
    /\ pkt = NoPacket
    /\ st' = s
    /\ UNCHANGED <<pkt, frames, verdict>>

\* A packet comes to the hook of its direction.
Arrive(p) ==
    /\ pkt = NoPacket
    /\ pkt' = p
    /\ frames' = <<[chain |-> <<"base", p.dir>>, next |-> 1]>>
    /\ UNCHANGED <<st, verdict>>

-----------------------------------------------------------------------------
Depth == Len(frames)
Below == SubSeq(frames, 1, Depth - 1)

\* The first rule of a chain, from one on, that matches; none or one.
FirstHit(rules, from) ==
    {[do |-> rules[i].do, to |-> rules[i].to, next |-> i + 1] :
        i \in {i \in from .. Len(rules) :
                 /\ pkt \in rules[i].on
                 /\ \A j \in from .. i - 1 : pkt \notin rules[j].on}}

Decided(v) ==
    /\ verdict' = v
    /\ frames' = <<>>
    /\ UNCHANGED <<st, pkt>>

\* Back to the rule after the jump.
Back ==
    /\ Depth > 1
    /\ frames' = Below
    /\ UNCHANGED <<st, pkt, verdict>>

\* The rule that matches does what it says.
Match(rule) ==
    LET onward == Append(Below, [frames[Depth] EXCEPT !.next = rule.next]) IN
    \/ /\ rule.do \in {"accept", "drop", "reject"}
       /\ Decided(rule.do)
    \/ /\ rule.do = "jump"
       /\ frames' = Append(onward, [chain |-> rule.to, next |-> 1])
       /\ UNCHANGED <<st, pkt, verdict>>
    \/ /\ rule.do = "log"
       /\ frames' = onward
       /\ UNCHANGED <<st, pkt, verdict>>
    \/ /\ rule.do = "return"
       /\ Back

Walk ==
    /\ frames # <<>>
    /\ \E hits \in {FirstHit(Chain(st, frames[Depth].chain), frames[Depth].next)} :
          \/ \E rule \in hits : Match(rule)
          \/ hits = {} /\ Back
          \/ hits = {} /\ Depth = 1 /\ Decided(ChainPolicy(st, pkt.dir))

Leave ==
    /\ verdict # "none"
    /\ pkt' = NoPacket /\ verdict' = "none"
    /\ UNCHANGED <<st, frames>>

Next ==
    \/ \E s \in States : Commit(s)
    \/ \E p \in Packets : Arrive(p)
    \/ Walk
    \/ Leave

Spec == Init /\ [][Next]_vars
=============================================================================
