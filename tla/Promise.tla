------------------------------ MODULE Promise -------------------------------
(***************************************************************************)
(* What a packet filter promises, whatever its tables look like: a packet  *)
(* that arrives gets the verdict that the state in force calls for.        *)
(***************************************************************************)
CONSTANTS Packets,      \* packets that may arrive
          States,       \* states that may be in force
          Installed,    \* the one of them that is so at first
          NoPacket,     \* no packet is being judged
          Judge(_, _)   \* the verdict that a state calls for on a packet

VARIABLES st,      \* the state in force
          pkt,     \* the packet to judge, or NoPacket
          verdict  \* its verdict, or "none"

vars == <<st, pkt, verdict>>

Init == st = Installed /\ pkt = NoPacket /\ verdict = "none"

\* Another state takes force, between two packets.
Commit(s) ==
    /\ pkt = NoPacket
    /\ st' = s
    /\ UNCHANGED <<pkt, verdict>>

Arrive(p) ==
    /\ pkt = NoPacket
    /\ pkt' = p
    /\ UNCHANGED <<st, verdict>>

Decide ==
    /\ pkt # NoPacket /\ verdict = "none"
    /\ verdict' = Judge(st, pkt)
    /\ UNCHANGED <<st, pkt>>

Leave ==
    /\ verdict # "none"
    /\ pkt' = NoPacket /\ verdict' = "none"
    /\ UNCHANGED st

Next ==
    \/ \E s \in States : Commit(s)
    \/ \E p \in Packets : Arrive(p)
    \/ Decide
    \/ Leave

Spec == Init /\ [][Next]_vars
=============================================================================
