----------------------------- MODULE MCFirewall -----------------------------
(* Instances of Firewall for TLC. *)
EXTENDS FirewallInv, TLC

CONSTANTS p1, p2, r1, r2, n1, b1

(* A document that carries a rule, a NAT rule and an open policy and says  *)
(* nothing of panic; and one exported from an empty firewall in its        *)
(* installation state.                                                     *)
FullDoc  == [rules |-> {r1}, nat |-> {n1}, bans |-> {}, policy |-> "allow",
             panic |-> "absent"]
EmptyDoc == [rules |-> {}, nat |-> {}, bans |-> {}, policy |-> "deny",
             panic |-> "off"]

MCDocs   == {FullDoc, EmptyDoc}

Procs == Permutations(Proc)

(* The commands that end in commitState, and those that load and unload.   *)
CommitOps == {"rule", "threat", "sweep",
              "enable", "disable", "reload", "bootLoad", "bootUnload"}

AnyFault    == Step \cup {"kill", "reboot"}
ApplyFaults == {"apply", "fragments", "flush", "reboot"}
=============================================================================
