------------------------------- MODULE Ruleset -------------------------------
(***************************************************************************)
(* What better-firewall stores and what the kernel holds, and the pure     *)
(* functions between the two: the defaults, the lazy expiry sweep, the     *)
(* import of a document and the compilation of a state into the managed    *)
(* tables.  Rules, NAT rules and threat bans are opaque identities; the    *)
(* three traffic directions are represented by one, whose default policy   *)
(* at installation is InstallPolicy ("deny" for input and forward,         *)
(* "allow" for output).                                                    *)
(***************************************************************************)

CONSTANTS Rule,          \* filter rules (rules4 and rules6)
          NATRule,       \* nat rules
          Ban,           \* threat bans
          Uncompilable,  \* rules compile() rejects, e.g. a lookup in no set
          InstallPolicy  \* policy of the modelled direction at installation

Policy == {"allow", "deny"}

ASSUME RulesetAssumption ==
  /\ Uncompilable \subseteq Rule
  /\ InstallPolicy \in Policy

(* rules.json *)
State == [rules : SUBSET Rule, nat : SUBSET NATRule, bans : SUBSET Ban,
          policy : Policy, panic : BOOLEAN]

Defaults == [rules |-> {}, nat |-> {}, bans |-> {},
             policy |-> InstallPolicy, panic |-> FALSE]

(* sweepExpired drops the expired rules and bans before every commit. *)
Sweep(st, expired) ==
  [st EXCEPT !.rules = @ \ expired, !.bans = @ \ expired]

(* An export document.  import-ufw's has no panic field, and a document    *)
(* written by hand may leave out the policies too.                         *)
Document == [rules : SUBSET Rule, nat : SUBSET NATRule, bans : SUBSET Ban,
             policy : Policy \cup {"absent"}, panic : {"on", "off", "absent"}]

(* A mutant of Import: the rules end up in the list of bans. *)
ImportMixed(st, doc, replace) ==
  LET base == IF replace THEN Defaults ELSE st IN
  [rules  |-> base.rules, nat |-> base.nat \cup doc.nat,
   bans   |-> base.bans \cup doc.rules,
   policy |-> IF doc.policy = "absent" THEN base.policy ELSE doc.policy,
   panic  |-> IF doc.panic = "absent" THEN base.panic ELSE doc.panic = "on"]

(* The document is merged into the state, or into the defaults to replace  *)
(* it; what it leaves out stays.                                           *)
Import(st, doc, replace) ==
  LET base == IF replace THEN Defaults ELSE st IN
  [rules  |-> base.rules \cup doc.rules,
   nat    |-> base.nat \cup doc.nat,
   bans   |-> base.bans \cup doc.bans,
   policy |-> IF doc.policy = "absent" THEN base.policy ELSE doc.policy,
   panic  |-> IF doc.panic = "absent" THEN base.panic ELSE doc.panic = "on"]

(* The table inet better-firewall.  "frags" says that the administrator's  *)
(* before/after fragments are loaded in it.                                *)
Table == [loaded : BOOLEAN, drop : BOOLEAN, policy : Policy,
          rules : SUBSET Rule, bans : SUBSET Ban, frags : BOOLEAN]

NoTable == [loaded |-> FALSE, drop |-> FALSE, policy |-> "allow",
            rules |-> {}, bans |-> {}, frags |-> FALSE]

Compiles(st) == st.panic \/ st.rules \cap Uncompilable = {}

(* Panic compiles to bare drop chains.  Otherwise the policy is the one of *)
(* /etc/default/better-firewall, which EtcDefaults always has, and the     *)
(* expired rules and bans are left out.                                    *)
CompileInet(st, etc, expired) ==
  [loaded |-> TRUE,
   drop   |-> st.panic,
   policy |-> IF st.panic THEN "deny" ELSE etc,
   rules  |-> IF st.panic THEN {} ELSE st.rules \ expired,
   bans   |-> IF st.panic THEN {} ELSE st.bans \ expired,
   frags  |-> FALSE]

(* The tables ip/ip6 better-firewall-nat; {} when none is compiled. *)
CompileNAT(st) == IF st.panic THEN {} ELSE st.nat
=============================================================================
