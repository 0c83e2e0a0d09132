------------------------------ MODULE Importers ------------------------------
(***************************************************************************)
(* The imports of other firewalls into the stored state.  A state is read  *)
(* here as its rules, its sets, its policies and IPv6.  Which command      *)
(* imports, and what it does before and after, is in Migrate.              *)
(***************************************************************************)
EXTENDS Iptables, Nftables, Firewalld

CONSTANTS Stored,    \* states that may be there before
          Defaults,  \* the state that --replace and reset begin with
          Dumps4,    \* what rules.v4 of iptables-persistent may hold
          Dumps6,    \* what rules.v6 may hold
          Rulesets,  \* what nft may list
          Trees,     \* what firewalld's configuration may be
          MaxImports \* bound: imports in a row

ASSUME ImportersAssumption ==
    /\ MaxImports \in Nat
    /\ \A s \in Stored \cup {Defaults} : IsState(s)
    /\ (Dumps4 \cup Dumps6) \ {NoDump} \subseteq Dumps
    /\ Rulesets \subseteq Docs
    /\ \A tree \in Trees :
          /\ IsConfig(tree.vendor) /\ IsConfig(tree.etc) /\ tree.default \in Texts
          /\ DOMAIN tree.vendor.zones \cup DOMAIN tree.etc.zones \subseteq ToSet(ZoneOrder)
    /\ ZoneOrder \in Seq(Texts) /\ IsInjective(ZoneOrder)
    /\ DOMAIN FwProtos \subseteq Texts
    /\ IsDir(EtcServices, SUBSET FwPorts)

VARIABLES st,       \* the stored state
          imported  \* the imports so far: the state before, and what was imported

vars == <<st, imported>>

Init ==
    /\ st \in Stored
    /\ imported = <<>>

\* A refused import leaves the state as it is.
Import(kind, source, refused, base, merged) ==
    /\ Len(imported) < MaxImports
    /\ IF refused THEN UNCHANGED vars
       ELSE /\ st' = merged
            /\ imported' = Append(imported, [before |-> base, kind |-> kind, source |-> source])

Onto(replace) == IF replace THEN Defaults ELSE st

ImportIPTables(d4, d6, replace) ==
    Import("iptables", [v4 |-> d4, v6 |-> d6], Refused(d4, d6), Onto(replace),
           Merged(Onto(replace), d4, d6))

ImportNFTables(doc, replace) ==
    Import("nftables", doc, NftRefused(doc), Onto(replace), NftMerged(Onto(replace), doc))

ImportFirewalld(tree, replace) ==
    LET fw == Effective(tree) IN
    Import("firewalld", fw, FwRefused(fw), Onto(replace), FwMerged(Onto(replace), fw))

Reset ==
    /\ st' = Defaults
    /\ imported' = <<>>

Next ==
    \/ \E d4 \in Dumps4, d6 \in Dumps6, replace \in BOOLEAN : ImportIPTables(d4, d6, replace)
    \/ \E doc \in Rulesets, replace \in BOOLEAN : ImportNFTables(doc, replace)
    \/ \E tree \in Trees, replace \in BOOLEAN : ImportFirewalld(tree, replace)
    \/ Reset

Spec == Init /\ [][Next]_vars
=============================================================================
