----------------------------- MODULE MCObjects -----------------------------
(***************************************************************************)
(* Instances of Objects: a port, a profile of two items, a set and the     *)
(* name that its IPv6 twin takes, and documents with and without ids.      *)
(***************************************************************************)
EXTENDS ObjectsProps, TLC

ASSUME WrittenIdsApart == IdsApart

Ssh == [port |-> "ssh", app |-> ""]
AppItem(port) == [port |-> port, app |-> "A"]

Says(items, set, action) == [items |-> items, set |-> set, action |-> action]
MCTargets == {Says(<<Ssh>>, NoSet, "allow"), Says(<<Ssh>>, NoSet, "deny"), Says(<<Ssh>>, "x", "deny"),
              Says(<<AppItem("one"), AppItem("two")>>, NoSet, "allow")}
MCTwin6 == {<<"x", "x6">>}

Translate(kind, dst, to) == [kind |-> kind, src |-> "", dst |-> dst, to |-> to]
MCNATRules == {Translate("dnat", "v4", "v6"), Translate("dnat", "v6", "v4"), Translate("dnat", "v6", "v6")}

AllowSsh(set) == [item |-> Ssh, set |-> set, action |-> "allow", id |-> 0, disabled |-> FALSE]

\* A rule of each family without ids, with the set that one of them needs;
\* the names of sets that collide with those, with a NAT rule that mixes the
\* families; and the halves of a rule with an id from elsewhere.
MCWritten ==
    { [rules4 |-> <<AllowSsh("x")>>, rules6 |-> <<AllowSsh(NoSet)>>,
       sets |-> ("x" :> {"host"}), nat |-> <<>>],
      [rules4 |-> <<AllowSsh(NoSet), [AllowSsh(NoSet) EXCEPT !.action = "deny"]>>, rules6 |-> <<>>,
       sets |-> ("x6" :> {"host"}), nat |-> <<Translate("dnat", "v4", "v6")>>],
      LET halves == <<[AllowSsh(NoSet) EXCEPT !.id = MaxId + 1]>>
      IN [rules4 |-> halves, rules6 |-> halves, sets |-> <<>>, nat |-> <<>>] }

MCUfwRules == {<<>>, <<[item |-> Ssh, action |-> "deny"]>>}
=============================================================================
