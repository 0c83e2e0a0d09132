---------------------------- MODULE MCRuleEngine ----------------------------
(* Plain rules (template "plain") and the rules of one application, of whose *)
(* profile the administrator makes three versions and which may be missing.  *)
EXTENDS RuleProps
ASSUME GroupsAreApps /\ ItemsOnce /\ OneTemplate

MCApp == [t \in Templates |-> IF t = "plain" THEN NoApp ELSE t]
MCTuple == [t \in Templates |-> t]
MCProfiles == {[a \in Apps |-> s] : s \in {<<>>, <<"a">>, <<"b", "a">>}}

Typed(kind, fam, num, of, item, act, note, till) ==
  [kind |-> kind, fam |-> fam, num |-> num, of |-> of, item |-> item,
   act |-> act, note |-> note, till |-> till]

\* "a" gets and loses a comment, in one family or both; "b" expires; "c" is
\* inserted; the application is allowed and denied.
MCCommands ==
       {Typed("add", "both", 0, "plain", "a", "allow", "", "never"),
        Typed("add", "v4", 0, "plain", "a", "allow", "c", "never"),
        Typed("delete", "both", 0, "plain", "a", "allow", "", "never"),
        Typed("prepend", "both", 0, "plain", "b", "allow", "", "later"),
        Typed("prepend", "both", 0, "ssh", "a", "allow", "", "never")}
  \cup {Typed("insert", fam, n, "plain", "c", "allow", "", "never") :
          fam \in {"both", "v6"}, n \in 1 .. MaxRules}
  \cup {Typed("insert", "both", n, "ssh", "a", "allow", "", "never") : n \in 1 .. 3}
  \cup {Typed("delete", "both", 0, "ssh", "a", act, "", "never") : act \in Actions}
  \cup {Typed("add", fam, 0, "ssh", "a", "allow", "", "never") : fam \in {"both", "v4"}}
  \cup {Typed("add", "v6", 0, "ssh", "a", "deny", "", "never")}
=============================================================================
