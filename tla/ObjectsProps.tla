---------------------------- MODULE ObjectsProps ----------------------------
(***************************************************************************)
(* What the commands on sets, NAT rules, switches and documents are to     *)
(* keep.                                                                   *)
(***************************************************************************)
EXTENDS Objects

\* Rules have ids, none is there twice, and an id is that of one rule, whose
\* halves stand in the two lists.
Kept(st) ==
    /\ \A r \in AllRules(st) : r.id # 0
    /\ \A v6 \in BOOLEAN : \A i, j \in DOMAIN Rules(st, v6) :
          LET a == Rules(st, v6)[i]  b == Rules(st, v6)[j] IN
          a.id = b.id \/ SameRule(a, b) => i = j
    /\ \A r \in ToSet(st.rules4), s \in ToSet(st.rules6) : r.id = s.id => SameRule(r, s)

\* Documents from elsewhere have ids that are given to no rule here, if any,
\* and that are each one rule's.
IdsApart ==
    \A d, e \in Written : \A r \in AllRules(d), s \in AllRules(e) :
        r.id \notin 1 .. MaxId /\ (r.id # 0 /\ r.id = s.id => SameRule(r, s))

(* Whatever documents bring, share or lack as ids (mergeRules), rules keep *)
(* to one entry and one id each; only a document that takes the place of   *)
(* the state is stored as it was written.                                  *)
StaysKept == [][Kept(file) /\ ~Kept(file') => CmdImport(TRUE)]_file

(* What can be loaded stays so, whatever is done to sets and to NAT rules  *)
(* (setCreate with its twins, setDestroy with its references, natAdd) and  *)
(* in whatever order: only an import, which saves first, and a rule        *)
(* command on a firewall that is not enabled can end it.                   *)
StaysLoadable ==
    [][Loads(file) /\ ~Loads(file') =>
           Import \/ (~enabled /\ (RuleCommand \/ Toggle))]_file

\* The rule of the number n: the line that is shown; of an application, every
\* member in the list of that line; of any other rule, its half in the other
\* list, the same rule under the same id.
OfNumber(n, v6, i) ==
    LET at     == RuleByNumber(file, n)
        target == Rules(file, at.v6)[at.idx]
        r      == Rules(file, v6)[i]
    IN IF v6 = at.v6 THEN i = at.idx \/ (target.item.app # "" /\ AppTuple(r) = AppTuple(target))
       ELSE target.item.app = "" /\ r.id = target.id /\ SameRule(r, target)

(* rule enable and disable find the rule by the number that is shown, go   *)
(* on by id, and so switch the line of that number with its half in the    *)
(* other family, and change nothing else (cmdRule).  Two numbers get less: *)
(* that of an IPv6 rule further down its list than the IPv4 list is long,  *)
(* where the handler crashes and switches nothing (Crashes), and that of   *)
(* an application, which is switched in the family of the line alone.      *)
TogglesOneRule ==
    Kept(file) => \A n \in Numbers(file), off \in BOOLEAN :
        ~Crashes(n) =>
            LET new == Toggling(n, off) IN
            /\ new.sets = file.sets /\ new.nat = file.nat
            /\ \A v6 \in BOOLEAN :
                  /\ DOMAIN Rules(new, v6) = DOMAIN Rules(file, v6)
                  /\ \A i \in DOMAIN Rules(file, v6) :
                        Rules(new, v6)[i] =
                          IF OfNumber(n, v6, i) THEN [Rules(file, v6)[i] EXCEPT !.disabled = off]
                          ELSE Rules(file, v6)[i]

(* Importing a document twice is importing it once, and merging back what  *)
(* was just exported changes nothing (mergeRules, mergeSets, mergeNAT).    *)
ImportSettles ==
    Kept(file) =>
    /\ Merge(file, file, ids) = [st |-> file, ids |-> ids]
    /\ LET once == Merge(file, doc, ids) IN Merge(once.st, doc, once.ids) = once

(* A document that is merged takes nothing away: the rules it does not     *)
(* name stay as they are, in their order and under their ids, and every    *)
(* rule it names is then there (mergeRules).                               *)
ImportKeepsOthers ==
    Kept(file) => \A v6 \in BOOLEAN :
        LET new   == Rules(Merge(file, doc, ids).st, v6)
            named(r) == \E d \in ToSet(Rules(doc, v6)) : SameRule(d, r)
            others(rules) == Drop(rules, {i \in DOMAIN rules : named(rules[i])})
        IN /\ others(new) = others(Rules(file, v6))
           /\ \A d \in ToSet(Rules(doc, v6)) : Place(new, d) # 0
           /\ \A r \in ToSet(Rules(file, v6)) : new[Place(new, r)].id = r.id
=============================================================================
