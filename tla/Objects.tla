------------------------------ MODULE Objects ------------------------------
(***************************************************************************)
(* What rules.json holds besides plain rules, and the commands on it:      *)
(* named sets and the rules that look addresses up in them, NAT rules,     *)
(* rules that are switched off, and documents that are exported and later  *)
(* merged back.  Each command holds the flock from its load to its save.   *)
(***************************************************************************)
EXTENDS Integers, Sequences, SequencesExt, FiniteSets

CONSTANTS Targets,   \* what a rule command may say: the items of it, a set and an action
          SetNames,  \* the names of sets
          Twin6,     \* pairs of names of which the second is the first and "6"
          Elems,     \* addresses and networks, in canonical form
          NATRules,  \* the NAT rules that a command may name
          Written,   \* documents that were written by hand
          UfwRules,  \* what user.rules and user6.rules of ufw may hold
          MaxId,     \* bound: rules that ever get an id
          MaxNAT,    \* bound: NAT rules that a command adds to
          MaxSteps   \* bound: commands in a row

NoSet == ""
Actions == {"allow", "deny"}
Families == {"v4", "v6"}

Items == UNION {ToSet(t.items) : t \in Targets}
Endpoints == {NoSet} \cup SetNames

\* An id is random and never given twice; 0 is that of a document without.
Rule == [item : Items, set : Endpoints, action : Actions, id : Nat, disabled : BOOLEAN]

\* A NAT rule, by the families of its addresses.
NATRule ==
    [kind : {"masquerade", "dnat"}, src : {"", "v4", "v6"}, dst : {"", "v4", "v6"}, to : {"", "v4", "v6"}]

State ==
    [rules4 : Seq(Rule), rules6 : Seq(Rule),
     sets : UNION {[names -> SUBSET Elems] : names \in SUBSET SetNames}, nat : Seq(NATRule)]

ASSUME ObjectsAssumption ==
    /\ \A t \in Targets :
          /\ t.items \in Seq(Items) \ {<<>>} /\ t.set \in Endpoints /\ t.action \in Actions
          /\ \A i \in DOMAIN t.items : t.items[i].app = t.items[1].app
          /\ t.items[1].app = "" => Len(t.items) = 1
    /\ Twin6 \subseteq SetNames \X SetNames /\ \A name \in SetNames : <<name, name>> \notin Twin6
    /\ NATRules \subseteq NATRule
    /\ \A n \in NATRules : n.kind = "dnat" => n.src = "" /\ n.dst # "" /\ n.to # ""
    /\ Written \subseteq State
    /\ UfwRules \subseteq Seq([item : Items, action : Actions])
    /\ MaxId \in Nat /\ MaxNAT \in Nat /\ MaxSteps \in Nat

VARIABLES file,     \* rules.json
          doc,      \* the document at hand, exported or written
          enabled,  \* ENABLED of better-firewall.conf
          ids,      \* how many ids have been given
          steps     \* how many commands have changed something

objects == <<file, doc, enabled, ids>>
vars == <<file, doc, enabled, ids, steps>>

Rules(st, v6) == IF v6 THEN st.rules6 ELSE st.rules4
AllRules(st) == ToSet(st.rules4) \cup ToSet(st.rules6)

Empty == [rules4 |-> <<>>, rules6 |-> <<>>, sets |-> <<>>, nat |-> <<>>]

Init ==
    /\ file = Empty
    /\ doc \in Written
    /\ enabled \in BOOLEAN
    /\ ids = 0 /\ steps = 0

TypeOK ==
    /\ file \in State
    /\ doc \in State
    /\ enabled \in BOOLEAN
    /\ ids \in 0 .. MaxId
    /\ steps \in Nat

-----------------------------------------------------------------------------
(* What can be loaded.  A set is compiled to two, of which the IPv6 one is *)
(* named for it with a "6"; a rule in force looks up a set that must be    *)
(* there; a NAT rule goes to one family and translates within it.          *)

NatV6(n) == "v6" \in {n.src, n.dst, n.to}

NatLoads(n) == n.kind = "dnat" => n.to # "" /\ (n.to = "v6") = NatV6(n)

Collide(a, b) == <<a, b>> \in Twin6 \/ <<b, a>> \in Twin6

Loads(st) ==
    /\ \A a, b \in DOMAIN st.sets : ~Collide(a, b)
    /\ \A r \in AllRules(st) : r.set # NoSet /\ ~r.disabled => r.set \in DOMAIN st.sets
    /\ \A i \in DOMAIN st.nat : NatLoads(st.nat[i])

\* An enabled firewall loads the state first, and stores nothing it cannot load.
CommitState(st) ==
    /\ file' = IF enabled => Loads(st) THEN st ELSE file
    /\ UNCHANGED <<doc, enabled>>

Refuse == UNCHANGED objects

-----------------------------------------------------------------------------
(* Sets. *)

With(sets, name, elems) == [n \in DOMAIN sets \cup {name} |-> IF n = name THEN elems ELSE sets[n]]
Without(sets, name) == [n \in DOMAIN sets \ {name} |-> sets[n]]

SetCreate(name) ==
    IF name \in DOMAIN file.sets \/ \E o \in DOMAIN file.sets : Collide(name, o)
    THEN Refuse
    ELSE CommitState([file EXCEPT !.sets = With(@, name, {})]) /\ UNCHANGED ids

SetAdd(name, e) ==
    IF name \notin DOMAIN file.sets THEN Refuse
    ELSE CommitState([file EXCEPT !.sets[name] = @ \cup {e}]) /\ UNCHANGED ids

SetDel(name, e) ==
    IF name \notin DOMAIN file.sets THEN Refuse
    ELSE IF e \notin file.sets[name] THEN Refuse
    ELSE CommitState([file EXCEPT !.sets[name] = @ \ {e}]) /\ UNCHANGED ids

Drop(rules, gone) ==
    FlattenSeq([i \in DOMAIN rules |-> IF i \in gone THEN <<>> ELSE <<rules[i]>>])

DropSetRefs(rules, name) == Drop(rules, {i \in DOMAIN rules : rules[i].set = name})

\* The same, had the references in one family been forgotten.
SetDestroyV4Refs(name, force) ==
    IF \/ name \notin DOMAIN file.sets
       \/ ~force /\ \E r \in AllRules(file) : r.set = name
    THEN Refuse
    ELSE CommitState([file EXCEPT !.sets = Without(@, name),
                                  !.rules4 = DropSetRefs(@, name)]) /\ UNCHANGED ids

\* With --force the rules that refer to the set go too.
SetDestroy(name, force) ==
    IF \/ name \notin DOMAIN file.sets
       \/ ~force /\ \E r \in AllRules(file) : r.set = name
    THEN Refuse
    ELSE CommitState([file EXCEPT !.sets = Without(@, name),
                                  !.rules4 = DropSetRefs(@, name),
                                  !.rules6 = DropSetRefs(@, name)]) /\ UNCHANGED ids

-----------------------------------------------------------------------------
(* NAT rules. *)

NatAdd(n) ==
    /\ Len(file.nat) < MaxNAT
    /\ IF n.kind = "dnat" /\ n.dst # n.to THEN Refuse
       ELSE CommitState([file EXCEPT !.nat = Append(@, n)]) /\ UNCHANGED ids

NatDelete(i) ==
    CommitState([file EXCEPT !.nat = RemoveAt(@, i)]) /\ UNCHANGED ids

-----------------------------------------------------------------------------
(* Rules, here without positions and comments.                             *)

SameRule(a, b) == a.item = b.item /\ a.set = b.set
Exact(a, b) == SameRule(a, b) /\ a.action = b.action

\* Where the rule that nr matches stands; 0 when there is none.
Place(rules, nr) == SelectInSeq(rules, LAMBDA r : SameRule(r, nr))

\* A rule that is there is skipped, one of another action gives way.
Put(rules, nr) ==
    LET j == Place(rules, nr) IN
    IF j = 0 THEN Append(rules, nr)
    ELSE IF Exact(rules[j], nr) THEN rules
    ELSE [rules EXCEPT ![j] = nr]

PutAll(rules, news) == FoldLeft(LAMBDA acc, nr : Put(acc, nr), rules, news)

Take(rules, nr) == Drop(rules, {i \in DOMAIN rules : Exact(rules[i], nr)})

\* All that the list has of an application goes, up to the first member that
\* has another action, where the command gives up.
TakeApp(rules, app, action) ==
    LET member(i) == rules[i].item.app = app
    IN Drop(rules, {k \in DOMAIN rules :
                      member(k) /\ \A j \in 1 .. k : member(j) => rules[j].action = action})

\* The rules that a command on a target is expanded to.  The halves of a
\* rule for both families have one id; the items of a profile have their own.
Expanded(t) ==
    [i \in DOMAIN t.items |-> [item |-> t.items[i], set |-> t.set, action |-> t.action,
                               id |-> ids + i, disabled |-> FALSE]]

RuleAdd(t, fams) ==
    /\ ids + Len(t.items) <= MaxId
    /\ LET new == Expanded(t)
           put(rules, fam) == IF fam \in fams THEN PutAll(rules, new) ELSE rules
       IN CommitState([file EXCEPT !.rules4 = put(@, "v4"), !.rules6 = put(@, "v6")])
    /\ ids' = ids + Len(t.items)

RuleDelete(t, fams) ==
    LET take(rules, fam) ==
          IF fam \notin fams THEN rules
          ELSE IF t.items[1].app # "" THEN TakeApp(rules, t.items[1].app, t.action)
          ELSE Take(rules, Expanded(t)[1])
    IN /\ CommitState([file EXCEPT !.rules4 = take(@, "v4"), !.rules6 = take(@, "v6")])
       /\ UNCHANGED ids

\* What the rules of one application share; the sets they name are no part
\* of it, and the family is, since the lists are kept apart.
AppTuple(r) == r.item.app

\* The rules that "status numbered" shows of a list: each application once.
Shown(rules) ==
    {i \in DOMAIN rules :
        rules[i].item.app = "" \/ \A j \in 1 .. i - 1 : AppTuple(rules[j]) # AppTuple(rules[i])}

\* The place of the n-th of them, the IPv4 ones first.
RuleByNumber(st, n) ==
    LET shown4 == Shown(st.rules4)
        nth(shown, k) == CHOOSE i \in shown : Cardinality({j \in shown : j <= i}) = k
    IN IF n <= Cardinality(shown4) THEN [v6 |-> FALSE, idx |-> nth(shown4, n)]
       ELSE [v6 |-> TRUE, idx |-> nth(Shown(st.rules6), n - Cardinality(shown4))]

Numbers(st) == 1 .. Cardinality(Shown(st.rules4)) + Cardinality(Shown(st.rules6))

\* The same, had a rule gone by its place in the lists.
ToggledAtPlace(rules, v6, at, target, off) ==
    [i \in DOMAIN rules |->
        IF IF target.item.app = "" THEN i = at.idx
           ELSE v6 = at.v6 /\ AppTuple(rules[i]) = AppTuple(target)
        THEN [rules[i] EXCEPT !.disabled = off] ELSE rules[i]]

\* A rule of no application goes by its id, in both lists; the members of an
\* application go by what they have in common, which includes the family.
Toggled(rules, v6, at, target, off) ==
    [i \in DOMAIN rules |->
        IF IF target.item.app = "" THEN rules[i].id = target.id
           ELSE v6 = at.v6 /\ AppTuple(rules[i]) = AppTuple(target)
        THEN [rules[i] EXCEPT !.disabled = off] ELSE rules[i]]

\* The handler looks into the IPv4 list at the place that it found, before it
\* asks in which list that was.
Crashes(n) == RuleByNumber(file, n).idx \notin DOMAIN file.rules4

\* The state with the rule of that number switched.
Toggling(n, off) ==
    LET at     == RuleByNumber(file, n)
        target == Rules(file, at.v6)[at.idx]
    IN [file EXCEPT !.rules4 = Toggled(@, FALSE, at, target, off),
                    !.rules6 = Toggled(@, TRUE, at, target, off)]

\* rule enable and rule disable.
CmdRule(n, off) ==
    IF Crashes(n) THEN UNCHANGED objects
    ELSE CommitState(Toggling(n, off)) /\ UNCHANGED ids

-----------------------------------------------------------------------------
(* Documents. *)

Export ==
    /\ doc' = file
    /\ UNCHANGED <<file, enabled, ids>>

\* Two that merge otherwise: a missing id that is not noticed, the document's
\* id for a rule that has one.
MergeRuleNoId(acc, nr) ==
    LET j == Place(acc.rules, nr) IN
    IF j # 0 THEN
        IF Exact(acc.rules[j], nr) THEN acc
        ELSE [acc EXCEPT !.rules[j] = [nr EXCEPT !.id = acc.rules[j].id,
                                                 !.disabled = acc.rules[j].disabled]]
    ELSE IF \E r \in ToSet(acc.rules) : r.id = nr.id
    THEN [rules |-> Append(acc.rules, [nr EXCEPT !.id = acc.ids + 1]), ids |-> acc.ids + 1]
    ELSE [acc EXCEPT !.rules = Append(@, nr)]

MergeRuleDocsId(acc, nr) ==
    LET j == Place(acc.rules, nr) IN
    IF j # 0 THEN IF Exact(acc.rules[j], nr) THEN acc ELSE [acc EXCEPT !.rules[j] = nr]
    ELSE IF nr.id = 0 \/ \E r \in ToSet(acc.rules) : r.id = nr.id
    THEN [rules |-> Append(acc.rules, [nr EXCEPT !.id = acc.ids + 1]), ids |-> acc.ids + 1]
    ELSE [acc EXCEPT !.rules = Append(@, nr)]

\* One rule of a document: it replaces the stored one but for the id and what
\* the document may not know of, or comes to the end with an id of its own.
MergeRule(acc, nr) ==
    LET j == Place(acc.rules, nr) IN
    IF j # 0 THEN
        IF Exact(acc.rules[j], nr) THEN acc
        ELSE [acc EXCEPT !.rules[j] = [nr EXCEPT !.id = acc.rules[j].id,
                                                 !.disabled = acc.rules[j].disabled]]
    ELSE IF nr.id = 0 \/ \E r \in ToSet(acc.rules) : r.id = nr.id
    THEN [rules |-> Append(acc.rules, [nr EXCEPT !.id = acc.ids + 1]), ids |-> acc.ids + 1]
    ELSE [acc EXCEPT !.rules = Append(@, nr)]

MergeRules(rules, src, given) ==
    FoldLeft(LAMBDA acc, nr : MergeRule(acc, nr), [rules |-> rules, ids |-> given], src)

MergeSets(sets, src) ==
    [n \in DOMAIN sets \cup DOMAIN src |->
        (IF n \in DOMAIN sets THEN sets[n] ELSE {}) \cup (IF n \in DOMAIN src THEN src[n] ELSE {})]

\* The same, had the NAT rules that are there not been looked for.
MergeNatAll(nat, src) == nat \o src

MergeNatRule(nat, n) == IF n \in ToSet(nat) THEN nat ELSE Append(nat, n)

MergeNat(nat, src) == FoldLeft(LAMBDA acc, n : MergeNatRule(acc, n), nat, src)

\* The state with a document merged in, and how many ids there are then.
Merge(st, d, given) ==
    LET four == MergeRules(st.rules4, d.rules4, given)
        six  == MergeRules(st.rules6, d.rules6, four.ids)
    IN [st  |-> [rules4 |-> four.rules, rules6 |-> six.rules,
                 sets |-> MergeSets(st.sets, d.sets), nat |-> MergeNat(st.nat, d.nat)],
        ids |-> six.ids]

\* The merged state is stored before anything tries to load it.
Imported(new) ==
    /\ new.ids <= MaxId
    /\ file' = new.st
    /\ ids' = new.ids
    /\ UNCHANGED <<doc, enabled>>

CmdImport(replace) ==
    IF replace THEN Imported([st |-> doc, ids |-> ids])
    ELSE Imported(Merge(file, doc, ids))

\* ufw's two files as a document.  Its rules get new ids, and a rule that
\* both files hold gets one.
UfwDoc(four, six) ==
    LET rule(u, id) == [item |-> u.item, set |-> NoSet, action |-> u.action,
                        id |-> id, disabled |-> FALSE]
        twin(u) == SelectLastInSeq(four, LAMBDA w : w.item = u.item)
        id6(i) == IF twin(six[i]) # 0 THEN ids + twin(six[i]) ELSE ids + Len(four) + i
    IN [Empty EXCEPT !.rules4 = [i \in DOMAIN four |-> rule(four[i], ids + i)],
                     !.rules6 = [i \in DOMAIN six |-> rule(six[i], id6(i))]]

CmdImportUFW(four, six) ==
    IF four \o six = <<>> THEN Refuse
    ELSE Imported(Merge(file, UfwDoc(four, six), ids + Len(four) + Len(six)))

-----------------------------------------------------------------------------
Enable ==
    /\ ~enabled
    /\ enabled' = Loads(file)
    /\ UNCHANGED <<file, doc, ids>>

Disable ==
    /\ enabled
    /\ enabled' = FALSE
    /\ UNCHANGED <<file, doc, ids>>

SetCommand ==
    \E name \in SetNames :
        \/ SetCreate(name)
        \/ \E e \in Elems : SetAdd(name, e) \/ SetDel(name, e)
        \/ \E force \in BOOLEAN : SetDestroy(name, force)

NatCommand ==
    \/ \E n \in NATRules : NatAdd(n)
    \/ \E i \in DOMAIN file.nat : NatDelete(i)

RuleCommand ==
    \E t \in Targets, fams \in SUBSET Families \ {{}} :
        RuleAdd(t, fams) \/ RuleDelete(t, fams)

Toggle == \E n \in Numbers(file), off \in BOOLEAN : CmdRule(n, off)

Import ==
    \/ \E replace \in BOOLEAN : CmdImport(replace)
    \/ \E four, six \in UfwRules : CmdImportUFW(four, six)

Command ==
    \/ SetCommand \/ NatCommand \/ RuleCommand \/ Toggle
    \/ Export \/ Import
    \/ Enable \/ Disable

\* A command that changes nothing takes nothing from the bound.
Next ==
    /\ Command
    /\ IF objects' = objects THEN UNCHANGED steps
       ELSE steps < MaxSteps /\ steps' = steps + 1

Spec == Init /\ [][Next]_vars
=============================================================================
