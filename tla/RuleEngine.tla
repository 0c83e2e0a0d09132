----------------------------- MODULE RuleEngine -----------------------------
(***************************************************************************)
(* What the rule commands do to the rules of both families: add, insert,   *)
(* prepend and delete by text (runRuleOp), delete by number, app update    *)
(* and the expiry sweep of each commit, while the administrator edits the  *)
(* application profiles.  IPv6 is on; without it a dual command is an IPv4 *)
(* one.  Load, lock, apply and save are Firewall's; here each command is   *)
(* one step.                                                               *)
(***************************************************************************)
EXTENDS RuleLists

CONSTANTS Commands,  \* [kind, fam, num, of, item, act, note, till] typed in
          Profiles,  \* the profiles there may be: [Apps -> Seq(Items)]
          MaxRules   \* bounds the number of rules stored

ASSUME CommandsAssumption ==
  /\ Commands \subseteq
       [kind : {"add", "insert", "prepend", "delete"}, fam : {"v4", "v6", "both"},
        num : Nat, of : Templates, item : Items, act : Actions, note : Notes,
        till : {"never", "later"}]
  /\ \A c \in Commands : c.num # 0 => c.kind = "insert"
  /\ Profiles \subseteq [Apps -> Seq(Items)]

VARIABLES rules4, rules6,  \* the lists, sequences of Rule
          profile          \* the present profiles, one of Profiles

vars == <<rules4, rules6, profile>>

TypeOK ==
  /\ rules4 \in Seq(Rule)
  /\ rules6 \in Seq(Rule)
  /\ profile \in Profiles

Init ==
  /\ rules4 = <<>>
  /\ rules6 = <<>>
  /\ profile \in Profiles

RuleOf(c, item) ==
  [of |-> c.of, item |-> item, act |-> c.act, note |-> c.note, till |-> c.till]

\* The parser accepts the command: an application has a profile, except to
\* delete its rules.
Accepted(c) == App[c.of] # NoApp /\ c.kind # "delete" => profile[App[c.of]] # <<>>

\* The rules of a command: one per entry of the profile, backwards for a
\* position.  Deletions are expanded from the stored rules instead.
Expanded(c) ==
  IF App[c.of] = NoApp \/ c.kind = "delete"
  THEN <<RuleOf(c, c.item)>>
  ELSE LET items == profile[App[c.of]]
           rules == [i \in DOMAIN items |-> RuleOf(c, items[i])]
       IN IF c.kind \in {"insert", "prepend"} THEN Reverse(rules) ELSE rules

Failed == [list |-> <<>>, did |-> "error"]

\* Plausible bug: deletes the rules of the present profile.
TakeExpanded(list, new) ==
  LET takeNext(acc, item) == Take(acc.list, [new EXCEPT !.item = item])
  IN FoldLeft(takeNext, [list |-> list, did |-> "deleted"], profile[App[new.of]])

\* The rules of a list that are in a rule's group.
Group(list, r) ==
  Without(list, {i \in DOMAIN list : ~(IsApp(list[i]) /\ Tuple[list[i].of] = Tuple[r.of])})

TakeNext(act, acc, r) ==
  IF acc.did = "notFound" THEN acc ELSE Take(acc.list, [r EXCEPT !.act = act])

\* Deletes the stored rules of the command's group, those with its action,
\* until the first one that has another.
TakeGroup(list, new) ==
  IF Group(list, new) = <<>> THEN [list |-> list, did |-> "notFound"]
  ELSE FoldLeft(LAMBDA acc, r : TakeNext(new.act, acc, r),
                [list |-> list, did |-> "deleted"], Group(list, new))

ApplyHalf(list, new, pos, remove) ==
  CASE pos \notin 0 .. Len(list) \/ (remove /\ pos > 0) -> Failed
    [] pos \in 0 .. Len(list) /\ remove /\ pos = 0 /\ IsApp(new) -> TakeGroup(list, new)
    [] OTHER -> SetRule(list, new, pos, remove)

WithV4(acc, half) ==
  IF half.did = "error" THEN [acc EXCEPT !.ok = FALSE] ELSE [acc EXCEPT !.r4 = half.list]

WithV6(acc, half) ==
  IF half.did = "error" THEN [acc EXCEPT !.ok = FALSE] ELSE [acc EXCEPT !.r6 = half.list]

DualV4Position(acc, pos, count, remove) ==
  CASE pos = -1 -> IF count = 0 /\ acc.n4 = 0 THEN 0 ELSE 1
    [] pos > acc.n4 /\ ~remove -> OtherPosition(acc.r6, acc.r4, pos - acc.n4 + count)
    [] OTHER -> pos

\* With the IPv4 half done: at the twin of the rule it displaced.
DualV6Position(acc, pos, wanted, count, n6, remove) ==
  LET twin == OtherPosition(acc.r4, acc.r6, wanted)
      near == CASE pos = -1 -> IF count = 0 /\ n6 = 0 THEN 0 ELSE 1
                [] ~remove /\ wanted \in 1 .. acc.n4 /\ pos # -1 ->
                     IF twin > 0 THEN twin - count ELSE 0
                [] OTHER -> wanted
  IN IF ~remove /\ near > acc.n4 /\ pos # -1 THEN near - acc.n4 ELSE near

ApplyDual(acc, new, pos, count, n6, remove) ==
  LET asks == ~remove /\ pos > 0
      pos4 == DualV4Position(acc, pos, count, remove)
      recounted(a) == IF asks THEN [a EXCEPT !.n4 = Deduped(a.r4)] ELSE a
      then6(a) ==
        WithV6(a, ApplyHalf(a.r6, new,
                            DualV6Position(a, pos, IF asks THEN pos + 1 ELSE pos4,
                                           count, n6, remove), remove))
      both(a) == IF a.ok THEN then6(recounted(a)) ELSE a
  IN both(WithV4(acc, ApplyHalf(acc.r4, new, pos4, remove)))

\* The i-th rule of a command.
ApplyNext(c, n6, acc, i) ==
  LET new == Expanded(c)[i]
      pos == IF c.kind = "prepend" THEN -1 ELSE c.num
      remove == c.kind = "delete"
  IN IF ~acc.ok \/ pos > acc.n4 + n6 THEN [acc EXCEPT !.ok = FALSE]
     ELSE CASE c.fam = "both" -> ApplyDual(acc, new, pos, i - 1, n6, remove)
            [] c.fam = "v4" ->
                 WithV4(acc, ApplyHalf(acc.r4, new, V4Position(pos, i - 1, acc.n4), remove))
            [] c.fam = "v6" ->
                 WithV6(acc, ApplyHalf(acc.r6, new, V6Position(pos, i - 1, acc.n4, n6), remove))

\* What runRuleOp makes of the rules, not swept yet; a failed command is not
\* stored.
Edited(c) ==
  FoldLeftDomain(LAMBDA acc, i : ApplyNext(c, Deduped(rules6), acc, i),
                 [r4 |-> rules4, r6 |-> rules6, n4 |-> Deduped(rules4), ok |-> TRUE],
                 Expanded(c))

RunRuleOp(c) ==
  \E done \in {Edited(c)} :
    /\ Accepted(c)
    /\ done.ok
    /\ Len(done.r4) + Len(done.r6) <= MaxRules
    /\ rules4' = Sweep(done.r4)
    /\ rules6' = Sweep(done.r6)
    /\ UNCHANGED profile

\* A shown application rule goes with its whole group.
WithoutNumber(list, i) ==
  Without(list, IF IsApp(list[i])
                THEN {j \in DOMAIN list : IsApp(list[j]) /\ Tuple[list[j].of] = Tuple[list[i].of]}
                ELSE {i})

DeleteByNumber(n) ==
  LET n4 == Deduped(rules4)
      i4 == Numbered(rules4, n)
      i6 == Numbered(rules6, n - n4)
  IN
  /\ i4 # 0 \/ i6 # 0
  /\ rules4' = Sweep(IF i4 # 0 THEN WithoutNumber(rules4, i4) ELSE rules4)
  /\ rules6' = Sweep(IF i4 = 0 THEN WithoutNumber(rules6, i6) ELSE rules6)
  /\ UNCHANGED profile

\* Plausible bug: the group is regenerated at each of its rules.
RegeneratedEach(list, app) ==
  LET items == profile[app]
      fresh(r) == IF App[r.of] # app \/ items = <<>> THEN <<r>>
                  ELSE [i \in DOMAIN items |-> [r EXCEPT !.item = items[i]]]
  IN FoldLeft(LAMBDA out, r : out \o fresh(r), <<>>, list)

\* The rules of the profile, with a rule's fields; with no profile, the old ones.
Generated(list, r) ==
  LET items == profile[App[r.of]] IN
  IF items = <<>> THEN Group(list, r)
  ELSE [i \in DOMAIN items |-> [r EXCEPT !.item = items[i]]]

RegenerateNext(list, app, acc, r) ==
  CASE App[r.of] # app -> [acc EXCEPT !.out = Append(@, r)]
    [] App[r.of] = app /\ acc.last = {Tuple[r.of]} -> acc
    [] OTHER -> [out |-> acc.out \o Generated(list, r), last |-> {Tuple[r.of]}]

\* updateAppRule on one list: a group is generated at the first rule of each run
\* of its rules.
Regenerated(list, app) ==
  FoldLeft(LAMBDA acc, r : RegenerateNext(list, app, acc, r),
           [out |-> <<>>, last |-> {}], list).out

AppUpdate(app) ==
  LET new4 == Regenerated(rules4, app)
      new6 == Regenerated(rules6, app)
  IN
  /\ \E r \in Range(rules4 \o rules6) : App[r.of] = app
  /\ Len(new4) + Len(new6) <= MaxRules
  /\ rules4' = new4
  /\ rules6' = new6
  /\ UNCHANGED profile

\* The administrator edits a file in applications.d.
EditProfile ==
  /\ profile' \in Profiles \ {profile}
  /\ UNCHANGED <<rules4, rules6>>

Lapsed(list) ==
  [i \in DOMAIN list |-> IF list[i].till = "later" THEN [list[i] EXCEPT !.till = "past"]
                         ELSE list[i]]

\* Time passes.
Expire ==
  /\ \E r \in Range(rules4 \o rules6) : r.till = "later"
  /\ rules4' = Lapsed(rules4)
  /\ rules6' = Lapsed(rules6)
  /\ UNCHANGED profile

\* The timer's sweep.
CmdSweep ==
  /\ \E r \in Range(rules4 \o rules6) : r.till = "past"
  /\ rules4' = Sweep(rules4)
  /\ rules6' = Sweep(rules6)
  /\ UNCHANGED profile

Next ==
  \/ \E c \in Commands : RunRuleOp(c)
  \/ \E n \in 1 .. MaxRules : DeleteByNumber(n)
  \/ \E app \in Apps : AppUpdate(app)
  \/ EditProfile \/ Expire \/ CmdSweep

Spec == Init /\ [][Next]_vars
=============================================================================
