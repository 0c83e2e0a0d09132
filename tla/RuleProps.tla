----------------------------- MODULE RuleProps -----------------------------
(***************************************************************************)
(* What the rule commands must and must not do to the rules.  Most         *)
(* properties speak of every command that could be typed next, by what     *)
(* `Edited' makes of the present rules.                                    *)
(***************************************************************************)
EXTENDS RuleEngine

\* What the commands that could be typed now would make of the rules.
Done == {done \in {[cmd |-> c, edit |-> Edited(c)] : c \in {d \in Commands : Accepted(d)}} :
           done.edit.ok}

\* The command speaks of this rule, by its template and item or its group.
Names(c, r) ==
  IF App[c.of] = NoApp THEN r.of = c.of /\ r.item = c.item
  ELSE IsApp(r) /\ Tuple[r.of] = Tuple[c.of]

(* setRuleEngine's loop, entry by entry, for comparison with SetRule.      *)

EndsOf(r) == IF IsApp(r) THEN <<Ends[r.of]>> ELSE <<>>

LoopStart(position) ==
  [out |-> <<>>, found |-> FALSE, modified |-> FALSE, inserted |-> FALSE,
   matched |-> FALSE, pos |-> position, count |-> 1, last |-> <<>>]

\* At the position asked for, the new rule goes in, or the position slides.
AtPosition(a, r, new) ==
  IF a.count # a.pos THEN a
  ELSE IF EndsOf(r) = <<>> \/ (a.last = <<>> /\ a.count > 1) \/ a.last # EndsOf(r)
       THEN [a EXCEPT !.inserted = TRUE, !.out = Append(@, new)]
       ELSE [a EXCEPT !.pos = @ + 1]

LoopMatch(a, r, new, remove) ==
  CASE Exact(r, new) /\ ~a.found /\ ~a.inserted ->
         [a EXCEPT !.found = TRUE, !.out = IF remove THEN @ ELSE Append(@, new)]
    [] Commented(r, new) /\ remove /\ new.note = NoNote -> [a EXCEPT !.found = TRUE]
    [] SameKey(r, new) /\ ~Exact(r, new) /\ ~remove /\ ~a.inserted ->
         [a EXCEPT !.found = TRUE, !.modified = TRUE, !.out = Append(@, new)]
    [] OTHER -> [a EXCEPT !.out = Append(@, r)]

LoopNext(new, remove, acc, r) ==
  LoopMatch([AtPosition(acc, r, new) EXCEPT !.last = EndsOf(r), !.count = @ + 1,
                                            !.matched = @ \/ SameKey(r, new)],
            r, new, remove)

LoopOutcome(list, new, remove, end) ==
  CASE end.inserted ->
         [list |-> IF end.matched THEN list ELSE end.out,
          did |-> IF end.matched THEN "skipped" ELSE "inserted"]
    [] ~end.inserted /\ remove ->
         [list |-> IF end.found THEN end.out ELSE list,
          did |-> IF end.found THEN "deleted" ELSE "notFound"]
    [] ~end.inserted /\ ~remove /\ ~end.found ->
         [list |-> Append(end.out, new), did |-> "added"]
    [] OTHER -> [list |-> IF end.modified THEN end.out ELSE list,
                 did |-> IF end.modified THEN "updated" ELSE "skipped"]

Loop(list, new, position, remove) ==
  LoopOutcome(list, new, remove,
              FoldLeft(LAMBDA acc, r : LoopNext(new, remove, acc, r), LoopStart(position), list))

\* The one pass setRuleEngine makes (commands_rules.go:359-433), with its
\* sliding position and flags, computes what SetRule defines: over every list
\* that arises and every rule and position.
LoopAgrees ==
  \A new \in {RuleOf(c, c.item) : c \in Commands}, list \in {rules4, rules6} :
    /\ Loop(list, new, 0, TRUE) = SetRule(list, new, 0, TRUE)
    /\ \A pos \in 0 .. Len(list) :
         Loop(list, new, pos, FALSE) = SetRule(list, new, pos, FALSE)

NoCopies(list) == \A i, j \in DOMAIN list : SameKey(list[i], list[j]) => i = j

\* The rules of an application form one group, of its own.
GroupsAreApps ==
  \A s, t \in Templates :
    App[s] # NoApp /\ App[t] # NoApp => (Tuple[s] = Tuple[t] <=> App[s] = App[t])

\* Each application is used with one template.
OneTemplate ==
  \A s, t \in Templates : App[s] # NoApp /\ App[s] = App[t] => s = t

\* No profile gives an item twice.
ItemsOnce == \A p \in Profiles, app \in Apps : IsInjective(p[app])

\* No rule is stored twice in a family, whatever is added, inserted, updated
\* and regenerated after profiles have changed: deleting it once would leave
\* the other (Rule.Match, setRuleEngine, updateAppRule).  Instances where the
\* rules of an application form one group: updateAppRule generates groups of the
\* same application that are interleaved several times.
NoDuplicates == NoCopies(rules4) /\ NoCopies(rules6)

\* The rules that a command does not speak of.
Others(c, list) == Without(list, {i \in DOMAIN list : Names(c, list[i])})

\* A command leaves the other rules alone, with all their fields and in their
\* order, in both families.
OthersKept ==
  \A done \in Done :
    /\ Others(done.cmd, done.edit.r4) = Others(done.cmd, rules4)
    /\ Others(done.cmd, done.edit.r6) = Others(done.cmd, rules6)

\* Rules of one application that stand together are not separated by a rule
\* that comes between them (commands_rules.go:375-376: "app groups are never
\* split").
GroupsStayTogether ==
  \A done \in {d \in Done : d.cmd.kind # "delete"} :
    \A lists \in {<<rules4, done.edit.r4>>, <<rules6, done.edit.r6>>} :
      LET old == lists[1]
          new == lists[2]
          place(r) == CHOOSE i \in DOMAIN new : SameKey(new[i], r)
      IN \A i \in 2 .. Len(old) :
           (/\ IsApp(old[i - 1]) /\ IsApp(old[i])
            /\ Ends[old[i - 1].of] = Ends[old[i].of]
            /\ \A k \in {i - 1, i} : \E j \in DOMAIN new : SameKey(new[j], old[k]))
           => place(old[i]) = place(old[i - 1]) + 1

\* While no application rule is stored, a new rule is inserted where the number
\* says, in the family in which it lies, and pushes down what was there.
InsertsWhereAsked ==
  \A done \in {d \in Done : d.cmd.num > 0 /\ App[d.cmd.of] = NoApp} :
    LET c == done.cmd
        new == RuleOf(c, c.item)
    IN (\A r \in Range(rules4 \o rules6) : ~IsApp(r) /\ ~Names(c, r))
       => /\ c.num <= Len(rules4) => done.edit.r4 = InsertAt(rules4, c.num, new)
          /\ c.num > Len(rules4) =>
               done.edit.r6 = InsertAt(rules6, c.num - Len(rules4), new)

\* Deleting by text leaves nothing of what it names in the families it speaks
\* of, if all of it is stored with the action and, when it gives one, the
\* comment of the command: also when the profile has changed since.
DeletesAll ==
  \A done \in {d \in Done : d.cmd.kind = "delete"} :
    LET c == done.cmd IN
    \A lists \in {<<rules4, done.edit.r4, "v6">>, <<rules6, done.edit.r6, "v4">>} :
      (/\ c.fam # lists[3]
       /\ \A r \in Range(lists[1]) : Names(c, r) =>
            r.act = c.act /\ (IsApp(r) \/ c.note \in {NoNote, r.note}))
      => \A r \in Range(lists[2]) : ~Names(c, r)

\* app update leaves of each group exactly the rules of the profile, in its
\* order and together; a second one changes nothing (updateAppRule: "the group
\* is replaced by the profile's current expansion").
UpdateSettles ==
  \A app \in Apps, list \in {rules4, rules6} :
    LET new == Regenerated(list, app)
        items(t) == LET of == Without(new, {i \in DOMAIN new : new[i].of # t}) IN
                    [i \in DOMAIN of |-> of[i].item]
    IN
    /\ Regenerated(new, app) = new
    /\ profile[app] # <<>> =>
         \A t \in Templates :
           App[t] = app /\ (\E r \in Range(list) : r.of = t) =>
             /\ items(t) = profile[app]
             /\ \A i, j \in DOMAIN new, k \in DOMAIN new :
                  i < k /\ k < j /\ new[i].of = t /\ new[j].of = t => new[k].of = t
=============================================================================
