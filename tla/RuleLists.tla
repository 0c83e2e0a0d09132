----------------------------- MODULE RuleLists -----------------------------
(***************************************************************************)
(* The two ordered rule lists of rules.json and the functions on them:     *)
(* setRuleEngine, the deduplicated numbering of `status numbered', the     *)
(* positions of a command in each list and the twin of a rule in the other *)
(* list.                                                                   *)
(*                                                                         *)
(* A rule applies a template (addresses, interfaces, direction and         *)
(* applications) to an item: the protocol and ports one entry of an        *)
(* application profile gives, or those of a plain rule.  Template and item *)
(* are what TupleKey compares.  Action and log are one field.              *)
(***************************************************************************)
EXTENDS Integers, Sequences, FiniteSets, SequencesExt

CONSTANTS Templates,
          Items,
          Apps,
          NoApp,     \* the application of a plain template
          App,       \* the application of each template
          Tuple,     \* AppTuple: what names a template's rules as one group
          Ends,      \* its addresses and applications, which setRuleEngine compares
          Actions,
          Notes,     \* comments
          NoNote

ASSUME TemplatesAssumption ==
  /\ NoApp \notin Apps
  /\ App \in [Templates -> Apps \cup {NoApp}]
  /\ DOMAIN Tuple = Templates
  /\ DOMAIN Ends = Templates
  /\ NoNote \in Notes

Rule == [of : Templates, item : Items, act : Actions, note : Notes,
         till : {"never", "later", "past"}]

IsApp(r) == App[r.of] # NoApp
SameItem(r, new) == r.item = new.item   \* plausible bug: applications are not compared
SameKey(r, new) == r.of = new.of /\ r.item = new.item
Exact(r, new) == SameKey(r, new) /\ r.act = new.act /\ r.note = new.note
Commented(r, new) == SameKey(r, new) /\ r.act = new.act /\ r.note # new.note

Without(list, gone) ==
  FlattenSeq([i \in DOMAIN list |-> IF i \in gone THEN <<>> ELSE <<list[i]>>])

-----------------------------------------------------------------------------
(* setRuleEngine on one list. *)

GluedNever(list, i) == FALSE    \* plausible bug: groups are not looked for

\* An insertion slides past a rule that goes with the one before it.
Glued(list, i) ==
  /\ i > 1
  /\ IsApp(list[i - 1])
  /\ IsApp(list[i])
  /\ Ends[list[i - 1].of] = Ends[list[i].of]

Slots(list, pos) ==
  IF pos = 0 THEN {} ELSE {i \in pos .. Len(list) : ~Glued(list, i)}

Slot(list, pos) == Min(Slots(list, pos))

\* The rule is stored already, with whatever action or comment.
Stored(list, new) == {i \in DOMAIN list : SameKey(list[i], new)}

InsertAnyway(list, new, pos) ==  \* plausible bug: the matches are not looked at
  [list |-> InsertAt(list, Slot(list, pos), new), did |-> "inserted"]

Insert(list, new, pos) ==
  IF Stored(list, new) # {} THEN [list |-> list, did |-> "skipped"]
  ELSE [list |-> InsertAt(list, Slot(list, pos), new), did |-> "inserted"]

Differs(list, new) == {i \in Stored(list, new) : ~Exact(list[i], new)}

\* An entry that differs in action or comment is replaced where it stands, and
\* the first match with it.
Replaced(list, new) ==
  [i \in DOMAIN list |->
     IF \/ i \in Differs(list, new)
        \/ i \in Stored(list, new) /\ \A j \in Stored(list, new) : i <= j
     THEN new ELSE list[i]]

Put(list, new) ==
  IF Stored(list, new) = {} THEN [list |-> Append(list, new), did |-> "added"]
  ELSE IF Differs(list, new) = {} THEN [list |-> list, did |-> "skipped"]
  ELSE [list |-> Replaced(list, new), did |-> "updated"]

TakeExact(list, new) ==   \* plausible bug: the comment has to be given
  LET gone == {i \in DOMAIN list : Exact(list[i], new)}
  IN IF gone = {} THEN [list |-> list, did |-> "notFound"]
     ELSE [list |-> Without(list, gone), did |-> "deleted"]

\* A deletion without a comment takes the rule whatever its comment; of exact
\* matches only the first.
Take(list, new) ==
  LET commented == {i \in DOMAIN list : new.note = NoNote /\ Commented(list[i], new)}
      exact == {i \in DOMAIN list : Exact(list[i], new)}
      gone == commented \cup
              {i \in exact : \A j \in commented \cup exact : i <= j}
  IN IF gone = {} THEN [list |-> list, did |-> "notFound"]
     ELSE [list |-> Without(list, gone), did |-> "deleted"]

SetRule(list, new, pos, remove) ==
  CASE remove -> Take(list, new)
    [] ~remove /\ Slots(list, pos) # {} -> Insert(list, new, pos)
    [] OTHER -> Put(list, new)

-----------------------------------------------------------------------------
(* Numbers as `status numbered' shows them: a group counts once. *)

Shown(list) ==
  {i \in DOMAIN list : IsApp(list[i]) =>
     \A j \in 1 .. i - 1 : IsApp(list[j]) => Tuple[list[j].of] # Tuple[list[i].of]}

Deduped(list) == Cardinality(Shown(list))

\* The index of the n-th shown rule, 0 when there is none.
Numbered(list, n) ==
  IF n \notin 1 .. Deduped(list) THEN 0
  ELSE CHOOSE i \in Shown(list) : Cardinality({j \in Shown(list) : j <= i}) = n

V4Position(pos, count, n4) ==
  CASE pos = -1 -> IF count = 0 /\ n4 = 0 THEN 0 ELSE 1
    [] pos > n4 -> -1
    [] OTHER -> pos

V6PositionShown(pos, count, n4, n6) ==   \* plausible bug: IPv4 rules are counted
  IF pos = -1 THEN IF count = 0 /\ n6 = 0 THEN 0 ELSE 1 ELSE pos

V6Position(pos, count, n4, n6) ==
  CASE pos = -1 -> IF count = 0 /\ n6 = 0 THEN 0 ELSE 1
    [] pos > n4 -> pos - n4
    [] OTHER -> IF pos = 0 THEN 0 ELSE -1

\* The place in `other' of the twin of the rule at `position', 0 without one.
OtherPosition(list, other, position) ==
  LET offset == Cardinality((1 .. position) \ Shown(list))
      index == position + offset
      twins == {i \in DOMAIN other : Exact(other[i], list[index])}
  IN IF position \notin DOMAIN list \/ index > Len(list) \/ twins = {} THEN 0
     ELSE Min(twins)

Sweep(list) == Without(list, {i \in DOMAIN list : list[i].till = "past"})
=============================================================================
