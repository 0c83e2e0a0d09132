--------------------------- MODULE Objects_proof ---------------------------
(***************************************************************************)
(* The properties of sets, NAT rules, switches and documents, for every    *)
(* target, set, document and number of commands.                           *)
(*                                                                         *)
(* A merge is a fold along the document; it is followed rule by rule       *)
(* (Placed: what the first k rules of the document leave of a list).       *)
(* Whether ids stay apart rests on Owned: wherever an id is found, in the  *)
(* file or in the document at hand, it is that of one key.                 *)
(***************************************************************************)
EXTENDS ObjectsProps, SequenceLemmas, FiniteSetTheorems

-----------------------------------------------------------------------------
(* Merging the rules of a document: where a rule stands, what becomes of the *)
(* list rule by rule (mergeRules, ruleIndex).                              *)

\* A list with some entries dropped is a sequence of the others, in their order.
LEMMA DropIs ==
  ASSUME NEW S, NEW list \in Seq(S), NEW gone
  PROVE  /\ Drop(list, gone) \in Seq(S)
         /\ \E q : Picks(q, Drop(list, gone), list, gone)
BY StayingIs DEF Drop, Staying

\* Where the rule stands that a rule matches.
LEMMA PlaceIs ==
  ASSUME NEW rules \in Seq(Rule), NEW nr
  PROVE  \/ /\ Place(rules, nr) = 0
            /\ \A i \in 1 .. Len(rules) : ~SameRule(rules[i], nr)
         \/ /\ Place(rules, nr) \in 1 .. Len(rules)
            /\ SameRule(rules[Place(rules, nr)], nr)
            /\ \A i \in 1 .. Len(rules) : SameRule(rules[i], nr) => Place(rules, nr) <= i
<1> DEFINE I == {i \in 1 .. Len(rules) : SameRule(rules[i], nr)}
<1>1. Place(rules, nr) = IF I # {} THEN Min(I) ELSE 0
  BY DEF Place, SelectInSeq
<1>2. CASE I = {}
  BY <1>1, <1>2
<1>3. CASE I # {}
  <2>1. \E i \in I : \A j \in I : i <= j
    <3>1. I \in SUBSET Nat
      OBVIOUS
    <3> HIDE DEF I
    <3> QED
      BY <1>3, <3>1, Smallest
  <2>2. Place(rules, nr) \in I /\ \A j \in I : Place(rules, nr) <= j
    <3>1. Place(rules, nr) = CHOOSE i \in I : \A j \in I : i <= j
      BY <1>1, <1>3 DEF Min
    <3> HIDE DEF I
    <3> QED
      BY <2>1, <3>1
  <2> QED
    BY <2>2
<1> QED
  BY <1>2, <1>3

\* What a merge has at work: a list, and how many ids are given.
Merging == [rules : Seq(Rule), ids : Nat]

\* What it makes of a rule of the document.
LEMMA MergeRuleIs ==
  ASSUME NEW acc \in Merging, NEW nr \in Rule
  PROVE  LET j == Place(acc.rules, nr)
             next == MergeRule(acc, nr)
         IN /\ next \in Merging
            /\ j # 0 => /\ next.ids = acc.ids /\ Len(next.rules) = Len(acc.rules)
                        /\ \A i \in 1 .. Len(acc.rules) : i # j => next.rules[i] = acc.rules[i]
                        /\ next.rules[j] = [acc.rules[j] EXCEPT !.action = nr.action]
            /\ j = 0 => /\ Len(next.rules) = Len(acc.rules) + 1
                        /\ \A i \in 1 .. Len(acc.rules) : next.rules[i] = acc.rules[i]
                        /\ SameRule(next.rules[Len(acc.rules) + 1], nr)
                        /\ next.rules[Len(acc.rules) + 1].action = nr.action
                        /\ \/ /\ next.ids = acc.ids + 1
                              /\ next.rules[Len(acc.rules) + 1].id = acc.ids + 1
                           \/ /\ next.ids = acc.ids /\ nr.id # 0
                              /\ \A i \in 1 .. Len(acc.rules) : acc.rules[i].id # nr.id
                              /\ next.rules[Len(acc.rules) + 1].id = nr.id
<1> DEFINE j == Place(acc.rules, nr)
           next == MergeRule(acc, nr)
           rules == acc.rules
           n == Len(rules)
<1>1. rules \in Seq(Rule) /\ acc.ids \in Nat /\ n \in Nat /\ acc = [rules |-> rules, ids |-> acc.ids]
  BY DEF Merging
<1>2. CASE j # 0
  <2>1. j \in 1 .. n /\ SameRule(rules[j], nr) /\ rules[j] \in Rule
    BY <1>1, <1>2, PlaceIs
  <2> DEFINE new == [nr EXCEPT !.id = rules[j].id, !.disabled = rules[j].disabled]
             same == [rules[j] EXCEPT !.action = nr.action]
  <2>2. new = same /\ new \in Rule
    BY <2>1 DEF Rule, SameRule
  <2>3. next.ids = acc.ids /\ next.rules = IF Exact(rules[j], nr) THEN rules ELSE [rules EXCEPT ![j] = new]
    BY <1>1, <1>2 DEF MergeRule
  <2>4. Exact(rules[j], nr) => same = rules[j]
    BY <2>1 DEF Rule, Exact
  <2> HIDE DEF j, new, same, next
  <2>5. CASE Exact(rules[j], nr)
    <3>1. next = [rules |-> rules, ids |-> acc.ids]
      BY <1>1, <1>2, <2>5 DEF MergeRule, next, j
    <3> QED
      BY <1>1, <1>2, <2>1, <2>3, <2>4, <2>5, <3>1 DEF Merging, j, next, same
  <2>6. CASE ~Exact(rules[j], nr)
    <3>1. next = [acc EXCEPT !.rules[j] = new]
      BY <1>1, <1>2, <2>6 DEF MergeRule, next, j, new
    <3>2. [rules EXCEPT ![j] = new] \in Seq(Rule)
      BY <1>1, <2>1, <2>2
    <3>3. next = [rules |-> [rules EXCEPT ![j] = new], ids |-> acc.ids]
      BY <1>1, <3>1
    <3>4. next \in Merging
      BY <1>1, <3>2, <3>3 DEF Merging
    <3>5. /\ Len(next.rules) = n
          /\ \A i \in 1 .. n : i # j => next.rules[i] = rules[i]
          /\ next.rules[j] = same
      BY <1>1, <2>1, <2>2, <3>3
    <3> QED
      BY <1>1, <1>2, <2>3, <3>4, <3>5 DEF j, next, same
  <2> QED
    BY <2>5, <2>6
<1>3. CASE j = 0
  <2> DEFINE lacks == nr.id = 0 \/ \E r \in ToSet(rules) : r.id = nr.id
             own == [nr EXCEPT !.id = acc.ids + 1]
             new == IF lacks THEN own ELSE nr
             given == IF lacks THEN acc.ids + 1 ELSE acc.ids
  <2>1. next = [rules |-> Append(rules, new), ids |-> given]
    BY <1>1, <1>3 DEF MergeRule
  <2>0. own \in Rule /\ SameRule(own, nr) /\ own.action = nr.action /\ own.id = acc.ids + 1
    <3>1. own \in Rule
      BY <1>1 DEF Rule
    <3>2. own.item = nr.item /\ own.set = nr.set /\ own.action = nr.action
      BY DEF Rule
    <3>3. own.id = acc.ids + 1
      BY DEF Rule
    <3> QED
      BY <3>1, <3>2, <3>3 DEF SameRule
  <2>7. ~lacks => nr.id # 0 /\ \A i \in 1 .. n : rules[i].id # nr.id
    <3>1. \A i \in 1 .. n : rules[i] \in ToSet(rules)
      BY <1>1 DEF ToSet
    <3> QED
      BY <3>1
  <2> HIDE DEF own, lacks
  <2>2. new \in Rule /\ given \in Nat /\ SameRule(new, nr) /\ new.action = nr.action
    BY <1>1, <2>0 DEF SameRule
  <2>3. \/ given = acc.ids + 1 /\ new.id = acc.ids + 1
        \/ /\ given = acc.ids /\ nr.id # 0 /\ new.id = nr.id
           /\ \A i \in 1 .. n : rules[i].id # nr.id
    BY <2>0, <2>7
  <2> HIDE DEF new, given, next, j
  <2>4. /\ Append(rules, new) \in Seq(Rule) /\ Len(Append(rules, new)) = n + 1
        /\ Append(rules, new)[n + 1] = new
        /\ \A i \in 1 .. n : Append(rules, new)[i] = rules[i]
    BY <1>1, <2>2
  <2>5. next \in Merging
    BY <2>1, <2>2, <2>4 DEF Merging
  <2>6. next.rules = Append(rules, new) /\ next.ids = given
    BY <2>1
  <2> QED
    BY <1>3, <2>2, <2>3, <2>4, <2>5, <2>6 DEF j, next
<1> QED
  BY <1>2, <1>3

\* A merge goes along the rules of the document.
LEMMA MergeTrace ==
  ASSUME NEW rules \in Seq(Rule), NEW src \in Seq(Rule), NEW given \in Nat
  PROVE  \E t \in [0 .. Len(src) -> Merging] :
            /\ t[0] = [rules |-> rules, ids |-> given]
            /\ \A i \in 1 .. Len(src) : t[i] = MergeRule(t[i - 1], src[i])
            /\ MergeRules(rules, src, given) = t[Len(src)]
<1> DEFINE base == [rules |-> rules, ids |-> given]
           n == Len(src)
           o == [p \in Merging \X (1 .. n) |-> MergeRule(p[1], src[p[2]])]
           R(h) == h = [x \in SUBSET DOMAIN src |->
                          IF x = {} THEN base ELSE MergeRule(h[x \ {Max(x)}], src[Max(x)])]
           h == CHOOSE h : R(h)
<1>1. n \in Nat /\ DOMAIN src = 1 .. n /\ \A i \in 1 .. n : src[i] \in Rule
  OBVIOUS
<1>2. base \in Merging
  BY DEF Merging
<1>3. o \in [Merging \X (1 .. n) -> Merging]
  <2>1. \A a \in Merging, r \in Rule : MergeRule(a, r) \in Merging
    BY MergeRuleIs
  <2> QED
    BY <1>1, <2>1
<1> HIDE DEF base
<1>4. PICK g \in [SUBSET (1 .. n) -> Merging] : Folds(g, base, o, n)
  <2> HIDE DEF o, n
  <2> QED
    BY <1>1, <1>2, <1>3, FoldExists
<1>5. R(g)
  <2>1. ASSUME NEW x \in SUBSET (1 .. n), x # {}
        PROVE  g[x] = MergeRule(g[x \ {Max(x)}], src[Max(x)])
    <3>1. g[x] = o[<<g[x \ {Max(x)}], Max(x)>>]
      BY <1>4, <2>1 DEF Folds
    <3>2. Max(x) \in 1 .. n
      BY <1>1, <2>1, MaxIn
    <3>3. x \ {Max(x)} \in SUBSET (1 .. n)
      OBVIOUS
    <3>4. g[x \ {Max(x)}] \in Merging
      BY <3>3
    <3> QED
      BY <3>1, <3>2, <3>4
  <2>2. g[{}] = base
    BY <1>4 DEF Folds
  <2>3. g = [x \in SUBSET (1 .. n) |-> g[x]]
    OBVIOUS
  <2> HIDE DEF o
  <2>4. \A x \in SUBSET (1 .. n) :
          g[x] = IF x = {} THEN base ELSE MergeRule(g[x \ {Max(x)}], src[Max(x)])
    BY <2>1, <2>2
  <2> QED
    BY <1>1, <2>3, <2>4
<1>6. R(h)
  <2>1. \E f : R(f)
    BY <1>5
  <2> QED
    BY <2>1, Zenon
<1>7. MergeRules(rules, src, given) = h[DOMAIN src]
  BY DEF MergeRules, FoldLeft, MapThenFoldSet, Max, base
<1> HIDE DEF h
<1>8. \A x \in SUBSET (1 .. n) :
        h[x] = IF x = {} THEN base ELSE MergeRule(h[x \ {Max(x)}], src[Max(x)])
  BY <1>1, <1>6
<1>9. h[{}] = base
  BY <1>8
<1>10. Follows(h, o, Merging, n)
  <2> SUFFICES ASSUME NEW i \in 1 .. n, h[1 .. i - 1] \in Merging
               PROVE  h[1 .. i] = o[<<h[1 .. i - 1], i>>]
    BY DEF Follows
  <2>1. /\ 1 .. i \in SUBSET (1 .. n) /\ 1 .. i # {}
        /\ (1 .. i) \ {i} = 1 .. i - 1 /\ Max(1 .. i) = i
    BY <1>1, UpTo
  <2>3. h[1 .. i] = MergeRule(h[1 .. i - 1], src[i])
    BY <1>8, <2>1
  <2> QED
    BY <2>3
<1>11. Runs(h, base, o, Merging, n)
  <2> HIDE DEF o, n
  <2> QED
    BY <1>1, <1>2, <1>3, <1>9, <1>10, FoldFollows
<1>12. PICK t \in [0 .. n -> Merging] :
         /\ t[0] = base
         /\ \A i \in 1 .. n : t[i] = o[<<t[i - 1], i>>]
         /\ h[1 .. n] = t[n]
  BY <1>11 DEF Runs
<1>13. \A i \in 1 .. n : t[i] = MergeRule(t[i - 1], src[i])
  <2> TAKE i \in 1 .. n
  <2>1. i - 1 \in 0 .. n /\ t[i - 1] \in Merging
    BY <1>1
  <2> QED
    BY <1>12, <2>1
<1>14. MergeRules(rules, src, given) = t[n]
  BY <1>1, <1>7, <1>12
<1> HIDE DEF n, o
<1> QED
  BY <1>12, <1>13, <1>14 DEF base, n

\* A list without two rules of one key.
OneEach(rules) ==
  \A i, j \in 1 .. Len(rules) : SameRule(rules[i], rules[j]) => i = j

\* What the first k rules of a document leave of a list.
Placed(acc, rules, given, src, k) ==
  /\ Len(rules) <= Len(acc.rules)
  /\ Len(acc.rules) = Len(rules) => acc.ids = given
  /\ \A p \in 1 .. Len(rules) :
       /\ SameRule(acc.rules[p], rules[p])
       /\ acc.rules[p].id = rules[p].id /\ acc.rules[p].disabled = rules[p].disabled
       /\ \/ acc.rules[p].action = rules[p].action
          \/ \E m \in 1 .. k : SameRule(src[m], rules[p])
  /\ \A p \in Len(rules) + 1 .. Len(acc.rules) :
       acc.rules[p].id # 0 /\ \E m \in 1 .. k : SameRule(src[m], acc.rules[p])
  /\ \A m \in 1 .. k : \E p \in 1 .. Len(acc.rules) : SameRule(src[m], acc.rules[p])
  /\ \A p \in 1 .. Len(acc.rules) : \A m \in 1 .. k :
       /\ SameRule(src[m], acc.rules[p])
       /\ \A l \in m + 1 .. k : ~SameRule(src[l], acc.rules[p])
       => acc.rules[p].action = src[m].action

\* Keys are the same or they are not.
LEMMA KeysAlike ==
  /\ \A a : SameRule(a, a)
  /\ \A a, b : SameRule(a, b) => SameRule(b, a)
  /\ \A a, b, c : SameRule(a, b) /\ SameRule(b, c) => SameRule(a, c)
BY DEF SameRule

\* One more rule of the document.
LEMMA PlacedStep ==
  ASSUME NEW rules \in Seq(Rule), NEW src \in Seq(Rule), NEW given \in Nat,
         NEW k \in 1 .. Len(src), NEW acc \in Merging,
         OneEach(acc.rules), Placed(acc, rules, given, src, k - 1)
  PROVE  /\ OneEach(MergeRule(acc, src[k]).rules)
         /\ Placed(MergeRule(acc, src[k]), rules, given, src, k)
<1> DEFINE nr == src[k]
           j == Place(acc.rules, nr)
           next == MergeRule(acc, nr)
           n == Len(rules)
           old == acc.rules
           new == next.rules
<1>1. /\ nr \in Rule /\ n \in Nat /\ old \in Seq(Rule) /\ acc.ids \in Nat /\ next \in Merging
      /\ k \in Nat /\ Len(old) \in Nat /\ new \in Seq(Rule) /\ Len(new) \in Nat
  <2>1. nr \in Rule /\ n \in Nat /\ old \in Seq(Rule) /\ acc.ids \in Nat /\ k \in Nat
    BY DEF Merging
  <2>2. next \in Merging
    <3> HIDE DEF nr
    <3> QED
      BY <2>1, MergeRuleIs
  <2> HIDE DEF nr, next
  <2> QED
    BY <2>1, <2>2 DEF Merging
<1>2. /\ n <= Len(old)
      /\ Len(old) = n => acc.ids = given
      /\ \A p \in 1 .. n :
           /\ SameRule(old[p], rules[p])
           /\ old[p].id = rules[p].id /\ old[p].disabled = rules[p].disabled
           /\ \/ old[p].action = rules[p].action
              \/ \E m \in 1 .. k - 1 : SameRule(src[m], rules[p])
      /\ \A p \in n + 1 .. Len(old) :
           old[p].id # 0 /\ \E m \in 1 .. k - 1 : SameRule(src[m], old[p])
      /\ \A m \in 1 .. k - 1 : \E p \in 1 .. Len(old) : SameRule(src[m], old[p])
      /\ \A p \in 1 .. Len(old) : \A m \in 1 .. k - 1 :
           /\ SameRule(src[m], old[p])
           /\ \A l \in m + 1 .. k - 1 : ~SameRule(src[l], old[p])
           => old[p].action = src[m].action
      /\ \A p, q \in 1 .. Len(old) : SameRule(old[p], old[q]) => p = q
  BY DEF Placed, OneEach
<1>3. \/ /\ j = 0
         /\ \A i \in 1 .. Len(old) : ~SameRule(old[i], nr)
      \/ /\ j \in 1 .. Len(old)
         /\ SameRule(old[j], nr)
  BY <1>1, PlaceIs
<1>31. \A m \in 1 .. k : m \in 1 .. k - 1 \/ (m = k /\ src[m] = nr)
  BY <1>1
<1>32. \A m \in 1 .. k - 1 : m \in 1 .. k /\ m < k
  BY <1>1
<1>33. k \in 1 .. k
  BY <1>1
<1>4. CASE j # 0
  <2>1. /\ next.ids = acc.ids /\ Len(new) = Len(old)
        /\ \A i \in 1 .. Len(old) : i # j => new[i] = old[i]
        /\ new[j] = [old[j] EXCEPT !.action = nr.action]
    BY <1>1, <1>4, MergeRuleIs
  <2>2. j \in 1 .. Len(old) /\ SameRule(old[j], nr) /\ old[j] \in Rule
    BY <1>1, <1>3, <1>4
  <2>3. /\ SameRule(new[j], old[j]) /\ new[j].id = old[j].id /\ new[j].disabled = old[j].disabled
        /\ new[j].action = nr.action
    BY <2>1, <2>2 DEF Rule, SameRule
  <2> HIDE DEF j, next, new, old, n, nr
  <2>4. /\ SameRule(nr, new[j])
        /\ \A i \in 1 .. Len(old) : SameRule(new[i], old[i])
    BY <2>1, <2>2, <2>3, KeysAlike
  <2>5. \A i \in 1 .. Len(old) : SameRule(new[i], nr) => i = j
    BY <1>2, <2>2, <2>4, KeysAlike
  <2>6. \A p, q \in 1 .. Len(new) : SameRule(new[p], new[q]) => p = q
    BY <1>2, <2>1, <2>4, KeysAlike
  <2>7. ASSUME NEW p \in 1 .. n
        PROVE  /\ SameRule(new[p], rules[p])
               /\ new[p].id = rules[p].id /\ new[p].disabled = rules[p].disabled
               /\ \/ new[p].action = rules[p].action
                  \/ \E m \in 1 .. k : SameRule(src[m], rules[p])
    <3>1. p \in 1 .. Len(old)
      BY <1>1, <1>2
    <3>2. SameRule(new[p], rules[p]) /\ SameRule(old[p], rules[p])
      BY <1>2, <2>4, <3>1, KeysAlike
    <3>3. CASE p = j
      <4>1. SameRule(nr, rules[p])
        BY <2>4, <3>2, <3>3, KeysAlike
      <4> QED
        BY <1>2, <1>33, <2>3, <3>2, <3>3, <4>1 DEF nr
    <3>4. CASE p # j
      BY <1>2, <1>32, <2>1, <3>1, <3>2, <3>4
    <3> QED
      BY <3>3, <3>4
  <2>8. ASSUME NEW p \in n + 1 .. Len(new)
        PROVE  new[p].id # 0 /\ \E m \in 1 .. k : SameRule(src[m], new[p])
    <3>1. PICK m \in 1 .. k - 1 : SameRule(src[m], old[p])
      BY <1>2, <2>1
    <3>2. p \in 1 .. Len(old)
      BY <1>1, <2>1
    <3>3. new[p].id = old[p].id /\ old[p].id # 0
      <4>1. old[p].id # 0
        BY <1>2, <2>1
      <4>2. CASE p = j
        BY <2>3, <4>1, <4>2
      <4>3. CASE p # j
        BY <2>1, <3>2, <4>1, <4>3
      <4> QED
        BY <4>2, <4>3
    <3> QED
      BY <1>32, <2>4, <3>1, <3>2, <3>3, KeysAlike
  <2>9. ASSUME NEW m \in 1 .. k
        PROVE  \E p \in 1 .. Len(new) : SameRule(src[m], new[p])
    <3>1. CASE m \in 1 .. k - 1
      <4>1. PICK p \in 1 .. Len(old) : SameRule(src[m], old[p])
        BY <1>2, <3>1
      <4> QED
        BY <2>1, <2>4, <4>1, KeysAlike
    <3>2. CASE m = k /\ src[m] = nr
      BY <2>1, <2>2, <2>4, <3>2
    <3> QED
      BY <1>31, <3>1, <3>2
  <2>10. ASSUME NEW p \in 1 .. Len(new), NEW m \in 1 .. k,
                SameRule(src[m], new[p]), \A l \in m + 1 .. k : ~SameRule(src[l], new[p])
         PROVE  new[p].action = src[m].action
    <3>1. CASE m \in 1 .. k - 1
      <4>1. k \in m + 1 .. k
        BY <1>1, <3>1
      <4>2. ~SameRule(nr, new[p])
        BY <2>10, <4>1 DEF nr
      <4>3. p # j
        BY <2>4, <4>2
      <4>4. new[p] = old[p] /\ p \in 1 .. Len(old)
        BY <2>1, <4>3
      <4>5. \A l \in m + 1 .. k - 1 : l \in m + 1 .. k
        BY <1>1
      <4>6. SameRule(src[m], old[p]) /\ \A l \in m + 1 .. k - 1 : ~SameRule(src[l], old[p])
        BY <2>10, <4>4, <4>5
      <4>7. SameRule(src[m], old[p]) /\ (\A l \in m + 1 .. k - 1 : ~SameRule(src[l], old[p]))
            => old[p].action = src[m].action
        BY <1>2, <3>1, <4>4
      <4> QED
        BY <4>4, <4>6, <4>7
    <3>2. CASE m = k /\ src[m] = nr
      <4>1. p = j
        BY <2>1, <2>5, <2>10, <3>2, KeysAlike
      <4> QED
        BY <2>3, <3>2, <4>1
    <3> QED
      BY <1>31, <3>1, <3>2
  <2>11. n <= Len(new) /\ (Len(new) = n => next.ids = given)
    BY <1>2, <2>1
  <2>12. OneEach(next.rules)
    BY <2>6 DEF OneEach, new
  <2>13. \A p \in 1 .. Len(new) : \A m \in 1 .. k :
           SameRule(src[m], new[p]) /\ (\A l \in m + 1 .. k : ~SameRule(src[l], new[p]))
           => new[p].action = src[m].action
    BY <2>10
  <2>14. Placed(next, rules, given, src, k)
    BY <2>7, <2>8, <2>9, <2>11, <2>13 DEF Placed, new, n
  <2> QED
    BY <2>12, <2>14 DEF next, nr
<1>5. CASE j = 0
  <2> DEFINE e == Len(old) + 1
  <2>1. /\ Len(new) = e
        /\ \A i \in 1 .. Len(old) : new[i] = old[i]
        /\ SameRule(new[e], nr) /\ new[e].action = nr.action /\ new[e].id # 0
    <3>1. acc.ids + 1 # 0
      BY <1>1
    <3>2. /\ Len(new) = e
          /\ \A i \in 1 .. Len(old) : new[i] = old[i]
          /\ SameRule(new[e], nr) /\ new[e].action = nr.action
          /\ new[e].id = acc.ids + 1 \/ (nr.id # 0 /\ new[e].id = nr.id)
      BY <1>1, <1>5, MergeRuleIs
    <3> HIDE DEF new, old, nr, e
    <3> QED
      BY <3>1, <3>2
  <2> HIDE DEF j, next, new, old, n, nr
  <2>2. \A i \in 1 .. Len(old) : ~SameRule(old[i], nr)
    BY <1>3, <1>5
  <2>3. \A p \in 1 .. Len(new) : p \in 1 .. Len(old) \/ p = e
    BY <1>1, <2>1
  <2>4. \A p \in 1 .. Len(old) : p \in 1 .. Len(new) /\ p # e
    BY <1>1, <2>1
  <2>5. e \in 1 .. Len(new) /\ n + 1 <= e
    BY <1>1, <1>2, <2>1
  <2> HIDE DEF e
  <2>6. \A p, q \in 1 .. Len(new) : SameRule(new[p], new[q]) => p = q
    <3> TAKE p, q \in 1 .. Len(new)
    <3> HAVE SameRule(new[p], new[q])
    <3>1. CASE p = e /\ q # e
      <4>1. q \in 1 .. Len(old) /\ new[q] = old[q]
        BY <2>1, <2>3, <3>1
      <4>2. SameRule(old[q], nr)
        BY <2>1, <3>1, <4>1, KeysAlike
      <4> QED
        BY <2>2, <4>1, <4>2
    <3>2. CASE p # e /\ q = e
      <4>1. p \in 1 .. Len(old) /\ new[p] = old[p]
        BY <2>1, <2>3, <3>2
      <4>2. SameRule(old[p], nr)
        BY <2>1, <3>2, <4>1, KeysAlike
      <4> QED
        BY <2>2, <4>1, <4>2
    <3>3. CASE p # e /\ q # e
      <4>1. p \in 1 .. Len(old) /\ new[p] = old[p] /\ q \in 1 .. Len(old) /\ new[q] = old[q]
        BY <2>1, <2>3, <3>3
      <4> QED
        BY <1>2, <4>1
    <3> QED
      BY <3>1, <3>2, <3>3
  <2>7. ASSUME NEW p \in 1 .. n
        PROVE  /\ SameRule(new[p], rules[p])
               /\ new[p].id = rules[p].id /\ new[p].disabled = rules[p].disabled
               /\ \/ new[p].action = rules[p].action
                  \/ \E m \in 1 .. k : SameRule(src[m], rules[p])
    <3>1. p \in 1 .. Len(old)
      BY <1>1, <1>2
    <3>2. new[p] = old[p]
      BY <2>1, <3>1
    <3> QED
      BY <1>2, <1>32, <3>2
  <2>8. ASSUME NEW p \in n + 1 .. Len(new)
        PROVE  new[p].id # 0 /\ \E m \in 1 .. k : SameRule(src[m], new[p])
    <3>1. p \in 1 .. Len(new)
      BY <1>1
    <3>2. CASE p = e
      BY <1>33, <2>1, <3>2, KeysAlike DEF nr
    <3>3. CASE p \in 1 .. Len(old)
      <4>1. p \in n + 1 .. Len(old) /\ new[p] = old[p]
        BY <1>1, <2>1, <3>3
      <4> QED
        BY <1>2, <1>32, <4>1
    <3> QED
      BY <2>3, <3>1, <3>2, <3>3
  <2>9. ASSUME NEW m \in 1 .. k
        PROVE  \E p \in 1 .. Len(new) : SameRule(src[m], new[p])
    <3>1. CASE m \in 1 .. k - 1
      BY <1>2, <2>1, <2>4, <3>1
    <3>2. CASE m = k /\ src[m] = nr
      BY <2>1, <2>5, <3>2, KeysAlike
    <3> QED
      BY <1>31, <3>1, <3>2
  <2>10. ASSUME NEW p \in 1 .. Len(new), NEW m \in 1 .. k,
                SameRule(src[m], new[p]), \A l \in m + 1 .. k : ~SameRule(src[l], new[p])
         PROVE  new[p].action = src[m].action
    <3>1. CASE m \in 1 .. k - 1
      <4>1. k \in m + 1 .. k
        BY <1>1, <3>1
      <4>2. ~SameRule(nr, new[p])
        BY <2>10, <4>1 DEF nr
      <4>3. p # e
        BY <2>1, <4>2, KeysAlike
      <4>4. new[p] = old[p] /\ p \in 1 .. Len(old)
        BY <2>1, <2>3, <4>3
      <4>5. \A l \in m + 1 .. k - 1 : l \in m + 1 .. k
        BY <1>1
      <4>6. SameRule(src[m], old[p]) /\ \A l \in m + 1 .. k - 1 : ~SameRule(src[l], old[p])
        BY <2>10, <4>4, <4>5
      <4>7. SameRule(src[m], old[p]) /\ (\A l \in m + 1 .. k - 1 : ~SameRule(src[l], old[p]))
            => old[p].action = src[m].action
        BY <1>2, <3>1, <4>4
      <4> QED
        BY <4>4, <4>6, <4>7
    <3>2. CASE m = k /\ src[m] = nr
      <4>1. p = e
        <5>1. CASE p \in 1 .. Len(old)
          <6>1. new[p] = old[p] /\ SameRule(nr, old[p])
            BY <2>1, <2>10, <3>2, <5>1
          <6> QED
            BY <2>2, <5>1, <6>1, KeysAlike
        <5> QED
          BY <2>3, <5>1
      <4> QED
        BY <2>1, <3>2, <4>1
    <3> QED
      BY <1>31, <3>1, <3>2
  <2>11. n <= Len(new) /\ (Len(new) = n => next.ids = given)
    BY <1>1, <1>2, <2>1, <2>5 DEF e
  <2>12. OneEach(next.rules)
    BY <2>6 DEF OneEach, new
  <2>13. \A p \in 1 .. Len(new) : \A m \in 1 .. k :
           SameRule(src[m], new[p]) /\ (\A l \in m + 1 .. k : ~SameRule(src[l], new[p]))
           => new[p].action = src[m].action
    BY <2>10
  <2>14. Placed(next, rules, given, src, k)
    BY <2>7, <2>8, <2>9, <2>11, <2>13 DEF Placed, new, n
  <2> QED
    BY <2>12, <2>14 DEF next, nr
<1> QED
  BY <1>4, <1>5

\* What a whole document leaves of a list with one rule of each key.
LEMMA MergedIs ==
  ASSUME NEW rules \in Seq(Rule), NEW src \in Seq(Rule), NEW given \in Nat, OneEach(rules)
  PROVE  /\ MergeRules(rules, src, given) \in Merging
         /\ OneEach(MergeRules(rules, src, given).rules)
         /\ Placed(MergeRules(rules, src, given), rules, given, src, Len(src))
<1> DEFINE n == Len(src)
           base == [rules |-> rules, ids |-> given]
<1>1. PICK t \in [0 .. n -> Merging] :
        /\ t[0] = base
        /\ \A i \in 1 .. n : t[i] = MergeRule(t[i - 1], src[i])
        /\ MergeRules(rules, src, given) = t[n]
  BY MergeTrace
<1>2. n \in Nat
  OBVIOUS
<1> DEFINE Fine(i) == OneEach(t[i].rules) /\ Placed(t[i], rules, given, src, i)
           T == {i \in 0 .. n : ~Fine(i)}
<1>3. Fine(0)
  <2>1. OneEach(base.rules)
    OBVIOUS
  <2>2. Placed(base, rules, given, src, 0)
    BY DEF Placed, SameRule
  <2> HIDE DEF base
  <2> QED
    BY <1>1, <2>1, <2>2
<1>4. ASSUME NEW i \in 1 .. n, Fine(i - 1)
      PROVE  Fine(i)
  <2>1. t[i - 1] \in Merging /\ t[i] = MergeRule(t[i - 1], src[i])
    <3> HIDE DEF n, base
    <3>1. i - 1 \in 0 .. n
      BY <1>2
    <3> QED
      BY <1>1, <3>1
  <2>2. i \in 1 .. Len(src) /\ OneEach(t[i - 1].rules) /\ Placed(t[i - 1], rules, given, src, i - 1)
    BY <1>4
  <2>3. OneEach(MergeRule(t[i - 1], src[i]).rules)
        /\ Placed(MergeRule(t[i - 1], src[i]), rules, given, src, i)
    <3> HIDE DEF n, Fine
    <3> QED
      BY <2>1, <2>2, PlacedStep
  <2> QED
    BY <2>1, <2>3
<1> HIDE DEF Fine, n
<1>5. T = {}
  <2> SUFFICES ASSUME T # {} PROVE FALSE
    OBVIOUS
  <2>1. T \in SUBSET Nat
    BY <1>2
  <2>2. PICK i \in T : \A k \in T : i <= k
    <3> HIDE DEF T
    <3> QED
      BY <2>1, Smallest
  <2>3. i \in 0 .. n /\ ~Fine(i) /\ i # 0
    BY <1>3, <2>2
  <2>4. i \in 1 .. n /\ i - 1 \in 0 .. n /\ ~(i <= i - 1)
    BY <1>2, <2>3
  <2> QED
    BY <1>4, <2>2, <2>3, <2>4
<1>6. n \in 0 .. n
  BY <1>2
<1>7. Fine(n) /\ t[n] \in Merging
  BY <1>1, <1>5, <1>6
<1> QED
  BY <1>1, <1>7 DEF Fine, n

\* A rule is its key, its action, its id and its switch.
LEMMA SameEntry ==
  ASSUME NEW a \in Rule, NEW b \in Rule, SameRule(a, b),
         a.action = b.action, a.id = b.id, a.disabled = b.disabled
  PROVE  a = b
BY DEF Rule, SameRule

\* A document says nothing new to a list.
Agrees(rules, src) ==
  /\ \A m \in 1 .. Len(src) : \E p \in 1 .. Len(rules) : SameRule(src[m], rules[p])
  /\ \A p \in 1 .. Len(rules) : \A m \in 1 .. Len(src) :
       /\ SameRule(src[m], rules[p])
       /\ \A l \in m + 1 .. Len(src) : ~SameRule(src[l], rules[p])
       => rules[p].action = src[m].action

\* Then it leaves the list as it is.
LEMMA NothingNew ==
  ASSUME NEW rules \in Seq(Rule), NEW src \in Seq(Rule), NEW given \in Nat,
         OneEach(rules), Agrees(rules, src)
  PROVE  MergeRules(rules, src, given) = [rules |-> rules, ids |-> given]
<1> DEFINE n == Len(src)
           out == MergeRules(rules, src, given)
           new == out.rules
<1>1. /\ out \in Merging /\ OneEach(new) /\ Placed(out, rules, given, src, n)
  BY MergedIs
<1> HIDE DEF out
<1>2. /\ new \in Seq(Rule) /\ out = [rules |-> new, ids |-> out.ids] /\ Len(new) \in Nat
      /\ Len(rules) \in Nat /\ n \in Nat
  BY <1>1 DEF Merging
<1>3. /\ Len(rules) <= Len(new)
      /\ Len(new) = Len(rules) => out.ids = given
      /\ \A p \in 1 .. Len(rules) :
           /\ SameRule(new[p], rules[p])
           /\ new[p].id = rules[p].id /\ new[p].disabled = rules[p].disabled
           /\ \/ new[p].action = rules[p].action
              \/ \E m \in 1 .. n : SameRule(src[m], rules[p])
      /\ \A p \in Len(rules) + 1 .. Len(new) :
           new[p].id # 0 /\ \E m \in 1 .. n : SameRule(src[m], new[p])
  BY <1>1 DEF Placed
<1>4. \A p \in 1 .. Len(new) : \A m \in 1 .. n :
        SameRule(src[m], new[p]) /\ (\A l \in m + 1 .. n : ~SameRule(src[l], new[p]))
        => new[p].action = src[m].action
  BY <1>1 DEF Placed
<1>5. \A p, q \in 1 .. Len(new) : SameRule(new[p], new[q]) => p = q
  BY <1>1 DEF OneEach
<1>6. /\ \A m \in 1 .. n : \E p \in 1 .. Len(rules) : SameRule(src[m], rules[p])
      /\ \A p \in 1 .. Len(rules) : \A m \in 1 .. n :
           SameRule(src[m], rules[p]) /\ (\A l \in m + 1 .. n : ~SameRule(src[l], rules[p]))
           => rules[p].action = src[m].action
  BY DEF Agrees
<1> HIDE DEF new, n
<1>7. Len(new) = Len(rules)
  <2> SUFFICES ASSUME Len(rules) < Len(new) PROVE FALSE
    BY <1>2, <1>3
  <2> DEFINE p == Len(rules) + 1
  <2>1. p \in Len(rules) + 1 .. Len(new) /\ p \in 1 .. Len(new)
    BY <1>2
  <2>2. \A q \in 1 .. Len(rules) : q \in 1 .. Len(new) /\ q # p
    BY <1>2
  <2> HIDE DEF p
  <2>3. PICK m \in 1 .. n : SameRule(src[m], new[p])
    BY <1>3, <2>1
  <2>4. PICK q \in 1 .. Len(rules) : SameRule(src[m], rules[q])
    BY <1>6
  <2>5. SameRule(new[q], new[p])
    BY <1>3, <2>3, <2>4, KeysAlike
  <2> QED
    BY <1>5, <2>1, <2>2, <2>5
<1>8. ASSUME NEW p \in 1 .. Len(rules)
      PROVE  new[p] = rules[p]
  <2>1. new[p] \in Rule /\ rules[p] \in Rule
    BY <1>2, <1>7
  <2>2. SameRule(new[p], rules[p])
    BY <1>3
  <2>3. new[p].action = rules[p].action
    <3> DEFINE I == {m \in 1 .. n : SameRule(src[m], rules[p])}
    <3>1. CASE I = {}
      BY <1>3, <3>1
    <3>2. CASE I # {}
      <4>1. I \in SUBSET (1 .. n) /\ \A l \in I : l \in Int
        OBVIOUS
      <4>2. PICK m \in I : \A l \in I : l <= m
        <5> HIDE DEF I
        <5>2. \E r \in {n - x : x \in I} : \A s \in {n - x : x \in I} : r <= s
          <6>1. {n - x : x \in I} \in SUBSET Nat
            BY <1>2, <4>1
          <6>2. {n - x : x \in I} # {}
            BY <3>2
          <6> QED
            BY <6>1, <6>2, Smallest
        <5>3. PICK m \in I : \A l \in I : n - m <= n - l
          BY <5>2
        <5>4. \A l \in I : l <= m
          BY <1>2, <4>1, <5>3
        <5> QED
          BY <5>4
      <4>3. m \in 1 .. n /\ SameRule(src[m], rules[p])
        BY <4>2
      <4>4. \A l \in m + 1 .. n : ~SameRule(src[l], rules[p])
        <5> SUFFICES ASSUME NEW l \in m + 1 .. n, SameRule(src[l], rules[p]) PROVE FALSE
          OBVIOUS
        <5>1. l \in 1 .. n /\ ~(l <= m)
          BY <1>2, <4>3
        <5> QED
          BY <4>2, <5>1
      <4>5. rules[p].action = src[m].action
        BY <1>6, <4>3, <4>4
      <4>6. \A l : SameRule(src[l], new[p]) <=> SameRule(src[l], rules[p])
        BY <2>2, KeysAlike
      <4>7. p \in 1 .. Len(new)
        BY <1>7
      <4> QED
        BY <1>4, <4>3, <4>4, <4>5, <4>6, <4>7
    <3> QED
      BY <3>1, <3>2
  <2>4. new[p].id = rules[p].id /\ new[p].disabled = rules[p].disabled
    BY <1>3
  <2> QED
    BY <2>1, <2>2, <2>3, <2>4, SameEntry
<1>9. new = rules
  BY <1>2, <1>7, <1>8, SeqEqual
<1> QED
  BY <1>2, <1>3, <1>7, <1>9 DEF out

\* What was merged once says nothing new.
LEMMA OnceAgrees ==
  ASSUME NEW rules \in Seq(Rule), NEW src \in Seq(Rule), NEW given \in Nat, OneEach(rules)
  PROVE  Agrees(MergeRules(rules, src, given).rules, src)
<1> DEFINE out == MergeRules(rules, src, given)
<1>1. Placed(out, rules, given, src, Len(src))
  BY MergedIs
<1> HIDE DEF out
<1>2. /\ \A m \in 1 .. Len(src) : \E p \in 1 .. Len(out.rules) : SameRule(src[m], out.rules[p])
      /\ \A p \in 1 .. Len(out.rules) : \A m \in 1 .. Len(src) :
           SameRule(src[m], out.rules[p])
           /\ (\A l \in m + 1 .. Len(src) : ~SameRule(src[l], out.rules[p]))
           => out.rules[p].action = src[m].action
  BY <1>1 DEF Placed
<1> QED
  BY <1>2 DEF Agrees, out

\* A list with one rule of each key says nothing new to itself.
LEMMA SelfAgrees ==
  ASSUME NEW rules \in Seq(Rule), OneEach(rules)
  PROVE  Agrees(rules, rules)
<1>1. \A m \in 1 .. Len(rules) : SameRule(rules[m], rules[m])
  BY KeysAlike
<1>2. \A p, m \in 1 .. Len(rules) : SameRule(rules[m], rules[p]) => m = p
  BY DEF OneEach
<1> QED
  BY <1>1, <1>2 DEF Agrees

-----------------------------------------------------------------------------
(* Merging NAT rules and sets (mergeNAT, mergeSets).                       *)

\* A NAT rule that is merged.
LEMMA MergeNatRuleIs ==
  ASSUME NEW nat \in Seq(NATRule), NEW r \in NATRule
  PROVE  /\ MergeNatRule(nat, r) \in Seq(NATRule)
         /\ r \in ToSet(MergeNatRule(nat, r))
         /\ ToSet(nat) \subseteq ToSet(MergeNatRule(nat, r))
         /\ r \in ToSet(nat) => MergeNatRule(nat, r) = nat
<1>1. CASE r \in ToSet(nat)
  BY <1>1 DEF MergeNatRule
<1>2. CASE r \notin ToSet(nat)
  <2> DEFINE out == Append(nat, r)
  <2>1. MergeNatRule(nat, r) = out
    BY <1>2 DEF MergeNatRule
  <2>2. /\ out \in Seq(NATRule) /\ DOMAIN out = 1 .. Len(nat) + 1 /\ out[Len(nat) + 1] = r
        /\ \A i \in 1 .. Len(nat) : out[i] = nat[i]
    OBVIOUS
  <2>3. Len(nat) + 1 \in 1 .. Len(nat) + 1 /\ \A i \in 1 .. Len(nat) : i \in 1 .. Len(nat) + 1
    OBVIOUS
  <2>4. DOMAIN nat = 1 .. Len(nat)
    OBVIOUS
  <2> HIDE DEF out
  <2>5. r \in ToSet(out) /\ ToSet(nat) \subseteq ToSet(out)
    BY <2>2, <2>3, <2>4 DEF ToSet
  <2> QED
    BY <1>2, <2>1, <2>2, <2>5
<1> QED
  BY <1>1, <1>2

\* A merge of NAT rules goes along the document.
LEMMA NatTrace ==
  ASSUME NEW nat \in Seq(NATRule), NEW src \in Seq(NATRule)
  PROVE  \E t \in [0 .. Len(src) -> Seq(NATRule)] :
            /\ t[0] = nat
            /\ \A i \in 1 .. Len(src) : t[i] = MergeNatRule(t[i - 1], src[i])
            /\ MergeNat(nat, src) = t[Len(src)]
<1> DEFINE n == Len(src)
           A == Seq(NATRule)
           o == [p \in A \X (1 .. n) |-> MergeNatRule(p[1], src[p[2]])]
           R(h) == h = [x \in SUBSET DOMAIN src |->
                          IF x = {} THEN nat ELSE MergeNatRule(h[x \ {Max(x)}], src[Max(x)])]
           h == CHOOSE h : R(h)
<1>1. n \in Nat /\ DOMAIN src = 1 .. n /\ \A i \in 1 .. n : src[i] \in NATRule
  OBVIOUS
<1>2. nat \in A
  OBVIOUS
<1>3. o \in [A \X (1 .. n) -> A]
  <2>1. \A a \in A, r \in NATRule : MergeNatRule(a, r) \in A
    BY MergeNatRuleIs
  <2> HIDE DEF A
  <2> QED
    BY <1>1, <2>1
<1>7. MergeNat(nat, src) = h[DOMAIN src]
  BY DEF MergeNat, FoldLeft, MapThenFoldSet, Max
<1> HIDE DEF A
<1>4. PICK g \in [SUBSET (1 .. n) -> A] : Folds(g, nat, o, n)
  <2> HIDE DEF o, n
  <2> QED
    BY <1>1, <1>2, <1>3, FoldExists
<1>5. R(g)
  <2>1. ASSUME NEW x \in SUBSET (1 .. n), x # {}
        PROVE  g[x] = MergeNatRule(g[x \ {Max(x)}], src[Max(x)])
    <3>1. g[x] = o[<<g[x \ {Max(x)}], Max(x)>>]
      BY <1>4, <2>1 DEF Folds
    <3>2. Max(x) \in 1 .. n
      BY <1>1, <2>1, MaxIn
    <3>3. x \ {Max(x)} \in SUBSET (1 .. n)
      OBVIOUS
    <3>4. g[x \ {Max(x)}] \in A
      BY <3>3
    <3> QED
      BY <3>1, <3>2, <3>4
  <2>2. g[{}] = nat
    BY <1>4 DEF Folds
  <2>3. g = [x \in SUBSET (1 .. n) |-> g[x]]
    OBVIOUS
  <2> HIDE DEF o
  <2>4. \A x \in SUBSET (1 .. n) :
          g[x] = IF x = {} THEN nat ELSE MergeNatRule(g[x \ {Max(x)}], src[Max(x)])
    BY <2>1, <2>2
  <2> QED
    BY <1>1, <2>3, <2>4
<1>6. R(h)
  <2>1. \E f : R(f)
    BY <1>5
  <2> QED
    BY <2>1, Zenon
<1> HIDE DEF h
<1>8. \A x \in SUBSET (1 .. n) :
        h[x] = IF x = {} THEN nat ELSE MergeNatRule(h[x \ {Max(x)}], src[Max(x)])
  BY <1>1, <1>6
<1>9. h[{}] = nat
  BY <1>8
<1>10. Follows(h, o, A, n)
  <2> SUFFICES ASSUME NEW i \in 1 .. n, h[1 .. i - 1] \in A
               PROVE  h[1 .. i] = o[<<h[1 .. i - 1], i>>]
    BY DEF Follows
  <2>1. /\ 1 .. i \in SUBSET (1 .. n) /\ 1 .. i # {}
        /\ (1 .. i) \ {i} = 1 .. i - 1 /\ Max(1 .. i) = i
    BY <1>1, UpTo
  <2>3. h[1 .. i] = MergeNatRule(h[1 .. i - 1], src[i])
    BY <1>8, <2>1
  <2> QED
    BY <2>3
<1>11. Runs(h, nat, o, A, n)
  <2> HIDE DEF o, n
  <2> QED
    BY <1>1, <1>2, <1>3, <1>9, <1>10, FoldFollows
<1>12. PICK t \in [0 .. n -> A] :
         /\ t[0] = nat
         /\ \A i \in 1 .. n : t[i] = o[<<t[i - 1], i>>]
         /\ h[1 .. n] = t[n]
  BY <1>11 DEF Runs
<1>13. \A i \in 1 .. n : t[i] = MergeNatRule(t[i - 1], src[i])
  <2> TAKE i \in 1 .. n
  <2>1. i - 1 \in 0 .. n /\ t[i - 1] \in A
    BY <1>1
  <2> QED
    BY <1>12, <2>1
<1>14. MergeNat(nat, src) = t[n]
  BY <1>1, <1>7, <1>12
<1> HIDE DEF n, o
<1> QED
  BY <1>12, <1>13, <1>14 DEF n, A

\* What a merge of NAT rules comes to.
LEMMA MergeNatIs ==
  ASSUME NEW nat \in Seq(NATRule), NEW src \in Seq(NATRule)
  PROVE  /\ MergeNat(nat, src) \in Seq(NATRule)
         /\ \A m \in 1 .. Len(src) : src[m] \in ToSet(MergeNat(nat, src))
         /\ (\A m \in 1 .. Len(src) : src[m] \in ToSet(nat)) => MergeNat(nat, src) = nat
<1> DEFINE n == Len(src)
<1>1. PICK t \in [0 .. n -> Seq(NATRule)] :
        /\ t[0] = nat
        /\ \A i \in 1 .. n : t[i] = MergeNatRule(t[i - 1], src[i])
        /\ MergeNat(nat, src) = t[n]
  BY NatTrace
<1>2. n \in Nat /\ \A i \in 1 .. n : src[i] \in NATRule
  OBVIOUS
<1> DEFINE Known == \A m \in 1 .. n : src[m] \in ToSet(nat)
           Fine(i) == /\ \A m \in 1 .. i : src[m] \in ToSet(t[i])
                      /\ Known => t[i] = nat
           T == {i \in 0 .. n : ~Fine(i)}
<1>3. Fine(0)
  BY <1>1
<1>4. ASSUME NEW i \in 1 .. n, Fine(i - 1)
      PROVE  Fine(i)
  <2> HIDE DEF n
  <2>1. t[i - 1] \in Seq(NATRule) /\ t[i] = MergeNatRule(t[i - 1], src[i])
    <3>1. i - 1 \in 0 .. n
      BY <1>2
    <3> QED
      BY <1>1, <3>1
  <2>2. /\ src[i] \in ToSet(t[i]) /\ ToSet(t[i - 1]) \subseteq ToSet(t[i])
        /\ src[i] \in ToSet(t[i - 1]) => t[i] = t[i - 1]
    BY <1>2, <2>1, MergeNatRuleIs
  <2>3. \A m \in 1 .. i : m \in 1 .. i - 1 \/ m = i
    BY <1>2
  <2>4. \A m \in 1 .. i : src[m] \in ToSet(t[i])
    BY <1>4, <2>2, <2>3
  <2>5. Known => t[i] = nat
    BY <1>4, <2>2
  <2> QED
    BY <2>4, <2>5
<1> HIDE DEF Fine, n
<1>5. T = {}
  <2> SUFFICES ASSUME T # {} PROVE FALSE
    OBVIOUS
  <2>1. T \in SUBSET Nat
    BY <1>2
  <2>2. PICK i \in T : \A k \in T : i <= k
    <3> HIDE DEF T
    <3> QED
      BY <2>1, Smallest
  <2>3. i \in 0 .. n /\ ~Fine(i) /\ i # 0
    BY <1>3, <2>2
  <2>4. i \in 1 .. n /\ i - 1 \in 0 .. n /\ ~(i <= i - 1)
    BY <1>2, <2>3
  <2> QED
    BY <1>4, <2>2, <2>3, <2>4
<1>6. n \in 0 .. n
  BY <1>2
<1>7. Fine(n) /\ t[n] \in Seq(NATRule)
  BY <1>1, <1>5, <1>6
<1> QED
  BY <1>1, <1>7 DEF Fine, n

\* The rules of a state that is kept, list by list.
LEMMA KeptOneEach ==
  ASSUME NEW st \in State, Kept(st)
  PROVE  OneEach(st.rules4) /\ OneEach(st.rules6)
<1>1. st.rules4 \in Seq(Rule) /\ st.rules6 \in Seq(Rule)
  BY DEF State
<1>2. \A i, j \in DOMAIN Rules(st, FALSE) :
        SameRule(Rules(st, FALSE)[i], Rules(st, FALSE)[j]) => i = j
  BY DEF Kept
<1>3. \A i, j \in DOMAIN Rules(st, TRUE) :
        SameRule(Rules(st, TRUE)[i], Rules(st, TRUE)[j]) => i = j
  BY DEF Kept
<1>4. Rules(st, FALSE) = st.rules4 /\ Rules(st, TRUE) = st.rules6
  BY DEF Rules
<1>5. DOMAIN st.rules4 = 1 .. Len(st.rules4) /\ DOMAIN st.rules6 = 1 .. Len(st.rules6)
  BY <1>1
<1> QED
  BY <1>2, <1>3, <1>4, <1>5 DEF OneEach

\* The parts of a merged state.
LEMMA MergeParts ==
  ASSUME NEW st, NEW d, NEW given
  PROVE  LET four == MergeRules(st.rules4, d.rules4, given)
             six  == MergeRules(st.rules6, d.rules6, four.ids)
             out  == Merge(st, d, given)
         IN /\ out = [st |-> out.st, ids |-> six.ids]
            /\ out.st = [rules4 |-> four.rules, rules6 |-> six.rules,
                         sets |-> MergeSets(st.sets, d.sets), nat |-> MergeNat(st.nat, d.nat)]
BY DEF Merge

\* Sets that are merged in twice.
LEMMA MergeSetsTwice ==
  ASSUME NEW sets, NEW src,
         \E D \in SUBSET SetNames : sets \in [D -> SUBSET Elems],
         \E D \in SUBSET SetNames : src \in [D -> SUBSET Elems]
  PROVE  /\ \E D \in SUBSET SetNames : MergeSets(sets, src) \in [D -> SUBSET Elems]
         /\ MergeSets(MergeSets(sets, src), src) = MergeSets(sets, src)
         /\ MergeSets(sets, sets) = sets
<1> DEFINE out == MergeSets(sets, src)
           D == DOMAIN sets \cup DOMAIN src
           at(n) == (IF n \in DOMAIN sets THEN sets[n] ELSE {}) \cup (IF n \in DOMAIN src THEN src[n] ELSE {})
<1>1. D \in SUBSET SetNames /\ \A n \in D : at(n) \in SUBSET Elems
  OBVIOUS
<1>2. out = [n \in D |-> at(n)]
  BY DEF MergeSets
<1>3. out \in [D -> SUBSET Elems]
  BY <1>1, <1>2
<1>4. MergeSets(out, src) = out
  <2> HIDE DEF out
  <2>1. DOMAIN out = D /\ \A n \in D : out[n] = at(n)
    BY <1>2
  <2>2. MergeSets(out, src) = [n \in D |-> out[n]]
    <3>1. DOMAIN out \cup DOMAIN src = D
      BY <2>1
    <3>2. \A n \in D : (IF n \in DOMAIN out THEN out[n] ELSE {})
                          \cup (IF n \in DOMAIN src THEN src[n] ELSE {}) = out[n]
      BY <2>1
    <3> HIDE DEF D
    <3> QED
      BY <3>1, <3>2 DEF MergeSets
  <2> QED
    BY <1>3, <2>2
<1>5. MergeSets(sets, sets) = sets
  BY DEF MergeSets
<1> QED
  BY <1>1, <1>3, <1>4, <1>5

-----------------------------------------------------------------------------
(* Importing twice, and what an import leaves alone.                       *)

\* Merging twice settles.
LEMMA Settles ==
  ASSUME file \in State, doc \in State, ids \in Nat
  PROVE  ImportSettles
<1> SUFFICES ASSUME Kept(file)
             PROVE  /\ Merge(file, file, ids) = [st |-> file, ids |-> ids]
                    /\ LET once == Merge(file, doc, ids) IN Merge(once.st, doc, once.ids) = once
  BY DEF ImportSettles
<1>1. /\ file = [rules4 |-> file.rules4, rules6 |-> file.rules6, sets |-> file.sets, nat |-> file.nat]
      /\ file.rules4 \in Seq(Rule) /\ file.rules6 \in Seq(Rule) /\ file.nat \in Seq(NATRule)
      /\ \E D \in SUBSET SetNames : file.sets \in [D -> SUBSET Elems]
  BY DEF State
<1>2. /\ doc.rules4 \in Seq(Rule) /\ doc.rules6 \in Seq(Rule) /\ doc.nat \in Seq(NATRule)
      /\ \E D \in SUBSET SetNames : doc.sets \in [D -> SUBSET Elems]
  BY DEF State
<1>3. OneEach(file.rules4) /\ OneEach(file.rules6)
  BY KeptOneEach
<1>4. Merge(file, file, ids) = [st |-> file, ids |-> ids]
  <2>1. MergeRules(file.rules4, file.rules4, ids) = [rules |-> file.rules4, ids |-> ids]
    BY <1>1, <1>3, SelfAgrees, NothingNew
  <2>2. MergeRules(file.rules6, file.rules6, ids) = [rules |-> file.rules6, ids |-> ids]
    BY <1>1, <1>3, SelfAgrees, NothingNew
  <2>3. MergeSets(file.sets, file.sets) = file.sets
    BY <1>1, MergeSetsTwice
  <2>4. MergeNat(file.nat, file.nat) = file.nat
    <3>1. \A m \in 1 .. Len(file.nat) : file.nat[m] \in ToSet(file.nat)
      BY <1>1 DEF ToSet
    <3> QED
      BY <1>1, <3>1, MergeNatIs
  <2> DEFINE out == Merge(file, file, ids)
  <2>5. /\ out = [st |-> out.st, ids |-> MergeRules(file.rules6, file.rules6,
                              MergeRules(file.rules4, file.rules4, ids).ids).ids]
        /\ out.st = [rules4 |-> MergeRules(file.rules4, file.rules4, ids).rules,
                     rules6 |-> MergeRules(file.rules6, file.rules6,
                                  MergeRules(file.rules4, file.rules4, ids).ids).rules,
                     sets |-> MergeSets(file.sets, file.sets), nat |-> MergeNat(file.nat, file.nat)]
    BY MergeParts
  <2> HIDE DEF out
  <2>6. out.st = file /\ out = [st |-> out.st, ids |-> ids]
    BY <1>1, <2>1, <2>2, <2>3, <2>4, <2>5
  <2> QED
    BY <2>6 DEF out
<1> DEFINE once == Merge(file, doc, ids)
           four == MergeRules(file.rules4, doc.rules4, ids)
           six == MergeRules(file.rules6, doc.rules6, four.ids)
           sets == MergeSets(file.sets, doc.sets)
           nat == MergeNat(file.nat, doc.nat)
           st == [rules4 |-> four.rules, rules6 |-> six.rules, sets |-> sets, nat |-> nat]
<1>5. once = [st |-> st, ids |-> six.ids]
  BY DEF Merge
<1>6. four \in Merging /\ OneEach(four.rules) /\ Agrees(four.rules, doc.rules4)
  BY <1>1, <1>2, <1>3, MergedIs, OnceAgrees
<1>60. four.ids \in Nat /\ four.rules \in Seq(Rule)
  BY <1>6 DEF Merging
<1>7. six \in Merging /\ OneEach(six.rules) /\ Agrees(six.rules, doc.rules6)
  <2> HIDE DEF four
  <2> QED
    BY <1>1, <1>2, <1>3, <1>60, MergedIs, OnceAgrees
<1>70. six.ids \in Nat /\ six.rules \in Seq(Rule)
  <2> HIDE DEF four, six
  <2> QED
    BY <1>7 DEF Merging
<1>8. MergeSets(sets, doc.sets) = sets
  BY <1>1, <1>2, MergeSetsTwice
<1>9. MergeNat(nat, doc.nat) = nat
  <2>1. nat \in Seq(NATRule) /\ \A m \in 1 .. Len(doc.nat) : doc.nat[m] \in ToSet(nat)
    BY <1>1, <1>2, MergeNatIs
  <2> HIDE DEF nat
  <2> QED
    BY <1>2, <2>1, MergeNatIs
<1> HIDE DEF four, six, sets, nat, once
<1>10. MergeRules(four.rules, doc.rules4, six.ids) = [rules |-> four.rules, ids |-> six.ids]
  BY <1>2, <1>6, <1>60, <1>70, NothingNew
<1>11. MergeRules(six.rules, doc.rules6, six.ids) = [rules |-> six.rules, ids |-> six.ids]
  BY <1>2, <1>7, <1>70, NothingNew
<1>12. once.ids = six.ids /\ once.st.rules4 = four.rules /\ once.st.rules6 = six.rules
       /\ once.st.sets = sets /\ once.st.nat = nat
  BY <1>5
<1>13. Merge(once.st, doc, once.ids) = once
  <2> DEFINE out == Merge(once.st, doc, once.ids)
  <2>1. /\ out = [st |-> out.st, ids |-> MergeRules(six.rules, doc.rules6,
                              MergeRules(four.rules, doc.rules4, six.ids).ids).ids]
        /\ out.st = [rules4 |-> MergeRules(four.rules, doc.rules4, six.ids).rules,
                     rules6 |-> MergeRules(six.rules, doc.rules6,
                                  MergeRules(four.rules, doc.rules4, six.ids).ids).rules,
                     sets |-> MergeSets(sets, doc.sets), nat |-> MergeNat(nat, doc.nat)]
    BY <1>12, MergeParts
  <2> HIDE DEF out
  <2>2. out = [st |-> st, ids |-> six.ids]
    BY <1>8, <1>9, <1>10, <1>11, <2>1
  <2> QED
    BY <1>5, <2>2 DEF out
<1> QED
  BY <1>4, <1>13 DEF once

\* The rules of a list that a document names.
NamedBy(src, list) == {i \in DOMAIN list : \E d \in ToSet(src) : SameRule(d, list[i])}

\* One list, when a document is merged into it.
LEMMA OthersOfOne ==
  ASSUME NEW rules \in Seq(Rule), NEW src \in Seq(Rule), NEW given \in Nat, OneEach(rules)
  PROVE  LET new == MergeRules(rules, src, given).rules
         IN /\ Drop(new, NamedBy(src, new)) = Drop(rules, NamedBy(src, rules))
            /\ \A d \in ToSet(src) : Place(new, d) # 0
            /\ \A r \in ToSet(rules) : new[Place(new, r)].id = r.id
<1> DEFINE out == MergeRules(rules, src, given)
           new == out.rules
           named(r) == \E d \in ToSet(src) : SameRule(d, r)
           n == Len(src)
           gone == {i \in DOMAIN rules : named(rules[i])}
           gone2 == {i \in DOMAIN new : named(new[i])}
<1>1. /\ out \in Merging /\ OneEach(new) /\ Placed(out, rules, given, src, n)
  BY MergedIs
<1>2. /\ DOMAIN src = 1 .. n /\ n \in Nat /\ DOMAIN rules = 1 .. Len(rules) /\ Len(rules) \in Nat
  OBVIOUS
<1> HIDE DEF out
<1>3. new \in Seq(Rule)
  BY <1>1 DEF Merging
<1>4. DOMAIN new = 1 .. Len(new) /\ Len(new) \in Nat
  BY <1>3
<1>5. /\ Len(rules) <= Len(new)
      /\ \A p \in 1 .. Len(rules) :
           /\ SameRule(new[p], rules[p])
           /\ new[p].id = rules[p].id /\ new[p].disabled = rules[p].disabled
           /\ \/ new[p].action = rules[p].action
              \/ \E m \in 1 .. n : SameRule(src[m], rules[p])
      /\ \A p \in Len(rules) + 1 .. Len(new) :
           new[p].id # 0 /\ \E m \in 1 .. n : SameRule(src[m], new[p])
      /\ \A m \in 1 .. n : \E p \in 1 .. Len(new) : SameRule(src[m], new[p])
  BY <1>1 DEF Placed
<1>6. \A p, q \in 1 .. Len(new) : SameRule(new[p], new[q]) => p = q
  BY <1>1 DEF OneEach
<1>7. \A r : named(r) <=> \E m \in 1 .. n : SameRule(src[m], r)
  BY <1>2 DEF ToSet
<1> HIDE DEF new, n, named
<1>8. Drop(rules, gone) = Drop(new, gone2)
  <2> DEFINE f == [i \in 1 .. Len(rules) |-> i]
  <2>1. \A p \in 1 .. Len(rules) : p \in 1 .. Len(new) /\ (named(new[p]) <=> named(rules[p]))
    BY <1>2, <1>4, <1>5, <1>7, KeysAlike
  <2>2. \A p \in 1 .. Len(rules) : ~named(rules[p]) => new[p] = rules[p]
    <3> SUFFICES ASSUME NEW p \in 1 .. Len(rules), ~named(rules[p]) PROVE new[p] = rules[p]
      OBVIOUS
    <3>1. new[p] \in Rule /\ rules[p] \in Rule
      BY <1>3, <2>1
    <3>2. SameRule(new[p], rules[p]) /\ new[p].action = rules[p].action
          /\ new[p].id = rules[p].id /\ new[p].disabled = rules[p].disabled
      BY <1>5, <1>7
    <3> QED
      BY <3>1, <3>2, SameEntry
  <2>3. \A p \in 1 .. Len(new) : p \notin 1 .. Len(rules) => named(new[p])
    <3> SUFFICES ASSUME NEW p \in 1 .. Len(new), p \notin 1 .. Len(rules) PROVE named(new[p])
      OBVIOUS
    <3>1. p \in Len(rules) + 1 .. Len(new)
      BY <1>2, <1>4
    <3> QED
      BY <1>5, <1>7, <3>1
  <2>4. \A i \in 1 .. Len(rules) : i \notin gone =>
          f[i] \in 1 .. Len(new) /\ f[i] \notin gone2 /\ new[f[i]] = rules[i]
    <3> SUFFICES ASSUME NEW i \in 1 .. Len(rules), i \notin gone
                 PROVE  f[i] \in 1 .. Len(new) /\ f[i] \notin gone2 /\ new[f[i]] = rules[i]
      OBVIOUS
    <3>1. f[i] = i /\ ~named(rules[i])
      BY <1>2
    <3> HIDE DEF f
    <3> QED
      BY <2>1, <2>2, <3>1
  <2>5. \A k \in 1 .. Len(new) : k \notin gone2 =>
          \E i \in 1 .. Len(rules) : i \notin gone /\ f[i] = k
    <3> SUFFICES ASSUME NEW k \in 1 .. Len(new), k \notin gone2
                 PROVE  \E i \in 1 .. Len(rules) : i \notin gone /\ f[i] = k
      OBVIOUS
    <3>1. ~named(new[k])
      BY <1>4
    <3>2. k \in 1 .. Len(rules)
      BY <2>3, <3>1
    <3>3. ~named(rules[k])
      BY <2>1, <3>1, <3>2
    <3> QED
      BY <3>2, <3>3
  <2>6. \A i, k \in 1 .. Len(rules) : i < k => f[i] < f[k]
    OBVIOUS
  <2> HIDE DEF f, gone, gone2
  <2>7. Corresponds(f, rules, gone, new, gone2)
    BY <2>4, <2>5, <2>6 DEF Corresponds
  <2>8. Staying(rules, gone) = Staying(new, gone2)
    BY <1>3, <2>7, SameStaying
  <2>9. Drop(rules, gone) = Staying(rules, gone) /\ Drop(new, gone2) = Staying(new, gone2)
    BY DEF Drop, Staying
  <2> QED
    BY <2>8, <2>9
<1>9. \A d \in ToSet(src) : Place(new, d) # 0
  <2> TAKE d \in ToSet(src)
  <2>1. PICK m \in 1 .. n : d = src[m]
    BY <1>2 DEF ToSet
  <2>2. PICK p \in 1 .. Len(new) : SameRule(src[m], new[p])
    BY <1>5
  <2>3. SameRule(new[p], d)
    BY <2>1, <2>2, KeysAlike
  <2>4. \A i \in 1 .. Len(new) : i # 0
    BY <1>4
  <2> QED
    BY <1>3, <2>3, <2>4, PlaceIs
<1>10. \A r \in ToSet(rules) : new[Place(new, r)].id = r.id
  <2> TAKE r \in ToSet(rules)
  <2>1. PICK p \in 1 .. Len(rules) : r = rules[p]
    BY <1>2 DEF ToSet
  <2>2. p \in 1 .. Len(new) /\ SameRule(new[p], r) /\ new[p].id = r.id
    BY <1>2, <1>4, <1>5, <2>1
  <2>3. Place(new, r) \in 1 .. Len(new) /\ SameRule(new[Place(new, r)], r)
    BY <1>3, <2>2, PlaceIs
  <2>4. Place(new, r) = p
    BY <1>6, <2>2, <2>3, KeysAlike
  <2> QED
    BY <2>2, <2>4
<1> QED
  BY <1>8, <1>9, <1>10 DEF new, out, named, NamedBy

\* A merge takes nothing away.
LEMMA KeepsOthers ==
  ASSUME file \in State, doc \in State, ids \in Nat
  PROVE  ImportKeepsOthers
<1> SUFFICES ASSUME Kept(file), NEW v6 \in BOOLEAN
             PROVE  LET new   == Rules(Merge(file, doc, ids).st, v6)
                        named(r) == \E d \in ToSet(Rules(doc, v6)) : SameRule(d, r)
                        others(rules) == Drop(rules, {i \in DOMAIN rules : named(rules[i])})
                    IN /\ others(new) = others(Rules(file, v6))
                       /\ \A d \in ToSet(Rules(doc, v6)) : Place(new, d) # 0
                       /\ \A r \in ToSet(Rules(file, v6)) : new[Place(new, r)].id = r.id
  BY DEF ImportKeepsOthers
<1>1. file.rules4 \in Seq(Rule) /\ file.rules6 \in Seq(Rule)
  BY DEF State
<1>2. doc.rules4 \in Seq(Rule) /\ doc.rules6 \in Seq(Rule)
  BY DEF State
<1>3. OneEach(file.rules4) /\ OneEach(file.rules6)
  BY KeptOneEach
<1> DEFINE four == MergeRules(file.rules4, doc.rules4, ids)
           given == IF v6 THEN four.ids ELSE ids
<1>4. given \in Nat
  <2>1. four \in Merging
    BY <1>1, <1>2, <1>3, MergedIs
  <2> QED
    BY <2>1 DEF Merging
<1>5. Rules(Merge(file, doc, ids).st, v6) = MergeRules(Rules(file, v6), Rules(doc, v6), given).rules
  <2> DEFINE out == Merge(file, doc, ids)
  <2>1. out.st.rules4 = four.rules
        /\ out.st.rules6 = MergeRules(file.rules6, doc.rules6, four.ids).rules
    BY DEF Merge
  <2>2. CASE v6
    BY <2>1, <2>2 DEF Rules
  <2>3. CASE ~v6
    BY <2>1, <2>3 DEF Rules
  <2> QED
    BY <2>2, <2>3
<1> HIDE DEF given
<1>6. Rules(file, v6) \in Seq(Rule) /\ Rules(doc, v6) \in Seq(Rule) /\ OneEach(Rules(file, v6))
  BY <1>1, <1>2, <1>3 DEF Rules
<1> DEFINE old == Rules(file, v6)
           src == Rules(doc, v6)
           new == Rules(Merge(file, doc, ids).st, v6)
<1>7. new = MergeRules(old, src, given).rules
  BY <1>5
<1>8. old \in Seq(Rule) /\ src \in Seq(Rule) /\ OneEach(old)
  BY <1>6
<1> HIDE DEF old, src, new
<1>9. /\ Drop(new, NamedBy(src, new)) = Drop(old, NamedBy(src, old))
      /\ \A d \in ToSet(src) : Place(new, d) # 0
      /\ \A r \in ToSet(old) : new[Place(new, r)].id = r.id
  BY <1>4, <1>7, <1>8, OthersOfOne
<1> QED
  BY <1>9 DEF old, src, new, NamedBy

-----------------------------------------------------------------------------
(* Whose the ids are.                                                      *)

\* An id is that of one key, and was given here or comes from elsewhere: if
\* what comes from elsewhere brings ids of its own.
Owners(P, n) ==
  /\ P \subseteq Rule
  /\ IdsApart =>
       /\ \A r \in P : r.id <= n \/ r.id > MaxId
       /\ \A r, s \in P : r.id # 0 /\ r.id = s.id => SameRule(r, s)

\* Fewer rules, more ids.
LEMMA OwnersFewer ==
  ASSUME NEW P, NEW n \in Nat, Owners(P, n), NEW Q \in SUBSET P, NEW m \in Nat, n <= m
  PROVE  Owners(Q, m)
<1>1. \A r \in Q : r \in Rule /\ r.id \in Nat
  BY DEF Owners, Rule
<1> QED
  BY <1>1 DEF Owners

\* More rules, of keys and ids that there are, or under new ids.
LEMMA OwnersMore ==
  ASSUME NEW P, NEW n \in Nat, Owners(P, n), NEW m \in Nat, n <= m, m <= MaxId, MaxId \in Nat,
         NEW Q \in SUBSET Rule,
         \A q \in Q : \/ \E p \in P : p.id = q.id /\ SameRule(p, q)
                      \/ q.id \in n + 1 .. m,
         IdsApart => \A q, s \in Q : q.id \in n + 1 .. m /\ q.id = s.id => SameRule(q, s)
  PROVE  Owners(P \cup Q, m)
<1>1. P \in SUBSET Rule /\ \A r \in Rule : r.id \in Nat
  BY DEF Owners, Rule
<1> SUFFICES ASSUME IdsApart
             PROVE  Owners(P \cup Q, m)
  BY <1>1 DEF Owners
<1>2. \A p \in P : p.id \in Nat /\ (p.id <= n \/ p.id > MaxId)
  BY <1>1 DEF Owners
<1>3. \A p \in P : p.id \notin n + 1 .. m
  BY <1>2
<1>4. \A r \in P \cup Q : r.id <= m \/ r.id > MaxId
  <2> TAKE r \in P \cup Q
  <2>1. CASE \E p \in P : p.id = r.id
    BY <1>2, <2>1
  <2>2. CASE r.id \in n + 1 .. m
    BY <2>2
  <2> QED
    BY <2>1, <2>2
<1>5. \A r \in P \cup Q : \/ \E p \in P : p.id = r.id /\ SameRule(p, r)
                          \/ r \in Q /\ r.id \in n + 1 .. m
  BY KeysAlike
<1>6. \A p, o \in P : p.id # 0 /\ p.id = o.id => SameRule(p, o)
  BY DEF Owners
<1>7. ASSUME NEW r \in P \cup Q, NEW s \in P \cup Q, r.id # 0, r.id = s.id
      PROVE  SameRule(r, s)
  <2>1. CASE r \in Q /\ r.id \in n + 1 .. m
    <3>1. s \in Q
      BY <1>3, <1>7, <2>1
    <3> QED
      BY <1>7, <2>1, <3>1
  <2>2. CASE \E p \in P : p.id = r.id /\ SameRule(p, r)
    <3>1. PICK p \in P : p.id = r.id /\ SameRule(p, r)
      BY <2>2
    <3>2. PICK o \in P : o.id = s.id /\ SameRule(o, s)
      BY <1>3, <1>5, <1>7, <3>1
    <3>3. SameRule(p, o)
      BY <1>6, <1>7, <3>1, <3>2
    <3> QED
      BY <3>1, <3>2, <3>3, KeysAlike
  <2> QED
    BY <1>5, <2>1, <2>2
<1> QED
  BY <1>1, <1>4, <1>7 DEF Owners

\* The rules of a sequence.
LEMMA RulesOf ==
  ASSUME NEW rules \in Seq(Rule)
  PROVE  /\ ToSet(rules) \in SUBSET Rule
         /\ \A r : r \in ToSet(rules) <=> \E i \in 1 .. Len(rules) : r = rules[i]
BY DEF ToSet

\* What merging a rule does to ids.
LEMMA MergeRuleOwners ==
  ASSUME MaxId \in Nat, NEW acc \in Merging, NEW P, NEW nr \in P,
         Owners(P \cup ToSet(acc.rules), acc.ids), MergeRule(acc, nr).ids <= MaxId
  PROVE  /\ acc.ids <= MergeRule(acc, nr).ids
         /\ Owners(P \cup ToSet(MergeRule(acc, nr).rules), MergeRule(acc, nr).ids)
<1> DEFINE j == Place(acc.rules, nr)
           next == MergeRule(acc, nr)
           old == acc.rules
           new == next.rules
           All == P \cup ToSet(old)
<1>1. nr \in Rule /\ old \in Seq(Rule) /\ acc.ids \in Nat
  BY DEF Owners, Merging
<1>2. next \in Merging
  BY <1>1, MergeRuleIs
<1>3. new \in Seq(Rule) /\ next.ids \in Nat
  <2> HIDE DEF next
  <2> QED
    BY <1>2 DEF Merging
<1>4. /\ \A r : r \in ToSet(old) <=> \E i \in 1 .. Len(old) : r = old[i]
      /\ \A r : r \in ToSet(new) <=> \E i \in 1 .. Len(new) : r = new[i]
      /\ ToSet(new) \in SUBSET Rule
  <2> HIDE DEF old, new
  <2> QED
    BY <1>1, <1>3, RulesOf
<1>5. CASE j # 0
  <2>1. /\ next.ids = acc.ids /\ Len(new) = Len(old)
        /\ \A i \in 1 .. Len(old) : i # j => new[i] = old[i]
        /\ new[j] = [old[j] EXCEPT !.action = nr.action]
    BY <1>1, <1>5, MergeRuleIs
  <2>2. j \in 1 .. Len(old) /\ old[j] \in Rule
    BY <1>1, <1>5, PlaceIs
  <2>3. SameRule(old[j], new[j]) /\ old[j].id = new[j].id
    BY <2>1, <2>2 DEF Rule, SameRule
  <2> HIDE DEF j, next, new, old
  <2>4. \A q \in ToSet(new) : \E p \in All : p.id = q.id /\ SameRule(p, q)
    <3> TAKE q \in ToSet(new)
    <3>1. PICK i \in 1 .. Len(old) : q = new[i]
      BY <1>4, <2>1
    <3>2. old[i] \in All
      BY <1>4
    <3>3. old[i].id = q.id /\ SameRule(old[i], q)
      BY <2>1, <2>3, <3>1, KeysAlike
    <3> QED
      BY <3>2, <3>3
  <2>5. Owners(All, acc.ids) /\ acc.ids <= acc.ids /\ acc.ids <= MaxId
    BY <1>1, <2>1 DEF old, next
  <2>6. \A q, s \in ToSet(new) : q.id \in acc.ids + 1 .. acc.ids /\ q.id = s.id => SameRule(q, s)
    BY <1>1
  <2> HIDE DEF All
  <2>7. Owners(All \cup ToSet(new), acc.ids)
    <3>1. \A q \in ToSet(new) : (\E p \in All : p.id = q.id /\ SameRule(p, q)) \/ q.id \in acc.ids + 1 .. acc.ids
      BY <2>4
    <3> QED
      BY <1>1, <1>4, <2>5, <2>6, <3>1, OwnersMore
  <2>8. P \cup ToSet(new) \in SUBSET (All \cup ToSet(new))
    BY DEF All
  <2>9. Owners(P \cup ToSet(new), acc.ids)
    BY <1>1, <2>5, <2>7, <2>8, OwnersFewer
  <2> QED
    BY <2>1, <2>5, <2>9 DEF new, next
<1>6. CASE j = 0
  <2> DEFINE e == Len(old) + 1
  <2>1. /\ Len(new) = e
        /\ \A i \in 1 .. Len(old) : new[i] = old[i]
        /\ SameRule(new[e], nr)
        /\ \/ next.ids = acc.ids + 1 /\ new[e].id = acc.ids + 1
           \/ next.ids = acc.ids /\ new[e].id = nr.id
    BY <1>1, <1>6, MergeRuleIs
  <2>2. \A p \in 1 .. Len(new) : p \in 1 .. Len(old) \/ p = e
    BY <1>1, <2>1
  <2> HIDE DEF j, next, new, old, e
  <2>3. \A q \in ToSet(new) : q \in ToSet(old) \/ q = new[e]
    BY <1>4, <2>1, <2>2
  <2>4. Owners(All, acc.ids) /\ acc.ids <= next.ids /\ next.ids <= MaxId
    BY <1>1, <2>1 DEF old, next
  <2>5. \A q \in All : q.id \in Nat /\ (IdsApart => q.id <= acc.ids \/ q.id > MaxId)
    BY <2>4 DEF Owners, Rule
  <2>6. \A q \in ToSet(new) : \/ \E p \in All : p.id = q.id /\ SameRule(p, q)
                              \/ q.id \in acc.ids + 1 .. next.ids
    <3> TAKE q \in ToSet(new)
    <3>1. CASE q \in ToSet(old)
      BY <3>1, KeysAlike
    <3>2. CASE q = new[e] /\ next.ids = acc.ids + 1 /\ new[e].id = acc.ids + 1
      BY <1>1, <3>2
    <3>3. CASE q = new[e] /\ new[e].id = nr.id
      BY <2>1, <3>3, KeysAlike
    <3> QED
      BY <2>1, <2>3, <3>1, <3>2, <3>3
  <2>7. ASSUME IdsApart
        PROVE  \A q, s \in ToSet(new) : q.id \in acc.ids + 1 .. next.ids /\ q.id = s.id => SameRule(q, s)
    <3> TAKE q, s \in ToSet(new)
    <3> HAVE q.id \in acc.ids + 1 .. next.ids /\ q.id = s.id
    <3>1. \A r \in ToSet(old) : r.id \notin acc.ids + 1 .. next.ids
      BY <1>1, <1>3, <2>4, <2>5, <2>7
    <3>2. q = new[e] /\ s = new[e]
      BY <2>3, <3>1
    <3> QED
      BY <3>2, KeysAlike
  <2> HIDE DEF All
  <2>8. Owners(All \cup ToSet(new), next.ids)
    BY <1>1, <1>3, <1>4, <2>4, <2>6, <2>7, OwnersMore
  <2>9. P \cup ToSet(new) \in SUBSET (All \cup ToSet(new))
    BY DEF All
  <2>10. Owners(P \cup ToSet(new), next.ids)
    BY <1>3, <2>8, <2>9, OwnersFewer
  <2> QED
    BY <2>4, <2>10 DEF new, next
<1> QED
  BY <1>5, <1>6

\* A merge takes no id back.
LEMMA MergeGrows ==
  ASSUME NEW rules \in Seq(Rule), NEW src \in Seq(Rule), NEW given \in Nat
  PROVE  /\ MergeRules(rules, src, given) \in Merging
         /\ MergeRules(rules, src, given).ids \in Nat
         /\ MergeRules(rules, src, given).rules \in Seq(Rule)
         /\ given <= MergeRules(rules, src, given).ids
<1> DEFINE n == Len(src)
           base == [rules |-> rules, ids |-> given]
<1>1. PICK t \in [0 .. n -> Merging] :
        /\ t[0] = base
        /\ \A i \in 1 .. n : t[i] = MergeRule(t[i - 1], src[i])
        /\ MergeRules(rules, src, given) = t[n]
  BY MergeTrace
<1>2. n \in Nat /\ (\A i \in 1 .. n : src[i] \in Rule) /\ base.ids = given
  OBVIOUS
<1> HIDE DEF n, base
<1>3. \A i \in 0 .. n : t[i] \in Merging /\ t[i].ids \in Nat /\ t[i].rules \in Seq(Rule)
  BY DEF Merging
<1> DEFINE T == {i \in 0 .. n : ~(given <= t[i].ids)}
<1>4. ASSUME NEW i \in 1 .. n
      PROVE  t[i - 1].ids <= t[i].ids
  <2> DEFINE acc == t[i - 1]
  <2>1. i - 1 \in 0 .. n
    BY <1>2
  <2>2. acc \in Merging /\ acc.ids \in Nat /\ t[i] = MergeRule(acc, src[i])
    BY <1>1, <1>3, <2>1
  <2> HIDE DEF acc
  <2>3. MergeRule(acc, src[i]).ids \in {acc.ids, acc.ids + 1}
    BY <1>2, <2>2, MergeRuleIs
  <2>4. acc.ids <= MergeRule(acc, src[i]).ids
    BY <2>2, <2>3
  <2> QED
    BY <2>2, <2>4 DEF acc
<1>5. T = {}
  <2> SUFFICES ASSUME T # {} PROVE FALSE
    OBVIOUS
  <2>1. T \in SUBSET Nat
    BY <1>2
  <2>2. PICK i \in T : \A k \in T : i <= k
    <3> HIDE DEF T
    <3> QED
      BY <2>1, Smallest
  <2>3. i \in 0 .. n /\ ~(given <= t[i].ids)
    OBVIOUS
  <2>4. i # 0
    BY <1>1, <1>2, <2>3
  <2>5. i \in 1 .. n /\ i - 1 \in 0 .. n /\ ~(i <= i - 1)
    BY <1>2, <2>3, <2>4
  <2>6. given <= t[i - 1].ids
    BY <2>2, <2>5
  <2>7. t[i - 1].ids <= t[i].ids /\ t[i - 1].ids \in Nat /\ t[i].ids \in Nat
    BY <1>3, <1>4, <2>3, <2>5
  <2> QED
    BY <2>3, <2>6, <2>7
<1>6. n \in 0 .. n
  BY <1>2
<1> QED
  BY <1>1, <1>3, <1>5, <1>6

\* A merge gives more ids, and none to two keys.
LEMMA MergeOwners ==
  ASSUME MaxId \in Nat, NEW rules \in Seq(Rule), NEW src \in Seq(Rule), NEW given \in Nat,
         NEW P, ToSet(rules) \subseteq P, ToSet(src) \subseteq P, Owners(P, given),
         MergeRules(rules, src, given).ids <= MaxId
  PROVE  /\ given <= MergeRules(rules, src, given).ids
         /\ Owners(P \cup ToSet(MergeRules(rules, src, given).rules), MergeRules(rules, src, given).ids)
<1> DEFINE n == Len(src)
           base == [rules |-> rules, ids |-> given]
<1>1. PICK t \in [0 .. n -> Merging] :
        /\ t[0] = base
        /\ \A i \in 1 .. n : t[i] = MergeRule(t[i - 1], src[i])
        /\ MergeRules(rules, src, given) = t[n]
  BY MergeTrace
<1>2. n \in Nat /\ \A i \in 1 .. n : src[i] \in P /\ src[i] \in Rule
  BY RulesOf
<1>20. \A i \in 0 .. n : t[i] \in Merging /\ t[i].ids \in Nat
  <2> HIDE DEF n
  <2> QED
    BY DEF Merging
<1> DEFINE Fine(i) == /\ given <= t[i].ids
                      /\ t[i].ids <= MaxId => Owners(P \cup ToSet(t[i].rules), t[i].ids)
           T == {i \in 0 .. n : ~Fine(i)}
<1>3. Fine(0)
  <2>1. t[0].ids = given /\ t[0].rules = rules
    BY <1>1
  <2>2. P \cup ToSet(rules) = P
    OBVIOUS
  <2> HIDE DEF base
  <2> QED
    BY <2>1, <2>2
<1> HIDE DEF n, base
<1>4. ASSUME NEW i \in 1 .. n, Fine(i - 1)
      PROVE  Fine(i)
  <2>1. t[i - 1] \in Merging /\ t[i - 1].ids \in Nat /\ t[i].ids \in Nat
        /\ t[i] = MergeRule(t[i - 1], src[i])
    <3>1. i - 1 \in 0 .. n /\ i \in 0 .. n
      BY <1>2
    <3> QED
      BY <1>1, <1>20, <3>1
  <2>2. t[i - 1].ids <= t[i].ids
    <3> DEFINE acc == t[i - 1]
    <3>1. LET j == Place(acc.rules, src[i]) IN
            (j # 0 => MergeRule(acc, src[i]).ids = acc.ids)
            /\ (j = 0 => MergeRule(acc, src[i]).ids \in {acc.ids, acc.ids + 1})
      <4> HIDE DEF acc
      <4>1. acc \in Merging
        BY <2>1 DEF acc
      <4> QED
        BY <1>2, <4>1, MergeRuleIs
    <3> QED
      BY <2>1, <3>1
  <2>3. ASSUME t[i].ids <= MaxId
        PROVE  Owners(P \cup ToSet(t[i].rules), t[i].ids)
    <3>1. Owners(P \cup ToSet(t[i - 1].rules), t[i - 1].ids)
      BY <1>4, <2>1, <2>2, <2>3
    <3> QED
      BY <1>2, <2>1, <2>3, <3>1, MergeRuleOwners
  <2> QED
    BY <1>4, <2>1, <2>2, <2>3
<1> HIDE DEF Fine
<1>5. T = {}
  <2> SUFFICES ASSUME T # {} PROVE FALSE
    OBVIOUS
  <2>1. T \in SUBSET Nat
    BY <1>2
  <2>2. PICK i \in T : \A k \in T : i <= k
    <3> HIDE DEF T
    <3> QED
      BY <2>1, Smallest
  <2>3. i \in 0 .. n /\ ~Fine(i) /\ i # 0
    BY <1>3, <2>2
  <2>4. i \in 1 .. n /\ i - 1 \in 0 .. n /\ ~(i <= i - 1)
    BY <1>2, <2>3
  <2> QED
    BY <1>4, <2>2, <2>3, <2>4
<1>6. n \in 0 .. n
  BY <1>2
<1>7. Fine(n)
  BY <1>5, <1>6
<1> QED
  BY <1>1, <1>7 DEF Fine, n

-----------------------------------------------------------------------------
(* What the rule commands do to a list.                                    *)

\* Dropping rules leaves rules that were there, one of each key if they were.
LEMMA DropKeeps ==
  ASSUME NEW rules \in Seq(Rule), NEW gone
  PROVE  /\ Drop(rules, gone) \in Seq(Rule)
         /\ ToSet(Drop(rules, gone)) \subseteq ToSet(rules)
         /\ \A i \in 1 .. Len(Drop(rules, gone)) : \E k \in 1 .. Len(rules) :
              k \notin gone /\ Drop(rules, gone)[i] = rules[k]
         /\ OneEach(rules) => OneEach(Drop(rules, gone))
<1> DEFINE out == Drop(rules, gone)
<1>1. out \in Seq(Rule) /\ \E q : Picks(q, out, rules, gone)
  BY DropIs
<1> HIDE DEF out
<1>2. PICK q : Picks(q, out, rules, gone)
  BY <1>1
<1>3. /\ \A k \in 1 .. Len(out) : q[k] \in 1 .. Len(rules) /\ q[k] \notin gone /\ out[k] = rules[q[k]]
      /\ \A k, l \in 1 .. Len(out) : k < l => q[k] < q[l]
  BY <1>2 DEF Picks
<1>4. ToSet(out) \subseteq ToSet(rules)
  BY <1>1, <1>3, RulesOf
<1>5. OneEach(rules) => OneEach(out)
  <2> SUFFICES ASSUME OneEach(rules), NEW k \in 1 .. Len(out), NEW l \in 1 .. Len(out),
                      SameRule(out[k], out[l]), k # l
               PROVE  FALSE
    BY DEF OneEach
  <2>1. q[k] = q[l] /\ q[k] \in Int
    BY <1>3 DEF OneEach
  <2>2. k < l \/ l < k
    BY <1>1
  <2>3. q[k] < q[l] \/ q[l] < q[k]
    BY <1>3, <2>2
  <2> QED
    BY <2>1, <2>3
<1> QED
  BY <1>1, <1>3, <1>4, <1>5 DEF out

\* A rule that is put in by a rule command comes to the end, or takes the place
\* of the one of its key: no key is there twice after it.
LEMMA PutIs ==
  ASSUME NEW rules \in Seq(Rule), NEW nr \in Rule
  PROVE  /\ Put(rules, nr) \in Seq(Rule)
         /\ ToSet(Put(rules, nr)) \subseteq ToSet(rules) \cup {nr}
         /\ OneEach(rules) => OneEach(Put(rules, nr))
<1> DEFINE j == Place(rules, nr)
           out == Put(rules, nr)
<1>1. CASE j = 0
  <2>1. out = Append(rules, nr) /\ \A i \in 1 .. Len(rules) : ~SameRule(rules[i], nr)
    BY <1>1, PlaceIs DEF Put
  <2>2. /\ out \in Seq(Rule) /\ Len(out) = Len(rules) + 1 /\ out[Len(rules) + 1] = nr
        /\ \A i \in 1 .. Len(rules) : out[i] = rules[i]
        /\ \A i \in 1 .. Len(out) : i \in 1 .. Len(rules) \/ i = Len(rules) + 1
    BY <2>1
  <2> HIDE DEF out
  <2>3. ToSet(out) \subseteq ToSet(rules) \cup {nr}
    BY <2>2, RulesOf
  <2>4. OneEach(rules) => OneEach(out)
    BY <2>1, <2>2, KeysAlike DEF OneEach
  <2> QED
    BY <2>2, <2>3, <2>4 DEF out
<1>2. CASE j # 0 /\ Exact(rules[j], nr)
  <2>1. out = rules
    BY <1>2 DEF Put
  <2> QED
    BY <2>1
<1>3. CASE j # 0 /\ ~Exact(rules[j], nr)
  <2>1. j \in 1 .. Len(rules) /\ SameRule(rules[j], nr)
    BY <1>3, PlaceIs
  <2>2. out = [rules EXCEPT ![j] = nr]
    BY <1>3 DEF Put
  <2>3. /\ out \in Seq(Rule) /\ Len(out) = Len(rules) /\ out[j] = nr
        /\ \A i \in 1 .. Len(rules) : i # j => out[i] = rules[i]
    BY <2>1, <2>2
  <2> HIDE DEF out, j
  <2>4. ToSet(out) \subseteq ToSet(rules) \cup {nr}
    BY <2>3, RulesOf
  <2>5. \A i \in 1 .. Len(rules) : SameRule(out[i], rules[i])
    BY <2>1, <2>3, KeysAlike
  <2>6. OneEach(rules) => OneEach(out)
    BY <2>3, <2>5, KeysAlike DEF OneEach
  <2> QED
    BY <2>3, <2>4, <2>6 DEF out
<1> QED
  BY <1>1, <1>2, <1>3

\* Rules are put in one by one.
LEMMA PutTrace ==
  ASSUME NEW rules \in Seq(Rule), NEW news \in Seq(Rule)
  PROVE  \E t \in [0 .. Len(news) -> Seq(Rule)] :
            /\ t[0] = rules
            /\ \A i \in 1 .. Len(news) : t[i] = Put(t[i - 1], news[i])
            /\ PutAll(rules, news) = t[Len(news)]
<1> DEFINE n == Len(news)
           A == Seq(Rule)
           o == [p \in A \X (1 .. n) |-> Put(p[1], news[p[2]])]
           R(h) == h = [x \in SUBSET DOMAIN news |->
                          IF x = {} THEN rules ELSE Put(h[x \ {Max(x)}], news[Max(x)])]
           h == CHOOSE h : R(h)
<1>1. n \in Nat /\ DOMAIN news = 1 .. n /\ \A i \in 1 .. n : news[i] \in Rule
  OBVIOUS
<1>2. rules \in A
  OBVIOUS
<1>3. o \in [A \X (1 .. n) -> A]
  <2>1. \A a \in A, r \in Rule : Put(a, r) \in A
    BY PutIs
  <2> HIDE DEF A
  <2> QED
    BY <1>1, <2>1
<1>7. PutAll(rules, news) = h[DOMAIN news]
  BY DEF PutAll, FoldLeft, MapThenFoldSet, Max
<1> HIDE DEF A
<1>4. PICK g \in [SUBSET (1 .. n) -> A] : Folds(g, rules, o, n)
  <2> HIDE DEF o, n
  <2> QED
    BY <1>1, <1>2, <1>3, FoldExists
<1>5. R(g)
  <2>1. ASSUME NEW x \in SUBSET (1 .. n), x # {}
        PROVE  g[x] = Put(g[x \ {Max(x)}], news[Max(x)])
    <3>1. g[x] = o[<<g[x \ {Max(x)}], Max(x)>>]
      BY <1>4, <2>1 DEF Folds
    <3>2. Max(x) \in 1 .. n
      BY <1>1, <2>1, MaxIn
    <3>3. x \ {Max(x)} \in SUBSET (1 .. n)
      OBVIOUS
    <3>4. g[x \ {Max(x)}] \in A
      BY <3>3
    <3> QED
      BY <3>1, <3>2, <3>4
  <2>2. g[{}] = rules
    BY <1>4 DEF Folds
  <2>3. g = [x \in SUBSET (1 .. n) |-> g[x]]
    OBVIOUS
  <2> HIDE DEF o
  <2>4. \A x \in SUBSET (1 .. n) :
          g[x] = IF x = {} THEN rules ELSE Put(g[x \ {Max(x)}], news[Max(x)])
    BY <2>1, <2>2
  <2> QED
    BY <1>1, <2>3, <2>4
<1>6. R(h)
  <2>1. \E f : R(f)
    BY <1>5
  <2> QED
    BY <2>1, Zenon
<1> HIDE DEF h
<1>8. \A x \in SUBSET (1 .. n) :
        h[x] = IF x = {} THEN rules ELSE Put(h[x \ {Max(x)}], news[Max(x)])
  BY <1>1, <1>6
<1>9. h[{}] = rules
  BY <1>8
<1>10. Follows(h, o, A, n)
  <2> SUFFICES ASSUME NEW i \in 1 .. n, h[1 .. i - 1] \in A
               PROVE  h[1 .. i] = o[<<h[1 .. i - 1], i>>]
    BY DEF Follows
  <2>1. /\ 1 .. i \in SUBSET (1 .. n) /\ 1 .. i # {}
        /\ (1 .. i) \ {i} = 1 .. i - 1 /\ Max(1 .. i) = i
    BY <1>1, UpTo
  <2>3. h[1 .. i] = Put(h[1 .. i - 1], news[i])
    BY <1>8, <2>1
  <2> QED
    BY <2>3
<1>11. Runs(h, rules, o, A, n)
  <2> HIDE DEF o, n
  <2> QED
    BY <1>1, <1>2, <1>3, <1>9, <1>10, FoldFollows
<1>12. PICK t \in [0 .. n -> A] :
         /\ t[0] = rules
         /\ \A i \in 1 .. n : t[i] = o[<<t[i - 1], i>>]
         /\ h[1 .. n] = t[n]
  BY <1>11 DEF Runs
<1>13. \A i \in 1 .. n : t[i] = Put(t[i - 1], news[i])
  <2> TAKE i \in 1 .. n
  <2>1. i - 1 \in 0 .. n /\ t[i - 1] \in A
    BY <1>1
  <2> QED
    BY <1>12, <2>1
<1>14. PutAll(rules, news) = t[n]
  BY <1>1, <1>7, <1>12
<1> HIDE DEF n, o
<1> QED
  BY <1>12, <1>13, <1>14 DEF n, A

\* So it is for all the rules a command is expanded to.
LEMMA PutAllIs ==
  ASSUME NEW rules \in Seq(Rule), NEW news \in Seq(Rule)
  PROVE  /\ PutAll(rules, news) \in Seq(Rule)
         /\ ToSet(PutAll(rules, news)) \subseteq ToSet(rules) \cup ToSet(news)
         /\ OneEach(rules) => OneEach(PutAll(rules, news))
<1> DEFINE n == Len(news)
<1>1. PICK t \in [0 .. n -> Seq(Rule)] :
        /\ t[0] = rules
        /\ \A i \in 1 .. n : t[i] = Put(t[i - 1], news[i])
        /\ PutAll(rules, news) = t[n]
  BY PutTrace
<1>2. n \in Nat /\ \A i \in 1 .. n : news[i] \in Rule /\ news[i] \in ToSet(news)
  BY RulesOf
<1> DEFINE Fine(i) == /\ ToSet(t[i]) \subseteq ToSet(rules) \cup ToSet(news)
                      /\ OneEach(rules) => OneEach(t[i])
           T == {i \in 0 .. n : ~Fine(i)}
<1>3. Fine(0)
  BY <1>1
<1>4. ASSUME NEW i \in 1 .. n, Fine(i - 1)
      PROVE  Fine(i)
  <2> HIDE DEF n
  <2>1. t[i - 1] \in Seq(Rule) /\ t[i] = Put(t[i - 1], news[i])
    <3>1. i - 1 \in 0 .. n
      BY <1>2
    <3> QED
      BY <1>1, <3>1
  <2>2. /\ ToSet(t[i]) \subseteq ToSet(t[i - 1]) \cup {news[i]}
        /\ OneEach(t[i - 1]) => OneEach(t[i])
    <3> DEFINE a == t[i - 1]  r == news[i]
    <3>1. a \in Seq(Rule) /\ r \in Rule /\ t[i] = Put(a, r)
      BY <1>2, <2>1
    <3> HIDE DEF a, r
    <3>2. ToSet(Put(a, r)) \subseteq ToSet(a) \cup {r} /\ (OneEach(a) => OneEach(Put(a, r)))
      BY <3>1, PutIs
    <3> QED
      BY <3>1, <3>2 DEF a, r
  <2> QED
    BY <1>2, <1>4, <2>2
<1> HIDE DEF Fine, n
<1>5. T = {}
  <2> SUFFICES ASSUME T # {} PROVE FALSE
    OBVIOUS
  <2>1. T \in SUBSET Nat
    BY <1>2
  <2>2. PICK i \in T : \A k \in T : i <= k
    <3> HIDE DEF T
    <3> QED
      BY <2>1, Smallest
  <2>3. i \in 0 .. n /\ ~Fine(i) /\ i # 0
    BY <1>3, <2>2
  <2>4. i \in 1 .. n /\ i - 1 \in 0 .. n /\ ~(i <= i - 1)
    BY <1>2, <2>3
  <2> QED
    BY <1>4, <2>2, <2>3, <2>4
<1>6. n \in 0 .. n
  BY <1>2
<1>7. Fine(n) /\ t[n] \in Seq(Rule)
  BY <1>1, <1>5, <1>6
<1> QED
  BY <1>1, <1>7 DEF Fine

\* The switch of a rule, and nothing else of it, is what a toggle changes.
LEMMA ToggledKeeps ==
  ASSUME NEW rules \in Seq(Rule), NEW v6 \in BOOLEAN, NEW at, NEW target, NEW off \in BOOLEAN
  PROVE  LET out == Toggled(rules, v6, at, target, off) IN
         /\ out \in Seq(Rule) /\ Len(out) = Len(rules)
         /\ \A i \in 1 .. Len(rules) :
              SameRule(out[i], rules[i]) /\ out[i].id = rules[i].id
         /\ OneEach(rules) => OneEach(out)
<1> DEFINE hit(i) == IF target.item.app = "" THEN rules[i].id = target.id
                     ELSE v6 = at.v6 /\ AppTuple(rules[i]) = AppTuple(target)
           entry(i) == IF hit(i) THEN [rules[i] EXCEPT !.disabled = off] ELSE rules[i]
           out == Toggled(rules, v6, at, target, off)
<1>1. out = [i \in DOMAIN rules |-> entry(i)]
  BY DEF Toggled
<1>2. \A i \in 1 .. Len(rules) : rules[i] \in Rule
  OBVIOUS
<1> HIDE DEF hit
<1>3. \A i \in 1 .. Len(rules) :
        entry(i) \in Rule /\ SameRule(entry(i), rules[i]) /\ entry(i).id = rules[i].id
  <2> SUFFICES ASSUME NEW i \in 1 .. Len(rules)
               PROVE  entry(i) \in Rule /\ SameRule(entry(i), rules[i]) /\ entry(i).id = rules[i].id
    OBVIOUS
  <2> DEFINE r == rules[i]
             new == [r EXCEPT !.disabled = off]
  <2>1. r \in Rule
    OBVIOUS
  <2> HIDE DEF r
  <2>2. new \in Rule
    BY <2>1 DEF Rule
  <2>3. new.item = r.item /\ new.set = r.set /\ new.id = r.id
    BY <2>1 DEF Rule
  <2>4. entry(i) = IF hit(i) THEN new ELSE r
    BY DEF r
  <2> HIDE DEF entry, new
  <2> QED
    BY <2>1, <2>2, <2>3, <2>4 DEF SameRule, r
<1> HIDE DEF entry, out
<1>5. out \in Seq(Rule) /\ Len(out) = Len(rules) /\ \A i \in 1 .. Len(rules) : out[i] = entry(i)
  BY <1>1, <1>3
<1>6. OneEach(rules) => OneEach(out)
  <2>1. \A i \in 1 .. Len(rules) : SameRule(out[i], rules[i])
    BY <1>3, <1>5
  <2> QED
    BY <1>5, <2>1, KeysAlike DEF OneEach
<1> QED
  BY <1>3, <1>5, <1>6 DEF out

\* What a toggle goes by: the id, or the application within one family.
Hit(rules, i, v6, at, target) ==
  IF target.item.app = "" THEN rules[i].id = target.id
  ELSE v6 = at.v6 /\ AppTuple(rules[i]) = AppTuple(target)

\* The rules that it switches are those, and the others stay.
LEMMA ToggledIs ==
  ASSUME NEW rules \in Seq(Rule), NEW v6 \in BOOLEAN, NEW at, NEW target, NEW off \in BOOLEAN
  PROVE  LET out == Toggled(rules, v6, at, target, off) IN
         /\ DOMAIN out = DOMAIN rules
         /\ \A i \in DOMAIN rules :
              out[i] = IF Hit(rules, i, v6, at, target) THEN [rules[i] EXCEPT !.disabled = off]
                       ELSE rules[i]
  BY Zenon DEF Toggled, Hit

\* What a command on a target is expanded to.
LEMMA ExpandedIs ==
  ASSUME NEW t \in Targets, ids \in Nat
  PROVE  /\ Len(t.items) \in Nat /\ Expanded(t) \in Seq(Rule) /\ Len(Expanded(t)) = Len(t.items)
         /\ \A i \in 1 .. Len(t.items) : Expanded(t)[i].id = ids + i
<1> DEFINE items == t.items
           entry(i) == [item |-> items[i], set |-> t.set, action |-> t.action,
                        id |-> ids + i, disabled |-> FALSE]
<1>1. items \in Seq(Items) /\ t.set \in Endpoints /\ t.action \in Actions
  BY ObjectsAssumption
<1>2. Expanded(t) = [i \in DOMAIN items |-> entry(i)]
  BY DEF Expanded
<1> HIDE DEF items
<1>3. Len(items) \in Nat /\ DOMAIN items = 1 .. Len(items)
      /\ \A i \in 1 .. Len(items) : items[i] \in Items
  BY <1>1
<1>4. \A i \in 1 .. Len(items) : entry(i) \in Rule /\ entry(i).id = ids + i
  <2> TAKE i \in 1 .. Len(items)
  <2>1. items[i] \in Items /\ ids + i \in Nat /\ FALSE \in BOOLEAN
    BY <1>3
  <2> QED
    BY <1>1, <2>1 DEF Rule
<1> HIDE DEF entry
<1>5. Expanded(t) \in Seq(Rule) /\ Len(Expanded(t)) = Len(items)
      /\ \A i \in 1 .. Len(items) : Expanded(t)[i] = entry(i)
  BY <1>2, <1>3, <1>4
<1> QED
  BY <1>3, <1>4, <1>5 DEF items

-----------------------------------------------------------------------------
(* The documents of ufw, and when rules are kept.                          *)

\* What is assumed of the constants that documents come from.
LEMMA ConstantsAre ==
  /\ MaxId \in Nat /\ MaxNAT \in Nat
  /\ UfwRules \subseteq Seq([item : Items, action : Actions])
  /\ Written \subseteq State /\ NATRules \subseteq NATRule
BY ObjectsAssumption

\* The document that ufw's files make is a state, and gives each new id to the
\* rules of one key, in either family (ImportUFW).
LEMMA UfwDocIs ==
  ASSUME NEW four \in UfwRules, NEW six \in UfwRules, ids \in Nat,
         NEW P
  PROVE  /\ UfwDoc(four, six) \in State
         /\ Owners(P, ids) /\ ids + Len(four) + Len(six) <= MaxId
            => Owners(P \cup AllRules(UfwDoc(four, six)), ids + Len(four) + Len(six))
<1> DEFINE UfwRule == [item : Items, action : Actions]
           a == Len(four)
           b == Len(six)
           m == ids + a + b
           rule(u, id) == [item |-> u.item, set |-> NoSet, action |-> u.action,
                           id |-> id, disabled |-> FALSE]
           twin(u) == SelectLastInSeq(four, LAMBDA w : w.item = u.item)
           id6(i) == IF twin(six[i]) # 0 THEN ids + twin(six[i]) ELSE ids + a + i
           rules4 == [i \in DOMAIN four |-> rule(four[i], ids + i)]
           rules6 == [i \in DOMAIN six |-> rule(six[i], id6(i))]
           st == [rules4 |-> rules4, rules6 |-> rules6, sets |-> <<>>, nat |-> <<>>]
<1>1. UfwDoc(four, six) = st
  <2>1. UfwDoc(four, six) = [Empty EXCEPT !.rules4 = rules4, !.rules6 = rules6]
    BY DEF UfwDoc
  <2> HIDE DEF rules4, rules6
  <2> QED
    BY <2>1 DEF Empty
<1>2. four \in Seq(UfwRule) /\ six \in Seq(UfwRule)
  BY ConstantsAre
<1> HIDE DEF UfwRule
<1>3. /\ a \in Nat /\ b \in Nat /\ DOMAIN four = 1 .. a /\ DOMAIN six = 1 .. b
      /\ \A i \in 1 .. a : four[i] \in UfwRule
      /\ \A i \in 1 .. b : six[i] \in UfwRule
  BY <1>2
<1>4. \A u : \/ twin(u) = 0
             \/ twin(u) \in 1 .. a /\ four[twin(u)].item = u.item
  <2> TAKE u
  <2> DEFINE I == {i \in 1 .. Len(four) : four[i].item = u.item}
  <2>1. twin(u) = IF I # {} THEN Max(I) ELSE 0
    BY DEF SelectLastInSeq
  <2>2. I # {} => Max(I) \in I
    <3> HIDE DEF I
    <3>1. I \in SUBSET (1 .. a)
      BY DEF I
    <3> QED
      BY <1>3, <3>1, MaxIn
  <2> HIDE DEF twin
  <2> QED
    BY <2>1, <2>2
<1>5. m \in Nat /\ ids <= m /\ ids \in Nat /\ NoSet \in Endpoints /\ MaxId \in Nat
  BY <1>3, ConstantsAre DEF Endpoints
<1>6. \A u \in UfwRule, id \in Nat :
        /\ rule(u, id) \in Rule /\ rule(u, id).id = id
        /\ rule(u, id).item = u.item /\ rule(u, id).set = NoSet
  BY <1>5 DEF Rule, UfwRule
<1> HIDE DEF rule, twin, a, b
<1>7. \A i \in 1 .. b : id6(i) \in Nat
                        /\ \/ \E k \in 1 .. a : id6(i) = ids + k /\ four[k].item = six[i].item
                           \/ id6(i) = ids + (a + i)
  BY <1>3, <1>4, <1>5
<1> HIDE DEF id6
<1> DEFINE Item(k) == IF k <= a THEN four[k].item ELSE six[k - a].item
<1>8. \A i \in 1 .. a : rules4[i] \in Rule /\ rules4[i].set = NoSet
                        /\ \E k \in 1 .. a + b : rules4[i].id = ids + k /\ rules4[i].item = Item(k)
  <2> TAKE i \in 1 .. a
  <2>1. rules4[i] = rule(four[i], ids + i) /\ four[i] \in UfwRule /\ ids + i \in Nat
    BY <1>3, <1>5
  <2>2. i \in 1 .. a + b /\ Item(i) = four[i].item
    BY <1>3
  <2> HIDE DEF rules4, Item
  <2> QED
    BY <1>6, <2>1, <2>2
<1>9. \A i \in 1 .. b : rules6[i] \in Rule /\ rules6[i].set = NoSet
                        /\ \E k \in 1 .. a + b : rules6[i].id = ids + k /\ rules6[i].item = Item(k)
  <2> TAKE i \in 1 .. b
  <2>1. rules6[i] = rule(six[i], id6(i)) /\ six[i] \in UfwRule /\ id6(i) \in Nat
    BY <1>3, <1>7
  <2>2. \A k \in 1 .. a : k \in 1 .. a + b /\ Item(k) = four[k].item
    BY <1>3
  <2>3. a + i \in 1 .. a + b /\ Item(a + i) = six[i].item
    <3>1. a + i \in 1 .. a + b /\ ~(a + i <= a) /\ (a + i) - a = i
      BY <1>3
    <3> QED
      BY <3>1
  <2> HIDE DEF rules6, Item
  <2>4. rules6[i] \in Rule /\ rules6[i].set = NoSet /\ rules6[i].id = id6(i)
        /\ rules6[i].item = six[i].item
    BY <1>6, <2>1
  <2>5. CASE \E k \in 1 .. a : id6(i) = ids + k /\ four[k].item = six[i].item
    BY <2>2, <2>4, <2>5
  <2>6. CASE id6(i) = ids + (a + i)
    BY <2>3, <2>4, <2>6
  <2> QED
    BY <1>7, <2>5, <2>6
<1>10. rules4 \in Seq(Rule) /\ rules6 \in Seq(Rule) /\ Len(rules4) = a /\ Len(rules6) = b
  <2>1. rules4 \in [1 .. a -> Rule] /\ rules6 \in [1 .. b -> Rule]
    BY <1>3, <1>8, <1>9
  <2> HIDE DEF rules4, rules6
  <2> QED
    BY <1>3, <2>1
<1> HIDE DEF rules4, rules6, Item
<1>11. st \in State
  <2>1. <<>> \in UNION {[names -> SUBSET Elems] : names \in SUBSET SetNames}
    <3>1. <<>> \in [{} -> SUBSET Elems]
      OBVIOUS
    <3> QED
      BY <3>1
  <2>2. <<>> \in Seq(NATRule)
    OBVIOUS
  <2> QED
    BY <1>10, <2>1, <2>2 DEF State
<1> DEFINE Q == ToSet(rules4) \cup ToSet(rules6)
<1>12. Q \in SUBSET Rule
       /\ \A q \in Q : q.set = NoSet /\ \E k \in 1 .. a + b : q.id = ids + k /\ q.item = Item(k)
  <2>1. ToSet(rules4) \in SUBSET Rule
        /\ \A q \in ToSet(rules4) : \E i \in 1 .. a : q = rules4[i]
    BY <1>10, RulesOf
  <2>2. ToSet(rules6) \in SUBSET Rule
        /\ \A q \in ToSet(rules6) : \E i \in 1 .. b : q = rules6[i]
    BY <1>10, RulesOf
  <2>3. ASSUME NEW q \in ToSet(rules4)
        PROVE  q.set = NoSet /\ \E k \in 1 .. a + b : q.id = ids + k /\ q.item = Item(k)
    <3>1. PICK i \in 1 .. a : q = rules4[i]
      BY <2>1
    <3> QED
      BY <1>8, <3>1
  <2>4. ASSUME NEW q \in ToSet(rules6)
        PROVE  q.set = NoSet /\ \E k \in 1 .. a + b : q.id = ids + k /\ q.item = Item(k)
    <3>1. PICK i \in 1 .. b : q = rules6[i]
      BY <2>2
    <3> QED
      BY <1>9, <3>1
  <2> QED
    BY <2>1, <2>2, <2>3, <2>4
<1> HIDE DEF Q
<1>13. \A q \in Q : q.id \in ids + 1 .. m
  BY <1>3, <1>5, <1>12
<1>14. \A q, s \in Q : q.id = s.id => SameRule(q, s)
  <2> TAKE q, s \in Q
  <2> HAVE q.id = s.id
  <2>1. PICK k \in 1 .. a + b : q.id = ids + k /\ q.item = Item(k)
    BY <1>12
  <2>2. PICK l \in 1 .. a + b : s.id = ids + l /\ s.item = Item(l)
    BY <1>12
  <2>3. k = l
    <3>1. k \in Int /\ l \in Int /\ ids \in Int
      BY <1>3, <1>5
    <3>2. ids + k = ids + l
      BY <2>1, <2>2
    <3> QED
      BY <3>1, <3>2
  <2> QED
    BY <1>12, <2>1, <2>2, <2>3 DEF SameRule
<1> HIDE DEF m
<1>15. ASSUME Owners(P, ids), m <= MaxId
       PROVE  Owners(P \cup Q, m)
  <2>1. \A q \in Q : (\E p \in P : p.id = q.id /\ SameRule(p, q)) \/ q.id \in ids + 1 .. m
    BY <1>13
  <2>2. \A q, s \in Q : q.id \in ids + 1 .. m /\ q.id = s.id => SameRule(q, s)
    BY <1>14
  <2> QED
    BY <1>5, <1>12, <1>15, <2>1, <2>2, OwnersMore
<1>16. AllRules(st) = Q
  BY DEF AllRules, Q
<1> HIDE DEF st
<1> QED
  BY <1>1, <1>11, <1>15, <1>16 DEF m, a, b

\* When a state is kept.
LEMMA KeptIs ==
  ASSUME IdsApart, NEW st \in State, NEW n
  PROVE  /\ OneEach(st.rules4) /\ OneEach(st.rules6) /\ Owners(AllRules(st), n)
            /\ (\A r \in AllRules(st) : r.id # 0)
            => Kept(st)
         /\ Kept(st) => \A r \in AllRules(st) : r.id # 0
<1>1. st.rules4 \in Seq(Rule) /\ st.rules6 \in Seq(Rule)
  BY DEF State
<1>2. Kept(st) => \A r \in AllRules(st) : r.id # 0
  BY DEF Kept
<1>3. ASSUME OneEach(st.rules4), OneEach(st.rules6), Owners(AllRules(st), n),
             \A r \in AllRules(st) : r.id # 0
      PROVE  Kept(st)
  <2>1. \A r, s \in AllRules(st) : r.id = s.id => SameRule(r, s)
    BY <1>3 DEF Owners
  <2>2. \A r \in ToSet(st.rules4), s \in ToSet(st.rules6) : r.id = s.id => SameRule(r, s)
    BY <2>1 DEF AllRules
  <2>3. ASSUME NEW v6 \in BOOLEAN, NEW i \in DOMAIN Rules(st, v6), NEW j \in DOMAIN Rules(st, v6),
               \/ Rules(st, v6)[i].id = Rules(st, v6)[j].id
               \/ SameRule(Rules(st, v6)[i], Rules(st, v6)[j])
        PROVE  i = j
    <3> DEFINE rules == Rules(st, v6)
    <3>1. rules \in Seq(Rule) /\ OneEach(rules) /\ ToSet(rules) \subseteq AllRules(st)
      BY <1>1, <1>3 DEF Rules, AllRules
    <3> HIDE DEF rules
    <3>2. i \in 1 .. Len(rules) /\ j \in 1 .. Len(rules) /\ rules[i] \in AllRules(st)
          /\ rules[j] \in AllRules(st)
      BY <3>1, RulesOf DEF rules
    <3>3. rules[i].id = rules[j].id \/ SameRule(rules[i], rules[j])
      BY <2>3 DEF rules
    <3>4. SameRule(rules[i], rules[j])
      BY <2>1, <3>2, <3>3
    <3> QED
      BY <3>1, <3>2, <3>4 DEF OneEach
  <2>4. \A v6 \in BOOLEAN : \A i, j \in DOMAIN Rules(st, v6) :
          \/ Rules(st, v6)[i].id = Rules(st, v6)[j].id
          \/ SameRule(Rules(st, v6)[i], Rules(st, v6)[j])
          => i = j
    BY <2>3
  <2> QED
    BY <1>3, <2>2, <2>4 DEF Kept
<1> QED
  BY <1>2, <1>3

-----------------------------------------------------------------------------
(* The inductive invariant, command by command.                            *)

\* The rules at hand, in the file and in the document.
Known == AllRules(file) \cup AllRules(doc)

\* The inductive invariant: an id is that of one key, wherever it is found.
Owned == TypeOK /\ Owners(Known, ids)

\* The sets of a state, by name.
SetsType == UNION {[names -> SUBSET Elems] : names \in SUBSET SetNames}

\* A state that may be stored when n ids are given.
Fit(st, n) ==
  /\ st \in State
  /\ n \in 0 .. MaxId
  /\ Owners(Known \cup AllRules(st), n)
  /\ IdsApart /\ Kept(file) => Kept(st)

\* What every command leaves: the types, and each id with one key.
Carries ==
  /\ file' \in State /\ doc' \in State /\ enabled' \in BOOLEAN /\ ids' \in 0 .. MaxId
  /\ Owners(Known', ids')

\* The parts of a state.
LEMMA PartsOf ==
  ASSUME NEW st \in State
  PROVE  /\ st = [rules4 |-> st.rules4, rules6 |-> st.rules6, sets |-> st.sets, nat |-> st.nat]
         /\ st.rules4 \in Seq(Rule) /\ st.rules6 \in Seq(Rule)
         /\ st.sets \in SetsType /\ st.nat \in Seq(NATRule)
         /\ AllRules(st) = ToSet(st.rules4) \cup ToSet(st.rules6)
BY DEF State, SetsType, AllRules

\* A state with other sets.
LEMMA ChangedSets ==
  ASSUME NEW st \in State, NEW s
  PROVE  [st EXCEPT !.sets = s] =
            [rules4 |-> st.rules4, rules6 |-> st.rules6, sets |-> s, nat |-> st.nat]
BY DEF State

\* A state with other NAT rules.
LEMMA ChangedNat ==
  ASSUME NEW st \in State, NEW n
  PROVE  [st EXCEPT !.nat = n] =
            [rules4 |-> st.rules4, rules6 |-> st.rules6, sets |-> st.sets, nat |-> n]
BY DEF State

\* A state with other rules.
LEMMA ChangedRules ==
  ASSUME NEW st \in State, NEW a, NEW b
  PROVE  [st EXCEPT !.rules4 = a, !.rules6 = b] =
            [rules4 |-> a, rules6 |-> b, sets |-> st.sets, nat |-> st.nat]
<1>1. PICK p, q, u, v : st = [rules4 |-> p, rules6 |-> q, sets |-> u, nat |-> v]
  BY DEF State
<1> DEFINE x == [st EXCEPT !.rules4 = a]
<1>2. x = [rules4 |-> a, rules6 |-> q, sets |-> u, nat |-> v]
  BY <1>1
<1>3. [st EXCEPT !.rules4 = a, !.rules6 = b] = [x EXCEPT !.rules6 = b]
  OBVIOUS
<1> HIDE DEF x
<1>4. [x EXCEPT !.rules6 = b] = [rules4 |-> a, rules6 |-> b, sets |-> u, nat |-> v]
  BY <1>2
<1> QED
  BY <1>1, <1>3, <1>4

\* A state with other sets and rules.
LEMMA ChangedBoth ==
  ASSUME NEW st \in State, NEW s, NEW a, NEW b
  PROVE  [st EXCEPT !.sets = s, !.rules4 = a, !.rules6 = b] =
            [rules4 |-> a, rules6 |-> b, sets |-> s, nat |-> st.nat]
<1> DEFINE y == [st EXCEPT !.sets = s]
<1>1. y = [rules4 |-> st.rules4, rules6 |-> st.rules6, sets |-> s, nat |-> st.nat]
  BY ChangedSets
<1>2. [st EXCEPT !.sets = s, !.rules4 = a, !.rules6 = b] = [y EXCEPT !.rules4 = a, !.rules6 = b]
  OBVIOUS
<1> DEFINE z == [y EXCEPT !.rules4 = a]
<1> HIDE DEF y
<1>3. z = [rules4 |-> a, rules6 |-> st.rules6, sets |-> s, nat |-> st.nat]
  BY <1>1
<1>4. [y EXCEPT !.rules4 = a, !.rules6 = b] = [z EXCEPT !.rules6 = b]
  OBVIOUS
<1> HIDE DEF z
<1>5. [z EXCEPT !.rules6 = b] = [rules4 |-> a, rules6 |-> b, sets |-> s, nat |-> st.nat]
  BY <1>3
<1> QED
  BY <1>2, <1>4, <1>5

\* A state whose rules are of keys and under ids that are in order.
LEMMA FitParts ==
  ASSUME Owned, NEW rules4 \in Seq(Rule), NEW rules6 \in Seq(Rule),
         NEW sets \in SetsType, NEW nat \in Seq(NATRule), NEW n \in 0 .. MaxId,
         Owners(Known \cup (ToSet(rules4) \cup ToSet(rules6)), n),
         OneEach(file.rules4) => OneEach(rules4), OneEach(file.rules6) => OneEach(rules6),
         OneEach(file.rules4) /\ OneEach(file.rules6) /\ (\A r \in AllRules(file) : r.id # 0)
           => \A r \in ToSet(rules4) \cup ToSet(rules6) : r.id # 0
  PROVE  Fit([rules4 |-> rules4, rules6 |-> rules6, sets |-> sets, nat |-> nat], n)
<1> DEFINE st == [rules4 |-> rules4, rules6 |-> rules6, sets |-> sets, nat |-> nat]
<1>1. st \in State /\ AllRules(st) = ToSet(rules4) \cup ToSet(rules6)
      /\ st.rules4 = rules4 /\ st.rules6 = rules6
  BY DEF State, SetsType, AllRules
<1>2. file \in State /\ n \in Nat /\ MaxId \in Nat
  BY ConstantsAre DEF Owned, TypeOK
<1> HIDE DEF st
<1>3. Owners(Known \cup AllRules(st), n)
  BY <1>1
<1>4. Owners(AllRules(st), n)
  BY <1>2, <1>3, OwnersFewer
<1>5. IdsApart /\ Kept(file) => Kept(st)
  <2> SUFFICES ASSUME IdsApart, Kept(file) PROVE Kept(st)
    OBVIOUS
  <2>1. OneEach(file.rules4) /\ OneEach(file.rules6)
    BY <1>2, KeptOneEach
  <2>2. \A r \in AllRules(file) : r.id # 0
    BY <1>2, KeptIs
  <2> QED
    BY <1>1, <1>4, <2>1, <2>2, KeptIs
<1> QED
  BY <1>1, <1>3, <1>5 DEF Fit, st

\* A state of rules that are there.
LEMMA FitFewer ==
  ASSUME Owned, NEW rules4 \in Seq(Rule), NEW rules6 \in Seq(Rule),
         NEW sets \in SetsType, NEW nat \in Seq(NATRule),
         ToSet(rules4) \subseteq ToSet(file.rules4), ToSet(rules6) \subseteq ToSet(file.rules6),
         OneEach(file.rules4) => OneEach(rules4), OneEach(file.rules6) => OneEach(rules6)
  PROVE  Fit([rules4 |-> rules4, rules6 |-> rules6, sets |-> sets, nat |-> nat], ids)
<1>1. ids \in 0 .. MaxId /\ Owners(Known, ids)
  BY DEF Owned, TypeOK
<1>2. ToSet(rules4) \cup ToSet(rules6) \subseteq AllRules(file)
  BY DEF AllRules
<1>3. Known \cup (ToSet(rules4) \cup ToSet(rules6)) = Known
  BY <1>2 DEF Known
<1> QED
  BY <1>1, <1>2, <1>3, FitParts

\* Storing a state that is in order.
LEMMA Committed ==
  ASSUME Owned, NEW st, Fit(st, ids'), ids <= ids', CommitState(st)
  PROVE  Carries /\ (IdsApart /\ Kept(file) => Kept(file'))
<1>1. file \in State /\ doc \in State /\ enabled \in BOOLEAN /\ Owners(Known, ids)
      /\ ids \in Nat /\ ids' \in Nat /\ ids' \in 0 .. MaxId /\ st \in State
      /\ Owners(Known \cup AllRules(st), ids')
  BY ConstantsAre DEF Owned, TypeOK, Fit
<1>2. (file' = st \/ file' = file) /\ doc' = doc /\ enabled' = enabled
  BY DEF CommitState
<1>3. Known' \subseteq Known \cup AllRules(st)
  <2>1. Known' = AllRules(file') \cup AllRules(doc')
    BY DEF Known, AllRules
  <2> QED
    BY <1>2, <2>1 DEF Known
<1>4. Owners(Known', ids')
  BY <1>1, <1>3, OwnersFewer
<1> QED
  BY <1>1, <1>2, <1>4 DEF Carries, Fit

\* A command that refuses leaves all as it is.
LEMMA Refused ==
  ASSUME Owned, UNCHANGED <<file, doc, ids>>, enabled' \in BOOLEAN
  PROVE  Carries /\ (IdsApart /\ Kept(file) => Kept(file'))
<1>1. Known' = Known
  BY DEF Known, AllRules
<1> QED
  BY <1>1 DEF Owned, TypeOK, Carries

\* The set commands bring no rule and take some, in both families
\* (setCreate, setAdd, setDel, setDestroy).
LEMMA SetsCarry ==
  ASSUME Owned, SetCommand
  PROVE  Carries /\ (IdsApart /\ Kept(file) => Kept(file'))
<1>1. file \in State /\ enabled \in BOOLEAN /\ ids \in 0 .. MaxId /\ ids \in Nat /\ ids <= ids
  BY ConstantsAre DEF Owned, TypeOK
<1> DEFINE r4 == file.rules4  r6 == file.rules6
<1>2. /\ file = [rules4 |-> r4, rules6 |-> r6, sets |-> file.sets, nat |-> file.nat]
      /\ r4 \in Seq(Rule) /\ r6 \in Seq(Rule) /\ file.sets \in SetsType /\ file.nat \in Seq(NATRule)
  BY <1>1, PartsOf
<1>3. PICK D \in SUBSET SetNames : file.sets \in [D -> SUBSET Elems]
  BY <1>2 DEF SetsType
<1> HIDE DEF r4, r6
<1>4. Refuse => Carries /\ (IdsApart /\ Kept(file) => Kept(file'))
  BY <1>1, Refused DEF Refuse, objects
<1>5. ASSUME NEW sets \in SetsType, CommitState([file EXCEPT !.sets = sets]), ids' = ids
      PROVE  Carries /\ (IdsApart /\ Kept(file) => Kept(file'))
  <2>1. [file EXCEPT !.sets = sets] = [rules4 |-> r4, rules6 |-> r6, sets |-> sets, nat |-> file.nat]
    BY <1>1, ChangedSets DEF r4, r6
  <2>2. Fit([file EXCEPT !.sets = sets], ids)
    BY <1>2, <2>1, FitFewer DEF r4, r6
  <2> QED
    BY <1>1, <1>5, <2>2, Committed
<1>6. PICK name \in SetNames :
        \/ SetCreate(name)
        \/ \E e \in Elems : SetAdd(name, e) \/ SetDel(name, e)
        \/ \E force \in BOOLEAN : SetDestroy(name, force)
  BY DEF SetCommand
<1>7. CASE SetCreate(name)
  <2> SUFFICES ASSUME ~Refuse PROVE Carries /\ (IdsApart /\ Kept(file) => Kept(file'))
    BY <1>4
  <2>1. With(file.sets, name, {}) \in [D \cup {name} -> SUBSET Elems]
    BY <1>3 DEF With
  <2>2. With(file.sets, name, {}) \in SetsType
    BY <2>1 DEF SetsType
  <2>3. CommitState([file EXCEPT !.sets = With(@, name, {})]) /\ ids' = ids
    BY <1>7 DEF SetCreate
  <2> QED
    BY <1>5, <2>2, <2>3
<1>8. CASE \E e \in Elems : SetAdd(name, e) \/ SetDel(name, e)
  <2> SUFFICES ASSUME ~Refuse PROVE Carries /\ (IdsApart /\ Kept(file) => Kept(file'))
    BY <1>4
  <2>1. PICK e \in Elems : SetAdd(name, e) \/ SetDel(name, e)
    BY <1>8
  <2>2. PICK elems \in SUBSET Elems :
          CommitState([file EXCEPT !.sets[name] = elems]) /\ ids' = ids /\ name \in DOMAIN file.sets
    <3>1. CASE SetAdd(name, e)
      <4>1. /\ name \in DOMAIN file.sets /\ ids' = ids
            /\ CommitState([file EXCEPT !.sets[name] = file.sets[name] \cup {e}])
        BY <3>1 DEF SetAdd
      <4>2. file.sets[name] \cup {e} \in SUBSET Elems
        BY <1>3, <4>1
      <4> QED
        BY <4>1, <4>2
    <3>2. CASE SetDel(name, e)
      <4>1. /\ name \in DOMAIN file.sets /\ ids' = ids
            /\ CommitState([file EXCEPT !.sets[name] = file.sets[name] \ {e}])
        BY <3>2 DEF SetDel
      <4>2. file.sets[name] \ {e} \in SUBSET Elems
        BY <1>3, <4>1
      <4> QED
        BY <4>1, <4>2
    <3> QED
      BY <2>1, <3>1, <3>2
  <2> DEFINE sets == [file.sets EXCEPT ![name] = elems]
  <2>3. sets \in SetsType
    BY <1>3 DEF SetsType
  <2>4. [file EXCEPT !.sets[name] = elems] = [file EXCEPT !.sets = sets]
    OBVIOUS
  <2> HIDE DEF sets
  <2> QED
    BY <1>5, <2>2, <2>3, <2>4
<1>9. CASE \E force \in BOOLEAN : SetDestroy(name, force)
  <2> SUFFICES ASSUME ~Refuse PROVE Carries /\ (IdsApart /\ Kept(file) => Kept(file'))
    BY <1>4
  <2> DEFINE st == [file EXCEPT !.sets = Without(@, name),
                                !.rules4 = DropSetRefs(@, name),
                                !.rules6 = DropSetRefs(@, name)]
             gone(rules) == {i \in DOMAIN rules : rules[i].set = name}
  <2>1. CommitState(st) /\ ids' = ids
    BY <1>9 DEF SetDestroy
  <2>2. Without(file.sets, name) \in SetsType
    <3>1. Without(file.sets, name) \in [D \ {name} -> SUBSET Elems]
      BY <1>3 DEF Without
    <3> QED
      BY <3>1 DEF SetsType
  <2>3. st = [rules4 |-> Drop(r4, gone(r4)), rules6 |-> Drop(r6, gone(r6)),
              sets |-> Without(file.sets, name), nat |-> file.nat]
    <3> DEFINE a == Drop(r4, gone(r4))  b == Drop(r6, gone(r6))  s == Without(file.sets, name)
    <3>1. st = [file EXCEPT !.sets = s, !.rules4 = a, !.rules6 = b]
      BY DEF DropSetRefs, r4, r6
    <3> HIDE DEF st, a, b, s
    <3>2. st = [rules4 |-> a, rules6 |-> b, sets |-> s, nat |-> file.nat]
      <4>1. file \in State
        BY <1>1
      <4>2. [file EXCEPT !.sets = s, !.rules4 = a, !.rules6 = b] =
              [rules4 |-> a, rules6 |-> b, sets |-> s, nat |-> file.nat]
        BY <4>1, ChangedBoth
      <4> QED
        BY <3>1, <4>2
    <3> QED
      BY <3>2 DEF a, b, s
  <2> HIDE DEF st, gone
  <2>4. Fit(st, ids)
    BY <1>2, <2>2, <2>3, DropKeeps, FitFewer DEF r4, r6
  <2> QED
    BY <1>1, <2>1, <2>4, Committed
<1> QED
  BY <1>6, <1>7, <1>8, <1>9

\* The NAT commands leave the rules alone (natAdd, natDelete).
LEMMA NatCarries ==
  ASSUME Owned, NatCommand
  PROVE  Carries /\ (IdsApart /\ Kept(file) => Kept(file'))
<1>1. file \in State /\ enabled \in BOOLEAN /\ ids \in Nat /\ ids <= ids
  BY ConstantsAre DEF Owned, TypeOK
<1>2. /\ file.rules4 \in Seq(Rule) /\ file.rules6 \in Seq(Rule)
      /\ file.sets \in SetsType /\ file.nat \in Seq(NATRule)
  BY <1>1, PartsOf
<1>3. ASSUME NEW nat \in Seq(NATRule), CommitState([file EXCEPT !.nat = nat]), ids' = ids
      PROVE  Carries /\ (IdsApart /\ Kept(file) => Kept(file'))
  <2>1. [file EXCEPT !.nat = nat] =
          [rules4 |-> file.rules4, rules6 |-> file.rules6, sets |-> file.sets, nat |-> nat]
    BY <1>1, ChangedNat
  <2>2. Fit([file EXCEPT !.nat = nat], ids)
    BY <1>2, <2>1, FitFewer
  <2> QED
    BY <1>1, <1>3, <2>2, Committed
<1>4. CASE \E n \in NATRules : NatAdd(n)
  <2>1. PICK n \in NATRules : NatAdd(n)
    BY <1>4
  <2>2. CASE Refuse
    BY <1>1, <2>2, Refused DEF Refuse, objects
  <2>3. CASE ~Refuse
    <3>1. CommitState([file EXCEPT !.nat = Append(file.nat, n)]) /\ ids' = ids
      BY <2>1, <2>3 DEF NatAdd
    <3>2. Append(file.nat, n) \in Seq(NATRule)
      BY <1>2, ConstantsAre
    <3> QED
      BY <1>3, <3>1, <3>2
  <2> QED
    BY <2>2, <2>3
<1>5. CASE \E i \in DOMAIN file.nat : NatDelete(i)
  <2>1. PICK i \in DOMAIN file.nat : NatDelete(i)
    BY <1>5
  <2> DEFINE nat == file.nat
  <2>2. nat \in Seq(NATRule) /\ i \in 1 .. Len(nat)
    BY <1>2
  <2>3. CommitState([file EXCEPT !.nat = RemoveAt(nat, i)]) /\ ids' = ids
    BY <2>1 DEF NatDelete
  <2> HIDE DEF nat
  <2>4. RemoveAt(nat, i) \in Seq(NATRule)
    <3>1. SubSeq(nat, 1, i - 1) \in Seq(NATRule) /\ SubSeq(nat, i + 1, Len(nat)) \in Seq(NATRule)
      BY <2>2
    <3> QED
      BY <3>1 DEF RemoveAt
  <2> QED
    BY <1>3, <2>3, <2>4
<1> QED
  BY <1>4, <1>5 DEF NatCommand

\* rule add gives new ids, one to each item of the target, in each family that
\* it is for (CmdAllow and its like).
LEMMA AddCarries ==
  ASSUME Owned, NEW t \in Targets, NEW fams \in SUBSET Families, RuleAdd(t, fams)
  PROVE  Carries /\ (IdsApart /\ Kept(file) => Kept(file'))
<1> DEFINE new == Expanded(t)
           len == Len(t.items)
           put(rules, fam) == IF fam \in fams THEN PutAll(rules, new) ELSE rules
           p4 == put(file.rules4, "v4")
           p6 == put(file.rules6, "v6")
           m == ids + len
<1>1. file \in State /\ ids \in Nat /\ Owners(Known, ids) /\ MaxId \in Nat
  BY ConstantsAre DEF Owned, TypeOK
<1>2. /\ file.rules4 \in Seq(Rule) /\ file.rules6 \in Seq(Rule)
      /\ file.sets \in SetsType /\ file.nat \in Seq(NATRule)
      /\ AllRules(file) = ToSet(file.rules4) \cup ToSet(file.rules6)
  BY <1>1, PartsOf
<1>3. /\ len \in Nat /\ new \in Seq(Rule) /\ Len(new) = len
      /\ \A i \in 1 .. len : new[i].id = ids + i
  BY <1>1, ExpandedIs
<1>4. /\ CommitState([file EXCEPT !.rules4 = p4, !.rules6 = p6])
      /\ ids' = m /\ m <= MaxId
  BY DEF RuleAdd
<1> HIDE DEF new, len
<1>5. ToSet(new) \in SUBSET Rule /\ \A r \in ToSet(new) : \E i \in 1 .. len : r = new[i]
  BY <1>3, RulesOf
<1>6. \A r \in ToSet(new) : r.id \in ids + 1 .. m /\ r.id # 0
  <2> TAKE r \in ToSet(new)
  <2>1. PICK i \in 1 .. len : r = new[i]
    BY <1>5
  <2>2. r.id = ids + i
    BY <1>3, <2>1
  <2> QED
    BY <1>1, <1>3, <2>2
<1>7. \A r, s \in ToSet(new) : r.id = s.id => SameRule(r, s)
  <2> TAKE r, s \in ToSet(new)
  <2> HAVE r.id = s.id
  <2>1. PICK i \in 1 .. len : r = new[i]
    BY <1>5
  <2>2. PICK k \in 1 .. len : s = new[k]
    BY <1>5
  <2>3. ids + i = ids + k /\ i \in Int /\ k \in Int
    BY <1>3, <2>1, <2>2
  <2>4. i = k
    BY <1>1, <2>3
  <2> QED
    BY <2>1, <2>2, <2>4, KeysAlike
<1>8. m \in 0 .. MaxId /\ m \in Nat /\ ids <= m
  BY <1>1, <1>3, <1>4
<1> HIDE DEF m
<1>9. Owners(Known \cup ToSet(new), m)
  <2>1. \A q \in ToSet(new) : (\E p \in Known : p.id = q.id /\ SameRule(p, q)) \/ q.id \in ids + 1 .. m
    BY <1>6
  <2>2. \A q, s \in ToSet(new) : q.id \in ids + 1 .. m /\ q.id = s.id => SameRule(q, s)
    BY <1>7
  <2> QED
    BY <1>1, <1>4, <1>5, <1>8, <2>1, <2>2, OwnersMore
<1>10. /\ p4 \in Seq(Rule) /\ ToSet(p4) \subseteq ToSet(file.rules4) \cup ToSet(new)
       /\ OneEach(file.rules4) => OneEach(p4)
  <2> DEFINE rules == file.rules4
  <2>1. rules \in Seq(Rule)
    BY <1>2
  <2> HIDE DEF rules
  <2>2. /\ PutAll(rules, new) \in Seq(Rule)
        /\ ToSet(PutAll(rules, new)) \subseteq ToSet(rules) \cup ToSet(new)
        /\ OneEach(rules) => OneEach(PutAll(rules, new))
    BY <1>3, <2>1, PutAllIs
  <2> QED
    BY <2>1, <2>2 DEF rules
<1>11. /\ p6 \in Seq(Rule) /\ ToSet(p6) \subseteq ToSet(file.rules6) \cup ToSet(new)
       /\ OneEach(file.rules6) => OneEach(p6)
  <2> DEFINE rules == file.rules6
  <2>1. rules \in Seq(Rule)
    BY <1>2
  <2> HIDE DEF rules
  <2>2. /\ PutAll(rules, new) \in Seq(Rule)
        /\ ToSet(PutAll(rules, new)) \subseteq ToSet(rules) \cup ToSet(new)
        /\ OneEach(rules) => OneEach(PutAll(rules, new))
    BY <1>3, <2>1, PutAllIs
  <2> QED
    BY <2>1, <2>2 DEF rules
<1> HIDE DEF p4, p6
<1>12. ToSet(p4) \cup ToSet(p6) \subseteq AllRules(file) \cup ToSet(new)
  BY <1>2, <1>10, <1>11
<1>13. Owners(Known \cup (ToSet(p4) \cup ToSet(p6)), m)
  <2>1. Known \cup (ToSet(p4) \cup ToSet(p6)) \in SUBSET (Known \cup ToSet(new))
    BY <1>12 DEF Known
  <2> QED
    BY <1>8, <1>9, <2>1, OwnersFewer
<1> DEFINE st == [rules4 |-> p4, rules6 |-> p6, sets |-> file.sets, nat |-> file.nat]
<1>14. Fit(st, m)
  <2>1. (\A r \in AllRules(file) : r.id # 0) => \A r \in ToSet(p4) \cup ToSet(p6) : r.id # 0
    BY <1>6, <1>12
  <2> QED
    BY <1>2, <1>8, <1>10, <1>11, <1>13, <2>1, FitParts
<1>15. [file EXCEPT !.rules4 = p4, !.rules6 = p6] = st
  BY <1>1, ChangedRules
<1> HIDE DEF st
<1> QED
  BY <1>4, <1>8, <1>14, <1>15, Committed

\* rule delete takes rules and leaves the ids of the others.
LEMMA DeleteCarries ==
  ASSUME Owned, NEW t \in Targets, NEW fams \in SUBSET Families, RuleDelete(t, fams)
  PROVE  Carries /\ (IdsApart /\ Kept(file) => Kept(file'))
<1> DEFINE take(rules, fam) ==
             IF fam \notin fams THEN rules
             ELSE IF t.items[1].app # "" THEN TakeApp(rules, t.items[1].app, t.action)
             ELSE Take(rules, Expanded(t)[1])
           p4 == take(file.rules4, "v4")
           p6 == take(file.rules6, "v6")
<1>1. file \in State /\ ids \in Nat /\ ids <= ids
  BY ConstantsAre DEF Owned, TypeOK
<1>2. /\ file.rules4 \in Seq(Rule) /\ file.rules6 \in Seq(Rule)
      /\ file.sets \in SetsType /\ file.nat \in Seq(NATRule)
  BY <1>1, PartsOf
<1>3. CommitState([file EXCEPT !.rules4 = p4, !.rules6 = p6]) /\ ids' = ids
  BY DEF RuleDelete
<1>4. \A rules \in Seq(Rule) : \A fam : \E gone :
        take(rules, fam) = rules \/ take(rules, fam) = Drop(rules, gone)
  <2> TAKE rules \in Seq(Rule)
  <2> TAKE fam
  <2>1. \E gone : TakeApp(rules, t.items[1].app, t.action) = Drop(rules, gone)
    BY DEF TakeApp
  <2>2. \E gone : Take(rules, Expanded(t)[1]) = Drop(rules, gone)
    BY DEF Take
  <2> QED
    BY <2>1, <2>2
<1>5. \A rules \in Seq(Rule) : \A fam :
        /\ take(rules, fam) \in Seq(Rule) /\ ToSet(take(rules, fam)) \subseteq ToSet(rules)
        /\ OneEach(rules) => OneEach(take(rules, fam))
  <2> HIDE DEF take
  <2> TAKE rules \in Seq(Rule)
  <2> TAKE fam
  <2>1. PICK gone : take(rules, fam) = rules \/ take(rules, fam) = Drop(rules, gone)
    BY <1>4
  <2> QED
    BY <2>1, DropKeeps
<1> HIDE DEF take
<1>6. /\ p4 \in Seq(Rule) /\ ToSet(p4) \subseteq ToSet(file.rules4)
      /\ OneEach(file.rules4) => OneEach(p4)
  BY <1>2, <1>5
<1>7. /\ p6 \in Seq(Rule) /\ ToSet(p6) \subseteq ToSet(file.rules6)
      /\ OneEach(file.rules6) => OneEach(p6)
  BY <1>2, <1>5
<1> HIDE DEF p4, p6
<1> DEFINE st == [rules4 |-> p4, rules6 |-> p6, sets |-> file.sets, nat |-> file.nat]
<1>8. Fit(st, ids)
  BY <1>2, <1>6, <1>7, FitFewer
<1>9. [file EXCEPT !.rules4 = p4, !.rules6 = p6] = st
  BY <1>1, ChangedRules
<1> HIDE DEF st
<1> QED
  BY <1>1, <1>3, <1>8, <1>9, Committed

\* rule enable and rule disable change switches alone (cmdRule).
LEMMA ToggleCarries ==
  ASSUME Owned, NEW n, NEW off \in BOOLEAN, CmdRule(n, off)
  PROVE  Carries /\ (IdsApart /\ Kept(file) => Kept(file'))
<1>1. file \in State /\ enabled \in BOOLEAN /\ ids \in Nat /\ ids <= ids /\ Owners(Known, ids)
      /\ MaxId \in Nat /\ ids \in 0 .. MaxId
  BY ConstantsAre DEF Owned, TypeOK
<1>2. /\ file.rules4 \in Seq(Rule) /\ file.rules6 \in Seq(Rule)
      /\ file.sets \in SetsType /\ file.nat \in Seq(NATRule)
      /\ AllRules(file) = ToSet(file.rules4) \cup ToSet(file.rules6)
  BY <1>1, PartsOf
<1>3. CASE Crashes(n)
  <2>1. UNCHANGED objects
    BY <1>3 DEF CmdRule
  <2> QED
    BY <1>1, <2>1, Refused DEF objects
<1>4. CASE ~Crashes(n)
  <2> DEFINE at == RuleByNumber(file, n)
             target == Rules(file, at.v6)[at.idx]
             p4 == Toggled(file.rules4, FALSE, at, target, off)
             p6 == Toggled(file.rules6, TRUE, at, target, off)
  <2>1. CommitState([file EXCEPT !.rules4 = p4, !.rules6 = p6]) /\ ids' = ids
    BY <1>4 DEF CmdRule, Toggling
  <2> HIDE DEF at, target
  <2>2. \A rules \in Seq(Rule), v6 \in BOOLEAN :
          /\ Toggled(rules, v6, at, target, off) \in Seq(Rule)
          /\ OneEach(rules) => OneEach(Toggled(rules, v6, at, target, off))
          /\ \A q \in ToSet(Toggled(rules, v6, at, target, off)) :
               \E p \in ToSet(rules) : p.id = q.id /\ SameRule(p, q)
    <3> TAKE rules \in Seq(Rule), v6 \in BOOLEAN
    <3> DEFINE out == Toggled(rules, v6, at, target, off)
    <3>1. /\ out \in Seq(Rule) /\ Len(out) = Len(rules) /\ (OneEach(rules) => OneEach(out))
          /\ \A i \in 1 .. Len(rules) : SameRule(out[i], rules[i]) /\ out[i].id = rules[i].id
      BY ToggledKeeps
    <3> HIDE DEF out
    <3>2. \A q \in ToSet(out) : \E p \in ToSet(rules) : p.id = q.id /\ SameRule(p, q)
      <4> TAKE q \in ToSet(out)
      <4>1. PICK i \in 1 .. Len(out) : q = out[i]
        BY <3>1, RulesOf
      <4>2. rules[i] \in ToSet(rules)
        BY <3>1, RulesOf
      <4> QED
        BY <3>1, <4>1, <4>2, KeysAlike
    <3> QED
      BY <3>1, <3>2 DEF out
  <2>3. /\ p4 \in Seq(Rule) /\ (OneEach(file.rules4) => OneEach(p4))
        /\ \A q \in ToSet(p4) : \E p \in ToSet(file.rules4) : p.id = q.id /\ SameRule(p, q)
    BY <1>2, <2>2
  <2>4. /\ p6 \in Seq(Rule) /\ (OneEach(file.rules6) => OneEach(p6))
        /\ \A q \in ToSet(p6) : \E p \in ToSet(file.rules6) : p.id = q.id /\ SameRule(p, q)
    BY <1>2, <2>2
  <2> HIDE DEF p4, p6
  <2> DEFINE Q == ToSet(p4) \cup ToSet(p6)
  <2>5. Q \in SUBSET Rule
    BY <2>3, <2>4, RulesOf
  <2>6. \A q \in Q : \E p \in AllRules(file) : p.id = q.id /\ SameRule(p, q)
    BY <1>2, <2>3, <2>4
  <2>7. Owners(Known \cup Q, ids)
    <3> HIDE DEF Q
    <3>1. \A q \in Q : (\E p \in Known : p.id = q.id /\ SameRule(p, q)) \/ q.id \in ids + 1 .. ids
      BY <2>6 DEF Known
    <3>2. \A q, s \in Q : q.id \in ids + 1 .. ids /\ q.id = s.id => SameRule(q, s)
      BY <1>1
    <3>3. ids <= MaxId
      BY <1>1
    <3> QED
      BY <1>1, <2>5, <3>1, <3>2, <3>3, OwnersMore
  <2> DEFINE st == [rules4 |-> p4, rules6 |-> p6, sets |-> file.sets, nat |-> file.nat]
  <2>8. Fit(st, ids)
    <3>1. (\A r \in AllRules(file) : r.id # 0) => \A r \in Q : r.id # 0
      BY <2>6
    <3> QED
      BY <1>1, <1>2, <2>3, <2>4, <2>7, <3>1, FitParts
  <2>9. [file EXCEPT !.rules4 = p4, !.rules6 = p6] = st
    BY <1>1, ChangedRules
  <2> HIDE DEF st
  <2> QED
    BY <1>1, <2>1, <2>8, <2>9, Committed
<1> QED
  BY <1>3, <1>4

\* A document that is merged in leaves a state in order: its ids are those of
\* rules that are the same here, or are given anew (mergeRules).
LEMMA MergeFits ==
  ASSUME Owned, NEW d \in State, NEW given \in Nat, ids <= given,
         given <= MaxId => Owners(Known \cup AllRules(d), given),
         Merge(file, d, given).ids <= MaxId
  PROVE  /\ Fit(Merge(file, d, given).st, Merge(file, d, given).ids)
         /\ ids <= Merge(file, d, given).ids
<1> DEFINE four == MergeRules(file.rules4, d.rules4, given)
           six == MergeRules(file.rules6, d.rules6, four.ids)
           out == Merge(file, d, given)
           st == [rules4 |-> four.rules, rules6 |-> six.rules,
                  sets |-> MergeSets(file.sets, d.sets), nat |-> MergeNat(file.nat, d.nat)]
           P == Known \cup AllRules(d)
<1>1. file \in State /\ MaxId \in Nat /\ ids \in Nat
  BY ConstantsAre DEF Owned, TypeOK
<1>2. /\ file.rules4 \in Seq(Rule) /\ file.rules6 \in Seq(Rule)
      /\ file.sets \in SetsType /\ file.nat \in Seq(NATRule)
      /\ AllRules(file) = ToSet(file.rules4) \cup ToSet(file.rules6)
  BY <1>1, PartsOf
<1>3. /\ d.rules4 \in Seq(Rule) /\ d.rules6 \in Seq(Rule)
      /\ d.sets \in SetsType /\ d.nat \in Seq(NATRule)
      /\ AllRules(d) = ToSet(d.rules4) \cup ToSet(d.rules6)
  BY PartsOf
<1>4. out.st = st /\ out.ids = six.ids
  BY DEF Merge
<1>5. /\ four.ids \in Nat /\ four.rules \in Seq(Rule) /\ given <= four.ids
  BY <1>2, <1>3, MergeGrows
<1>6. /\ six.ids \in Nat /\ six.rules \in Seq(Rule) /\ four.ids <= six.ids
  <2> HIDE DEF four
  <2> QED
    BY <1>2, <1>3, <1>5, MergeGrows
<1>7. six.ids <= MaxId
  BY <1>4
<1>8. MergeSets(file.sets, d.sets) \in SetsType
  <2>1. \E D \in SUBSET SetNames : file.sets \in [D -> SUBSET Elems]
    BY <1>2 DEF SetsType
  <2>2. \E D \in SUBSET SetNames : d.sets \in [D -> SUBSET Elems]
    BY <1>3 DEF SetsType
  <2>3. \E D \in SUBSET SetNames : MergeSets(file.sets, d.sets) \in [D -> SUBSET Elems]
    BY <2>1, <2>2, MergeSetsTwice
  <2> QED
    BY <2>3 DEF SetsType
<1>9. MergeNat(file.nat, d.nat) \in Seq(NATRule)
  BY <1>2, <1>3, MergeNatIs
<1> HIDE DEF six, out
<1>10. four.ids <= MaxId /\ given <= MaxId /\ ids <= six.ids
  <2> HIDE DEF four
  <2> QED
    BY <1>1, <1>5, <1>6, <1>7
<1>11. Owners(P \cup ToSet(four.rules), four.ids)
  <2>1. ToSet(file.rules4) \subseteq P /\ ToSet(d.rules4) \subseteq P /\ Owners(P, given)
    BY <1>2, <1>3, <1>10 DEF Known
  <2> HIDE DEF P
  <2> QED
    BY <1>1, <1>2, <1>3, <1>10, <2>1, MergeOwners
<1> DEFINE P6 == P \cup ToSet(four.rules)
<1>12. Owners(P6 \cup ToSet(six.rules), six.ids)
  <2>1. ToSet(file.rules6) \subseteq P6 /\ ToSet(d.rules6) \subseteq P6
    BY <1>2, <1>3 DEF Known
  <2>2. Owners(P6, four.ids)
    BY <1>11
  <2> HIDE DEF four, P6
  <2>3. MergeRules(file.rules6, d.rules6, four.ids).ids <= MaxId
    BY <1>7 DEF six
  <2> QED
    BY <1>1, <1>2, <1>3, <1>5, <2>1, <2>2, <2>3, MergeOwners DEF six
<1>13. Owners(Known \cup (ToSet(four.rules) \cup ToSet(six.rules)), six.ids)
  <2>1. Known \cup (ToSet(four.rules) \cup ToSet(six.rules)) \in SUBSET (P6 \cup ToSet(six.rules))
    OBVIOUS
  <2> HIDE DEF P6, four
  <2> QED
    BY <1>6, <1>12, <2>1, OwnersFewer
<1>14. OneEach(file.rules4) => OneEach(four.rules)
  BY <1>2, <1>3, MergedIs
<1>15. OneEach(file.rules6) => OneEach(six.rules)
  <2> HIDE DEF four
  <2> QED
    BY <1>2, <1>3, <1>5, MergedIs DEF six
<1>16. ASSUME OneEach(file.rules4), OneEach(file.rules6), \A r \in AllRules(file) : r.id # 0
       PROVE  \A r \in ToSet(four.rules) \cup ToSet(six.rules) : r.id # 0
  <2>1. ASSUME NEW rules \in Seq(Rule), NEW src \in Seq(Rule), NEW g \in Nat, OneEach(rules),
               \A r \in ToSet(rules) : r.id # 0
        PROVE  \A r \in ToSet(MergeRules(rules, src, g).rules) : r.id # 0
    <3> DEFINE merged == MergeRules(rules, src, g)
               new == merged.rules
    <3>1. Placed(merged, rules, g, src, Len(src)) /\ new \in Seq(Rule)
      BY <2>1, MergedIs, MergeGrows
    <3> HIDE DEF merged
    <3>2. /\ \A p \in 1 .. Len(rules) : new[p].id = rules[p].id
          /\ \A p \in Len(rules) + 1 .. Len(new) : new[p].id # 0
      BY <3>1 DEF Placed
    <3>3. \A p \in 1 .. Len(rules) : rules[p].id # 0
      BY <2>1, RulesOf
    <3>4. \A p \in 1 .. Len(new) : p \in 1 .. Len(rules) \/ p \in Len(rules) + 1 .. Len(new)
      BY <3>1
    <3>5. \A p \in 1 .. Len(new) : new[p].id # 0
      BY <3>2, <3>3, <3>4
    <3>6. \A r \in ToSet(new) : r.id # 0
      BY <3>1, <3>5, RulesOf
    <3> QED
      BY <3>6 DEF merged
  <2>2. \A r \in ToSet(four.rules) : r.id # 0
    BY <1>2, <1>3, <1>16, <2>1
  <2>3. \A r \in ToSet(six.rules) : r.id # 0
    <3> HIDE DEF four
    <3> QED
      BY <1>2, <1>3, <1>5, <1>16, <2>1 DEF six
  <2> QED
    BY <2>2, <2>3
<1>17. six.ids \in 0 .. MaxId
  BY <1>1, <1>6, <1>7
<1> HIDE DEF four
<1>18. Fit(st, six.ids)
  BY <1>5, <1>6, <1>8, <1>9, <1>13, <1>14, <1>15, <1>16, <1>17, FitParts
<1> HIDE DEF st
<1>19. Fit(out.st, out.ids) /\ ids <= out.ids
  BY <1>4, <1>10, <1>18
<1> QED
  BY <1>19 DEF out

\* An import stores what it merged before anything loads it.
LEMMA StoredFits ==
  ASSUME Owned, NEW new, Fit(new.st, new.ids), Imported(new)
  PROVE  Carries /\ (IdsApart /\ Kept(file) => Kept(file'))
<1>1. doc \in State /\ enabled \in BOOLEAN
  BY DEF Owned, TypeOK
<1>2. file' = new.st /\ ids' = new.ids /\ doc' = doc /\ enabled' = enabled
  BY DEF Imported
<1>3. Known' \subseteq Known \cup AllRules(new.st)
  <2>1. Known' = AllRules(file') \cup AllRules(doc')
    BY DEF Known, AllRules
  <2> QED
    BY <1>2, <2>1 DEF Known
<1>4. new.ids \in Nat /\ new.ids \in 0 .. MaxId /\ new.st \in State
      /\ Owners(Known \cup AllRules(new.st), new.ids) /\ (IdsApart /\ Kept(file) => Kept(new.st))
  BY ConstantsAre DEF Fit
<1> DEFINE n == new.ids  st == new.st
<1> HIDE DEF n, st
<1>5. n \in Nat /\ Owners(Known \cup AllRules(st), n) /\ n <= n
  BY <1>4 DEF n, st
<1>6. Known' \in SUBSET (Known \cup AllRules(st))
  BY <1>3 DEF st
<1>7. Owners(Known', n)
  BY <1>5, <1>6, OwnersFewer
<1> QED
  BY <1>1, <1>2, <1>4, <1>7 DEF Carries, n

\* The imports, of documents and of ufw's files (cmdImport, cmdImportUFW).
LEMMA ImportCarries ==
  ASSUME Owned, Import
  PROVE  Carries /\ (IdsApart /\ Kept(file) /\ ~CmdImport(TRUE) => Kept(file'))
<1>1. file \in State /\ doc \in State /\ enabled \in BOOLEAN /\ ids \in Nat /\ MaxId \in Nat
      /\ ids \in 0 .. MaxId /\ Owners(Known, ids) /\ ids <= ids
  BY ConstantsAre DEF Owned, TypeOK
<1>2. CASE CmdImport(TRUE)
  <2>1. file' = doc /\ ids' = ids /\ doc' = doc /\ enabled' = enabled
    BY <1>2 DEF CmdImport, Imported
  <2>2. Known' \in SUBSET Known
    <3>1. Known' = AllRules(file') \cup AllRules(doc')
      BY DEF Known, AllRules
    <3> QED
      BY <2>1, <3>1 DEF Known
  <2>3. Owners(Known', ids)
    BY <1>1, <2>2, OwnersFewer
  <2> QED
    BY <1>1, <1>2, <2>1, <2>3 DEF Carries
<1>3. CASE CmdImport(FALSE)
  <2> DEFINE new == Merge(file, doc, ids)
  <2>1. Imported(new)
    BY <1>3 DEF CmdImport
  <2>2. new.ids <= MaxId
    BY <2>1 DEF Imported
  <2>3. Known \cup AllRules(doc) = Known
    BY DEF Known
  <2>4. Fit(new.st, new.ids)
    BY <1>1, <2>2, <2>3, MergeFits
  <2> HIDE DEF new
  <2> QED
    BY <2>1, <2>4, StoredFits
<1>4. CASE \E four, six \in UfwRules : CmdImportUFW(four, six)
  <2>1. PICK four \in UfwRules, six \in UfwRules : CmdImportUFW(four, six)
    BY <1>4
  <2> DEFINE d == UfwDoc(four, six)
             given == ids + Len(four) + Len(six)
             new == Merge(file, d, given)
  <2>2. CASE four \o six = <<>>
    BY <1>1, <2>1, <2>2, Refused DEF CmdImportUFW, Refuse, objects
  <2>3. CASE four \o six # <<>>
    <3>1. Imported(new)
      BY <2>1, <2>3 DEF CmdImportUFW
    <3>2. new.ids <= MaxId
      BY <3>1 DEF Imported
    <3>3. given \in Nat /\ ids <= given
      <4>1. Len(four) \in Nat /\ Len(six) \in Nat
        BY ConstantsAre
      <4> QED
        BY <1>1, <4>1
    <3>4. d \in State
      BY <1>1, UfwDocIs
    <3>5. given <= MaxId => Owners(Known \cup AllRules(d), given)
      BY <1>1, UfwDocIs
    <3> HIDE DEF d, given
    <3>6. Fit(new.st, new.ids)
      BY <3>2, <3>3, <3>4, <3>5, MergeFits
    <3> HIDE DEF new
    <3> QED
      BY <3>1, <3>6, StoredFits
  <2> QED
    BY <2>2, <2>3
<1>5. \A replace \in BOOLEAN : replace = TRUE \/ replace = FALSE
  OBVIOUS
<1> QED
  BY <1>2, <1>3, <1>4, <1>5 DEF Import

\* One command keeps the invariant, and ends Kept only by taking a document for
\* the state.
LEMMA StepCarries ==
  ASSUME Owned, Next
  PROVE  Owned' /\ (IdsApart /\ Kept(file) /\ ~Kept(file') => CmdImport(TRUE))
<1>1. file \in State /\ doc \in State /\ enabled \in BOOLEAN /\ ids \in Nat /\ steps \in Nat
      /\ ids \in 0 .. MaxId /\ Owners(Known, ids) /\ ids <= ids
  BY ConstantsAre DEF Owned, TypeOK
<1>2. Command
  BY DEF Next
<1>3. Carries /\ (IdsApart /\ Kept(file) /\ ~CmdImport(TRUE) => Kept(file'))
  <2>1. CASE SetCommand
    BY <2>1, SetsCarry
  <2>2. CASE NatCommand
    BY <2>2, NatCarries
  <2>3. CASE RuleCommand
    <3>1. PICK t \in Targets, fams \in SUBSET Families \ {{}} : RuleAdd(t, fams) \/ RuleDelete(t, fams)
      BY <2>3 DEF RuleCommand
    <3> QED
      BY <3>1, AddCarries, DeleteCarries
  <2>4. CASE Toggle
    BY <2>4, ToggleCarries DEF Toggle
  <2>5. CASE Export
    <3>1. doc' = file /\ file' = file /\ enabled' = enabled /\ ids' = ids
      BY <2>5 DEF Export
    <3>2. Known' \in SUBSET Known
      <4>1. Known' = AllRules(file') \cup AllRules(doc')
        BY DEF Known, AllRules
      <4> QED
        BY <3>1, <4>1 DEF Known
    <3>3. Owners(Known', ids)
      BY <1>1, <3>2, OwnersFewer
    <3> QED
      BY <1>1, <3>1, <3>3 DEF Carries
  <2>6. CASE Import
    BY <2>6, ImportCarries
  <2>7. CASE Enable
    <3>1. file' = file /\ doc' = doc /\ ids' = ids /\ enabled' \in BOOLEAN
      BY <2>7 DEF Enable, Loads
    <3> QED
      BY <3>1, Refused
  <2>8. CASE Disable
    <3>1. file' = file /\ doc' = doc /\ ids' = ids /\ enabled' \in BOOLEAN
      BY <2>8 DEF Disable
    <3> QED
      BY <3>1, Refused
  <2> QED
    BY <1>2, <2>1, <2>2, <2>3, <2>4, <2>5, <2>6, <2>7, <2>8 DEF Command
<1>4. steps' \in Nat
  BY <1>1 DEF Next
<1>5. Owned'
  BY <1>3, <1>4 DEF Owned, TypeOK, Carries
<1> QED
  BY <1>3, <1>5

\* The invariant holds of what was never touched, and every command keeps it.
LEMMA OwnedHolds == Spec => []Owned
<1>1. Init => Owned
  <2> SUFFICES ASSUME Init PROVE Owned
    OBVIOUS
  <2>1. doc \in Written /\ doc \in State /\ file = Empty /\ enabled \in BOOLEAN /\ ids = 0 /\ steps = 0
        /\ MaxId \in Nat
    BY ConstantsAre DEF Init
  <2>2. Empty \in State /\ AllRules(Empty) = {}
    <3>1. <<>> \in [{} -> SUBSET Elems]
      OBVIOUS
    <3>2. <<>> \in UNION {[names -> SUBSET Elems] : names \in SUBSET SetNames}
      BY <3>1
    <3> QED
      BY <3>2 DEF Empty, State, AllRules, ToSet
  <2>3. Known = AllRules(doc)
    BY <2>1, <2>2 DEF Known
  <2>4. AllRules(doc) \in SUBSET Rule
    <3>1. doc.rules4 \in Seq(Rule) /\ doc.rules6 \in Seq(Rule)
      BY <2>1 DEF State
    <3> QED
      BY <3>1, RulesOf DEF AllRules
  <2>5. IdsApart => \A r, s \in AllRules(doc) :
                      r.id \notin 1 .. MaxId /\ (r.id # 0 /\ r.id = s.id => SameRule(r, s))
    BY <2>1 DEF IdsApart
  <2>6. IdsApart => \A r \in AllRules(doc) : r.id <= 0 \/ r.id > MaxId
    <3> HAVE IdsApart
    <3> TAKE r \in AllRules(doc)
    <3>1. r.id \in Nat
      BY <2>4 DEF Rule
    <3> QED
      BY <2>1, <2>5, <3>1
  <2>7. Owners(Known, ids)
    BY <2>1, <2>3, <2>4, <2>5, <2>6 DEF Owners
  <2>8. ids \in 0 .. MaxId /\ steps \in Nat
    BY <2>1
  <2> QED
    BY <2>1, <2>2, <2>7, <2>8 DEF Owned, TypeOK
<1>2. Owned /\ [Next]_vars => Owned'
  <2> SUFFICES ASSUME Owned, [Next]_vars PROVE Owned'
    OBVIOUS
  <2>1. CASE Next
    BY <2>1, StepCarries
  <2>2. CASE UNCHANGED vars
    BY <2>2 DEF vars, Owned, TypeOK, Known, AllRules
  <2> QED
    BY <2>1, <2>2
<1> QED
  BY <1>1, <1>2, PTL DEF Spec

\* Rules, sets, NAT rules and documents are what they are to be, and no more
\* ids than MaxId are given.
THEOREM ObjectsTyped == Spec => []TypeOK
<1>1. Owned => TypeOK
  BY DEF Owned
<1> QED
  BY <1>1, OwnedHolds, PTL

\* Whatever is added, toggled, deleted, exported and merged back, no rule is
\* there twice and no two rules share an id (mergeRules, idUsed), as long as
\* written documents keep to ids of their own: idUsed looks at one family's
\* list, so the id of a rule of the other would be taken for free.
THEOREM RulesStayKept ==
  ASSUME IdsApart
  PROVE  Spec => StaysKept
<1>1. Owned /\ [Next]_vars => [Kept(file) /\ ~Kept(file') => CmdImport(TRUE)]_file
  <2> SUFFICES ASSUME Owned, [Next]_vars, file' # file
               PROVE  Kept(file) /\ ~Kept(file') => CmdImport(TRUE)
    OBVIOUS
  <2>1. Next
    BY DEF vars
  <2> QED
    BY <2>1, StepCarries
<1> QED
  BY <1>1, OwnedHolds, PTL DEF Spec, StaysKept

-----------------------------------------------------------------------------
(* What can be loaded stays so.                                            *)

\* Importing twice is importing once, and merging back what was just exported
\* changes nothing (mergeRules, mergeSets, mergeNAT).
THEOREM ImportsSettle == Spec => []ImportSettles
<1>1. TypeOK => ImportSettles
  BY Settles, ConstantsAre DEF TypeOK
<1> QED
  BY <1>1, ObjectsTyped, PTL

\* A merged document takes nothing away: rules that it does not name stay as
\* they are and where they are, the others keep their ids (mergeRules).
THEOREM ImportsKeepOthers == Spec => []ImportKeepsOthers
<1>1. TypeOK => ImportKeepsOthers
  BY KeepsOthers, ConstantsAre DEF TypeOK
<1> QED
  BY <1>1, ObjectsTyped, PTL

\* The set commands keep a state that loads: a new set has no twin, a set that
\* is destroyed is looked up by no rule of either family afterwards.
LEMMA SetsLoad ==
  ASSUME TypeOK, SetCommand, Loads(file), file' # file
  PROVE  Loads(file')
<1>1. file \in State
  BY DEF TypeOK
<1>2. /\ file.rules4 \in Seq(Rule) /\ file.rules6 \in Seq(Rule)
      /\ file.sets \in SetsType /\ file.nat \in Seq(NATRule)
      /\ AllRules(file) = ToSet(file.rules4) \cup ToSet(file.rules6)
  BY <1>1, PartsOf
<1>3. /\ \A a, b \in DOMAIN file.sets : ~Collide(a, b)
      /\ \A r \in AllRules(file) : r.set # NoSet /\ ~r.disabled => r.set \in DOMAIN file.sets
      /\ \A i \in DOMAIN file.nat : NatLoads(file.nat[i])
  BY DEF Loads
<1>4. ~Refuse
  BY DEF Refuse, objects
<1>5. PICK name \in SetNames :
        \/ SetCreate(name)
        \/ \E e \in Elems : SetAdd(name, e) \/ SetDel(name, e)
        \/ \E force \in BOOLEAN : SetDestroy(name, force)
  BY DEF SetCommand
<1>6. CASE SetCreate(name)
  <2> DEFINE sets == With(file.sets, name, {})
  <2>1. /\ file' = [file EXCEPT !.sets = sets]
        /\ name \notin DOMAIN file.sets /\ \A o \in DOMAIN file.sets : ~Collide(name, o)
    BY <1>4, <1>6 DEF SetCreate, CommitState
  <2>2. DOMAIN sets = DOMAIN file.sets \cup {name}
    BY DEF With
  <2>3. ~Collide(name, name) /\ \A o : Collide(o, name) <=> Collide(name, o)
    BY ObjectsAssumption DEF Collide
  <2> HIDE DEF sets
  <2>4. file' = [rules4 |-> file.rules4, rules6 |-> file.rules6, sets |-> sets, nat |-> file.nat]
    BY <1>1, <2>1, ChangedSets
  <2>5. AllRules(file') = AllRules(file) /\ file'.sets = sets /\ file'.nat = file.nat
    BY <2>4 DEF AllRules
  <2>6. \A a, b \in DOMAIN sets : ~Collide(a, b)
    BY <1>3, <2>1, <2>2, <2>3
  <2> QED
    BY <1>3, <2>2, <2>5, <2>6 DEF Loads
<1>7. CASE \E e \in Elems : SetAdd(name, e) \/ SetDel(name, e)
  <2>1. PICK elems : file' = [file EXCEPT !.sets[name] = elems]
    BY <1>4, <1>7 DEF SetAdd, SetDel, CommitState
  <2> DEFINE sets == [file.sets EXCEPT ![name] = elems]
  <2>2. file' = [file EXCEPT !.sets = sets]
    BY <2>1
  <2>3. DOMAIN sets = DOMAIN file.sets
    OBVIOUS
  <2> HIDE DEF sets
  <2>4. file' = [rules4 |-> file.rules4, rules6 |-> file.rules6, sets |-> sets, nat |-> file.nat]
    BY <1>1, <2>2, ChangedSets
  <2>5. AllRules(file') = AllRules(file) /\ file'.sets = sets /\ file'.nat = file.nat
    BY <2>4 DEF AllRules
  <2> QED
    BY <1>3, <2>3, <2>5 DEF Loads
<1>8. CASE \E force \in BOOLEAN : SetDestroy(name, force)
  <2> DEFINE sets == Without(file.sets, name)
             gone(rules) == {i \in DOMAIN rules : rules[i].set = name}
             p4 == Drop(file.rules4, gone(file.rules4))
             p6 == Drop(file.rules6, gone(file.rules6))
  <2>1. file' = [file EXCEPT !.sets = sets, !.rules4 = p4, !.rules6 = p6]
    BY <1>4, <1>8 DEF SetDestroy, CommitState, DropSetRefs
  <2>2. DOMAIN sets = DOMAIN file.sets \ {name}
    BY DEF Without
  <2>3. ASSUME NEW rules \in Seq(Rule), NEW r \in ToSet(Drop(rules, gone(rules)))
        PROVE  r \in ToSet(rules) /\ r.set # name
    <3>1. /\ Drop(rules, gone(rules)) \in Seq(Rule)
          /\ ToSet(Drop(rules, gone(rules))) \subseteq ToSet(rules)
          /\ \A i \in 1 .. Len(Drop(rules, gone(rules))) : \E k \in 1 .. Len(rules) :
               k \notin gone(rules) /\ Drop(rules, gone(rules))[i] = rules[k]
      <4> HIDE DEF gone
      <4> QED
        BY DropKeeps
    <3> DEFINE out == Drop(rules, gone(rules))
    <3> HIDE DEF out
    <3>2. PICK i \in 1 .. Len(out) : r = out[i]
      BY <3>1, RulesOf DEF out
    <3>3. PICK k \in 1 .. Len(rules) : k \notin gone(rules) /\ r = rules[k]
      BY <3>1, <3>2 DEF out
    <3> QED
      BY <3>1, <3>3
  <2> HIDE DEF sets
  <2>4. \A r \in ToSet(p4) \cup ToSet(p6) : r \in AllRules(file) /\ r.set # name
    BY <1>2, <2>3
  <2> HIDE DEF p4, p6
  <2>5. file' = [rules4 |-> p4, rules6 |-> p6, sets |-> sets, nat |-> file.nat]
    BY <1>1, <2>1, ChangedBoth
  <2>6. AllRules(file') = ToSet(p4) \cup ToSet(p6) /\ file'.sets = sets /\ file'.nat = file.nat
    BY <2>5 DEF AllRules
  <2> QED
    BY <1>3, <2>2, <2>4, <2>6 DEF Loads
<1> QED
  BY <1>5, <1>6, <1>7, <1>8

\* What is behind a sequence with one more element.
LEMMA AppendIs ==
  ASSUME NEW S, NEW s \in Seq(S), NEW e \in S
  PROVE  /\ Append(s, e) \in Seq(S) /\ Len(Append(s, e)) = Len(s) + 1
         /\ Append(s, e)[Len(s) + 1] = e
         /\ \A i \in 1 .. Len(s) : Append(s, e)[i] = s[i]
         /\ Len(s) \in Nat /\ DOMAIN s = 1 .. Len(s)
OBVIOUS

\* A NAT rule that natAdd lets through loads.
LEMMA AddedLoads ==
  ASSUME NEW n \in NATRules, ~(n.kind = "dnat" /\ n.dst # n.to)
  PROVE  n \in NATRule /\ NatLoads(n)
<1>1. n \in NATRule /\ (n.kind = "dnat" => n.src = "" /\ n.dst # "" /\ n.to # "")
  BY ObjectsAssumption
<1>2. CASE n.kind # "dnat"
  BY <1>1, <1>2 DEF NatLoads
<1>3. CASE n.kind = "dnat"
  <2>1. n.src = "" /\ n.dst = n.to /\ n.to # ""
    BY <1>1, <1>3
  <2>2. NatV6(n) = (n.to = "v6")
    <3>1. NatV6(n) <=> n.to = "v6"
      BY <2>1 DEF NatV6
    <3>2. NatV6(n) \in BOOLEAN
      BY DEF NatV6
    <3> QED
      BY <3>1, <3>2, Zenon
  <2> QED
    BY <1>1, <2>1, <2>2, Zenon DEF NatLoads
<1> QED
  BY <1>2, <1>3

\* So do the NAT commands, which let no rule in that would not load.
LEMMA NatStaysLoaded ==
  ASSUME TypeOK, NatCommand, Loads(file), file' # file
  PROVE  Loads(file')
<1>1. file \in State
  BY DEF TypeOK
<1> DEFINE nat == file.nat
<1>2. nat \in Seq(NATRule)
  BY <1>1, PartsOf
<1>3. /\ \A a, b \in DOMAIN file.sets : ~Collide(a, b)
      /\ \A r \in AllRules(file) : r.set # NoSet /\ ~r.disabled => r.set \in DOMAIN file.sets
      /\ \A i \in DOMAIN nat : NatLoads(nat[i])
  BY DEF Loads
<1>4. ~Refuse
  BY DEF Refuse, objects
<1>5. ASSUME NEW new \in Seq(NATRule), file' = [file EXCEPT !.nat = new],
             \A i \in 1 .. Len(new) : NatLoads(new[i])
      PROVE  Loads(file')
  <2>1. file' = [rules4 |-> file.rules4, rules6 |-> file.rules6, sets |-> file.sets, nat |-> new]
    BY <1>1, <1>5, ChangedNat
  <2>2. AllRules(file') = AllRules(file) /\ file'.sets = file.sets /\ file'.nat = new
    BY <2>1 DEF AllRules
  <2> QED
    BY <1>3, <1>5, <2>2 DEF Loads
<1>6. CASE \E n \in NATRules : NatAdd(n)
  <2>1. PICK n \in NATRules : NatAdd(n)
    BY <1>6
  <2>2. ~(n.kind = "dnat" /\ n.dst # n.to) /\ file' = [file EXCEPT !.nat = Append(nat, n)]
    BY <1>4, <2>1 DEF NatAdd, CommitState
  <2>3. n \in NATRule
    BY <2>2, AddedLoads
  <2>4. NatLoads(n)
    BY <2>2, AddedLoads
  <2> HIDE DEF nat
  <2>5. Append(nat, n) \in Seq(NATRule) /\ \A i \in 1 .. Len(Append(nat, n)) :
          \/ i \in DOMAIN nat /\ Append(nat, n)[i] = nat[i]
          \/ Append(nat, n)[i] = n
    <3> DEFINE len == Len(nat)
    <3>1. len \in Nat /\ DOMAIN nat = 1 .. len
      BY <1>2, <2>3, AppendIs
    <3>2. /\ Append(nat, n) \in Seq(NATRule) /\ Len(Append(nat, n)) = len + 1
          /\ Append(nat, n)[len + 1] = n /\ \A i \in 1 .. len : Append(nat, n)[i] = nat[i]
      BY <1>2, <2>3, AppendIs
    <3> HIDE DEF len
    <3>3. \A i \in 1 .. len + 1 : i \in 1 .. len \/ i = len + 1
      BY <3>1
    <3> QED
      BY <3>1, <3>2, <3>3
  <2>6. ASSUME NEW i \in 1 .. Len(Append(nat, n))
        PROVE  NatLoads(Append(nat, n)[i])
    <3>1. CASE i \in DOMAIN nat /\ Append(nat, n)[i] = nat[i]
      BY <1>3, <3>1
    <3>2. CASE Append(nat, n)[i] = n
      BY <2>4, <3>2
    <3> QED
      BY <2>5, <3>1, <3>2
  <2> QED
    BY <1>5, <2>2, <2>5, <2>6
<1>7. CASE \E i \in DOMAIN file.nat : NatDelete(i)
  <2>1. PICK i \in DOMAIN file.nat : NatDelete(i)
    BY <1>7
  <2>2. i \in 1 .. Len(nat)
    BY <1>2, <2>1
  <2>3. file' = [file EXCEPT !.nat = RemoveAt(nat, i)]
    BY <1>4, <2>1 DEF NatDelete, CommitState
  <2> HIDE DEF nat
  <2> DEFINE a == SubSeq(nat, 1, i - 1)  b == SubSeq(nat, i + 1, Len(nat))
  <2>4. /\ a \in Seq(NATRule) /\ b \in Seq(NATRule)
        /\ \A k \in 1 .. Len(a) : \E l \in DOMAIN nat : a[k] = nat[l]
        /\ \A k \in 1 .. Len(b) : \E l \in DOMAIN nat : b[k] = nat[l]
    BY <1>2, <2>2
  <2>5. RemoveAt(nat, i) = a \o b
    BY DEF RemoveAt
  <2> HIDE DEF a, b
  <2>6. /\ a \o b \in Seq(NATRule)
        /\ \A k \in 1 .. Len(a \o b) : \/ k \in 1 .. Len(a) /\ (a \o b)[k] = a[k]
                                       \/ k - Len(a) \in 1 .. Len(b) /\ (a \o b)[k] = b[k - Len(a)]
    BY <2>4, ConcatProperties
  <2>7. \A k \in 1 .. Len(a \o b) : NatLoads((a \o b)[k])
    BY <1>3, <2>4, <2>6
  <2> QED
    BY <1>5, <2>3, <2>5, <2>6, <2>7
<1> QED
  BY <1>6, <1>7 DEF NatCommand

\* Once the state loads, only an import or a rule command on a firewall that is
\* not enabled ends that (setCreate, setDestroy, natAdd, applyState).
THEOREM StateStaysLoadable == Spec => StaysLoadable
<1>1. TypeOK /\ [Next]_vars =>
        [Loads(file) /\ ~Loads(file') => Import \/ (~enabled /\ (RuleCommand \/ Toggle))]_file
  <2> SUFFICES ASSUME TypeOK, [Next]_vars, file' # file, Loads(file), ~Loads(file')
               PROVE  Import \/ (~enabled /\ (RuleCommand \/ Toggle))
    OBVIOUS
  <2>1. Command
    BY DEF vars, Next
  <2>2. ~SetCommand /\ ~NatCommand
    BY SetsLoad, NatStaysLoaded
  <2>3. ~Export /\ ~Enable /\ ~Disable
    BY DEF Export, Enable, Disable
  <2>4. \A st : CommitState(st) => ~enabled
    BY DEF CommitState
  <2>5. RuleCommand => ~enabled
    BY <2>4 DEF RuleCommand, RuleAdd, RuleDelete
  <2>6. Toggle => ~enabled
    <3>1. \A n, off : CmdRule(n, off) => ~enabled
      BY <2>4 DEF CmdRule, objects
    <3> QED
      BY <3>1 DEF Toggle
  <2> QED
    BY <2>1, <2>2, <2>3, <2>5, <2>6 DEF Command
<1> QED
  BY <1>1, ObjectsTyped, PTL DEF Spec, StaysLoadable

-----------------------------------------------------------------------------
(* One rule of those that are shown is switched.                           *)

\* Numbers have members: the place that a number asks for is one of those
\* that are shown.
LEMMA Nth ==
  ASSUME NEW m \in Nat, NEW S \in SUBSET (1 .. m), NEW k \in 1 .. Cardinality(S)
  PROVE  \E i \in S : Cardinality({j \in S : j <= i}) = k
<1> DEFINE upto(i) == {j \in S : j <= i}
           count(i) == Cardinality(upto(i))
           T == {i \in 0 .. m : count(i) >= k}
<1>1. IsFiniteSet(1 .. m)
  BY FS_Interval
<1>2. IsFiniteSet(S) /\ Cardinality(S) \in Nat /\ k \in Nat
  <2>1. IsFiniteSet(S)
    BY <1>1, FS_Subset
  <2> QED
    BY <2>1, FS_CardinalityType
<1>3. \A i \in 0 .. m : IsFiniteSet(upto(i)) /\ count(i) \in Nat
  <2> TAKE i \in 0 .. m
  <2>1. upto(i) \in SUBSET S
    OBVIOUS
  <2> HIDE DEF upto
  <2>2. IsFiniteSet(upto(i))
    BY <1>2, <2>1, FS_Subset
  <2> QED
    BY <2>2, FS_CardinalityType
<1>4. upto(m) = S /\ upto(0) = {}
  <2>1. \A j \in S : j <= m /\ ~(j <= 0)
    OBVIOUS
  <2> QED
    BY <2>1
<1>5. \A i \in 1 .. m : upto(i) = IF i \in S THEN upto(i - 1) \cup {i} ELSE upto(i - 1)
  <2> TAKE i \in 1 .. m
  <2>1. \A j \in S : j <= i <=> j <= i - 1 \/ j = i
    OBVIOUS
  <2> QED
    BY <2>1
<1>6. \A i \in 1 .. m : i \notin upto(i - 1)
  OBVIOUS
<1> HIDE DEF upto
<1>7. m \in T /\ T \in SUBSET Nat
  BY <1>2, <1>4
<1>8. count(0) = 0
  BY <1>4, FS_EmptySet
<1>9. PICK i \in T : \A l \in T : i <= l
  <2> HIDE DEF T
  <2> QED
    BY <1>7, Smallest
<1>10. i \in 1 .. m /\ count(i) >= k
  BY <1>2, <1>8, <1>9
<1>11. i - 1 \in 0 .. m /\ ~(i <= i - 1)
  BY <1>10
<1>12. count(i - 1) < k
  <2>1. i - 1 \notin T
    BY <1>9, <1>11
  <2> QED
    BY <1>2, <1>3, <1>11, <2>1
<1>13. i \in S
  <2> SUFFICES ASSUME i \notin S PROVE FALSE
    OBVIOUS
  <2>1. upto(i) = upto(i - 1)
    BY <1>5, <1>10
  <2>2. count(i) = count(i - 1) /\ count(i) \in Nat
    BY <1>3, <1>10, <2>1
  <2> QED
    BY <1>2, <1>10, <1>12, <2>2
<1>14. count(i) = count(i - 1) + 1
  <2>1. upto(i) = upto(i - 1) \cup {i} /\ i \notin upto(i - 1) /\ IsFiniteSet(upto(i - 1))
    BY <1>3, <1>5, <1>6, <1>10, <1>11, <1>13
  <2> QED
    BY <2>1, FS_AddElement
<1>15. count(i) = k
  <2> HIDE DEF count
  <2> QED
    BY <1>2, <1>3, <1>10, <1>11, <1>12, <1>14
<1> QED
  BY <1>13, <1>15 DEF upto

\* A number that is shown is that of a rule in the list it is looked up in
\* (ruleByNumber).
LEMMA NumberIs ==
  ASSUME NEW st \in State, NEW n \in Numbers(st)
  PROVE  LET at == RuleByNumber(st, n) IN
         at.v6 \in BOOLEAN /\ at.idx \in DOMAIN Rules(st, at.v6)
<1> DEFINE s4 == Shown(st.rules4)
           s6 == Shown(st.rules6)
           c4 == Cardinality(s4)
           c6 == Cardinality(s6)
           nth(shown, k) == CHOOSE i \in shown : Cardinality({j \in shown : j <= i}) = k
           at == RuleByNumber(st, n)
<1>1. /\ Len(st.rules4) \in Nat /\ s4 \in SUBSET (1 .. Len(st.rules4))
      /\ Len(st.rules6) \in Nat /\ s6 \in SUBSET (1 .. Len(st.rules6))
      /\ DOMAIN st.rules4 = 1 .. Len(st.rules4) /\ DOMAIN st.rules6 = 1 .. Len(st.rules6)
  <2>1. st.rules4 \in Seq(Rule) /\ st.rules6 \in Seq(Rule)
    BY PartsOf
  <2>2. \A rules : Shown(rules) \subseteq DOMAIN rules
    BY Zenon DEF Shown
  <2> HIDE DEF s4, s6
  <2>3. s4 \subseteq DOMAIN st.rules4 /\ s6 \subseteq DOMAIN st.rules6
    BY <2>2 DEF s4, s6
  <2> QED
    BY <2>1, <2>3
<1>2. n \in 1 .. c4 + c6
  BY DEF Numbers
<1>3. at = IF n <= c4 THEN [v6 |-> FALSE, idx |-> nth(s4, n)]
           ELSE [v6 |-> TRUE, idx |-> nth(s6, n - c4)]
  BY DEF RuleByNumber
<1> HIDE DEF s4, s6
<1>4. c4 \in Nat /\ c6 \in Nat
  <2>1. \A m \in Nat : IsFiniteSet(1 .. m)
    BY FS_Interval
  <2>2. IsFiniteSet(s4) /\ IsFiniteSet(s6)
    BY <1>1, <2>1, FS_Subset
  <2> QED
    BY <2>2, FS_CardinalityType
<1>5. CASE n <= c4
  <2>1. n \in 1 .. Cardinality(s4)
    BY <1>2, <1>4, <1>5
  <2>2. \E i \in s4 : Cardinality({j \in s4 : j <= i}) = n
    BY <1>1, <2>1, Nth
  <2>3. nth(s4, n) \in s4
    BY <2>2
  <2> HIDE DEF nth, at
  <2>4. at.v6 = FALSE /\ at.idx = nth(s4, n)
    BY <1>3, <1>5
  <2>5. Rules(st, at.v6) = st.rules4
    BY <2>4 DEF Rules
  <2> QED
    BY <1>1, <2>3, <2>4, <2>5 DEF at
<1>6. CASE ~(n <= c4)
  <2> DEFINE k == n - c4
  <2>1. k \in 1 .. Cardinality(s6)
    BY <1>2, <1>4, <1>6
  <2> HIDE DEF k
  <2>2. \E i \in s6 : Cardinality({j \in s6 : j <= i}) = k
    BY <1>1, <2>1, Nth
  <2>3. nth(s6, k) \in s6
    BY <2>2
  <2> HIDE DEF nth, at
  <2>4. at.v6 = TRUE /\ at.idx = nth(s6, k)
    BY <1>3, <1>6 DEF k
  <2>5. Rules(st, at.v6) = st.rules6
    BY <2>4 DEF Rules
  <2> QED
    BY <1>1, <2>3, <2>4, <2>5 DEF at
<1> QED
  BY <1>5, <1>6

\* The id that a toggle goes by is that of one rule, whose halves are the only
\* ones under it.
LEMMA UnderOneId ==
  ASSUME NEW st \in State, Kept(st), NEW v6 \in BOOLEAN, NEW w6 \in BOOLEAN,
         NEW i \in DOMAIN Rules(st, v6), NEW j \in DOMAIN Rules(st, w6),
         Rules(st, v6)[i].id = Rules(st, w6)[j].id
  PROVE  SameRule(Rules(st, v6)[i], Rules(st, w6)[j])
<1>1. CASE v6 = w6
  <2>1. i = j
    BY <1>1 DEF Kept
  <2> QED
    BY <1>1, <2>1 DEF SameRule
<1>2. CASE v6 # w6
  <2>1. \A u \in BOOLEAN : Rules(st, u) \in Seq(Rule)
    BY PartsOf DEF Rules
  <2>2. /\ Rules(st, v6)[i] \in ToSet(Rules(st, v6))
        /\ Rules(st, w6)[j] \in ToSet(Rules(st, w6))
    BY DEF ToSet
  <2>3. CASE v6 = FALSE /\ w6 = TRUE
    BY <2>2, <2>3 DEF Kept, Rules
  <2>4. CASE v6 = TRUE /\ w6 = FALSE
    <3>1. SameRule(Rules(st, w6)[j], Rules(st, v6)[i])
      BY <2>2, <2>4 DEF Kept, Rules
    <3> QED
      BY <3>1 DEF SameRule
  <2>5. (v6 = FALSE /\ w6 = TRUE) \/ (v6 = TRUE /\ w6 = FALSE)
    BY <1>2
  <2> QED
    BY <2>3, <2>4, <2>5, Zenon
<1> QED
  BY <1>1, <1>2

\* What the toggle goes by is the rule of the number, where ids are each one
\* rule's: its own line is the only one under its id.
LEMMA HitsNumber ==
  ASSUME file \in State, Kept(file), NEW n \in Numbers(file),
         NEW v6 \in BOOLEAN, NEW i \in DOMAIN Rules(file, v6)
  PROVE  LET at == RuleByNumber(file, n) IN
         Hit(Rules(file, v6), i, v6, at, Rules(file, at.v6)[at.idx]) <=> OfNumber(n, v6, i)
<1> DEFINE at == RuleByNumber(file, n)
           target == Rules(file, at.v6)[at.idx]
           r == Rules(file, v6)[i]
<1>1. at.v6 \in BOOLEAN /\ at.idx \in DOMAIN Rules(file, at.v6)
  BY NumberIs
<1>2. OfNumber(n, v6, i) <=>
        IF v6 = at.v6 THEN i = at.idx \/ (target.item.app # "" /\ AppTuple(r) = AppTuple(target))
        ELSE target.item.app = "" /\ r.id = target.id /\ SameRule(r, target)
  BY DEF OfNumber
<1> HIDE DEF at
<1>3. CASE v6 = at.v6
  <2>1. r.id = target.id => i = at.idx
    BY <1>1, <1>3 DEF Kept
  <2>2. i = at.idx => r.id = target.id /\ AppTuple(r) = AppTuple(target)
    BY <1>3
  <2> HIDE DEF target, r
  <2>3. OfNumber(n, v6, i) <=>
          IF target.item.app = "" THEN r.id = target.id ELSE AppTuple(r) = AppTuple(target)
    BY <1>2, <1>3, <2>1, <2>2
  <2> QED
    BY <1>3, <2>3 DEF Hit, target, r, at
<1>4. CASE v6 # at.v6
  <2>1. r.id = target.id => SameRule(r, target)
    BY <1>1, UnderOneId
  <2> HIDE DEF target, r
  <2>2. OfNumber(n, v6, i) <=> target.item.app = "" /\ r.id = target.id
    BY <1>2, <1>4, <2>1
  <2> QED
    BY <1>4, <2>2 DEF Hit, target, r, at
<1> QED
  BY <1>3, <1>4

\* The state that a toggle makes (cmdRule).
LEMMA TogglesOne == ASSUME file \in State PROVE TogglesOneRule
<1> SUFFICES ASSUME Kept(file), NEW n \in Numbers(file), NEW off \in BOOLEAN
             PROVE  LET new == Toggling(n, off) IN
                    /\ new.sets = file.sets /\ new.nat = file.nat
                    /\ \A v6 \in BOOLEAN :
                         /\ DOMAIN Rules(new, v6) = DOMAIN Rules(file, v6)
                         /\ \A i \in DOMAIN Rules(file, v6) :
                              Rules(new, v6)[i] =
                                IF OfNumber(n, v6, i)
                                THEN [Rules(file, v6)[i] EXCEPT !.disabled = off]
                                ELSE Rules(file, v6)[i]
  BY DEF TogglesOneRule
<1> DEFINE at == RuleByNumber(file, n)
           target == Rules(file, at.v6)[at.idx]
           t4 == Toggled(file.rules4, FALSE, at, target, off)
           t6 == Toggled(file.rules6, TRUE, at, target, off)
           new == Toggling(n, off)
<1>1. new = [file EXCEPT !.rules4 = t4, !.rules6 = t6]
  BY DEF Toggling
<1>2. file.rules4 \in Seq(Rule) /\ file.rules6 \in Seq(Rule)
  BY PartsOf
<1>3. \A v6 \in BOOLEAN : \A i \in DOMAIN Rules(file, v6) :
        Hit(Rules(file, v6), i, v6, at, target) <=> OfNumber(n, v6, i)
  BY HitsNumber
<1> HIDE DEF at, target
<1>4. new.rules4 = t4 /\ new.rules6 = t6 /\ new.sets = file.sets /\ new.nat = file.nat
  <2> HIDE DEF t4, t6, new
  <2> QED
    BY <1>1, ChangedRules
<1>5. ASSUME NEW v6 \in BOOLEAN
      PROVE  Rules(new, v6) = Toggled(Rules(file, v6), v6, at, target, off)
  <2> HIDE DEF new
  <2>1. CASE v6 = TRUE
    BY <1>4, <2>1 DEF Rules
  <2>2. CASE v6 = FALSE
    BY <1>4, <2>2 DEF Rules
  <2> QED
    BY <2>1, <2>2
<1> HIDE DEF new
<1>6. ASSUME NEW v6 \in BOOLEAN
      PROVE  /\ DOMAIN Rules(new, v6) = DOMAIN Rules(file, v6)
             /\ \A i \in DOMAIN Rules(file, v6) :
                  Rules(new, v6)[i] =
                    IF OfNumber(n, v6, i) THEN [Rules(file, v6)[i] EXCEPT !.disabled = off]
                    ELSE Rules(file, v6)[i]
  <2>1. Rules(file, v6) \in Seq(Rule)
    BY <1>2 DEF Rules
  <2> QED
    BY <1>3, <1>5, <2>1, ToggledIs
<1> QED
  BY <1>4, <1>6 DEF new

\* rule enable and disable switch the line of the number shown, its half in
\* the other family or the members of its application, and nothing else:
\* numbers go by place, the change by id, and an id is one rule's (cmdRule).
\* The numbers at which the handler crashes are excepted.
THEOREM OneRuleToggled == Spec => []TogglesOneRule
<1>1. TypeOK => TogglesOneRule
  BY TogglesOne DEF TypeOK
<1> QED
  BY <1>1, ObjectsTyped, PTL
=============================================================================
