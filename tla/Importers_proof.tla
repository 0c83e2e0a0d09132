--------------------------- MODULE Importers_proof ---------------------------
(***************************************************************************)
(* What imports keep, for sources and states of any size: where the rules  *)
(* of a list stay, what is first in it, what the state is made of (Made,   *)
(* the invariant), and that a state made of nothing else decides as its    *)
(* source did.                                                             *)
(***************************************************************************)
EXTENDS ImportersProps, SequenceLemmas, FiniteSetTheorems

-----------------------------------------------------------------------------
(* Merging foreign rules.                                                  *)

\* A record with the fields that a merge looks at.
IsRule(r) ==
    /\ r = [f \in DOMAIN r |-> r[f]]
    /\ {"action", "log", "comment", "disabled", "expired"} \subseteq DOMAIN r

\* The rule that a merge stores in the place of another one.
Replaced(old, nr) == [nr EXCEPT !.disabled = old.disabled, !.expired = old.expired]

\* The places of the rules of a list that have a rule's key.
Same(rules, nr) == {i \in 1 .. Len(rules) : TupleKey(rules[i]) = TupleKey(nr)}

OnceEach(rules) ==
    \A i, j \in 1 .. Len(rules) : TupleKey(rules[i]) = TupleKey(rules[j]) => i = j

\* A replacement has the key of what it is made from, the switch and the
\* expiry of what it replaces.
LEMMA ReplacedKeeps ==
  ASSUME NEW old, NEW nr, IsRule(nr)
  PROVE  /\ TupleKey(Replaced(old, nr)) = TupleKey(nr)
         /\ Replaced(old, nr).disabled = old.disabled
         /\ Replaced(old, nr).expired = old.expired
BY DEF IsRule, Replaced, TupleKey

\* What the search of a merge finds.
LEMMA Found ==
  ASSUME NEW S, NEW rules \in Seq(S), NEW nr
  PROVE  LET j == SelectInSeq(rules, LAMBDA r : TupleKey(r) = TupleKey(nr)) IN
         IF Same(rules, nr) = {} THEN j = 0 ELSE j \in Same(rules, nr)
<1>1. Same(rules, nr) \in SUBSET Nat
  BY DEF Same
<1>2. CASE Same(rules, nr) # {}
  <2>1. \E i \in Same(rules, nr) : \A k \in Same(rules, nr) : i <= k
    <3>1. IsWellFoundedOn(OpToRel(<, Nat), Nat)
      BY NatLessThanWellFounded
    <3>2. PICK i \in Same(rules, nr) :
            \A k \in Same(rules, nr) : <<k, i>> \notin OpToRel(<, Nat)
      BY <1>1, <1>2, <3>1, WFMin
    <3>3. \A k \in Same(rules, nr) : ~(k < i)
      BY <1>1, <3>2 DEF OpToRel
    <3> QED
      BY <1>1, <3>3
  <2>2. Min(Same(rules, nr)) \in Same(rules, nr)
    BY <2>1 DEF Min
  <2> QED
    BY <1>2, <2>2 DEF SelectInSeq, Same
<1>3. CASE Same(rules, nr) = {}
  BY <1>3 DEF SelectInSeq, Same
<1> QED
  BY <1>2, <1>3

\* The three outcomes of a step.
LEMMA Outcomes ==
  ASSUME NEW S, NEW rules \in Seq(S), NEW nr
  PROVE  \/ /\ Same(rules, nr) = {} /\ MergeRule(rules, nr) = Append(rules, nr)
         \/ Same(rules, nr) # {} /\ MergeRule(rules, nr) = rules
         \/ \E j \in Same(rules, nr) :
               MergeRule(rules, nr) = [rules EXCEPT ![j] = Replaced(rules[j], nr)]
<1> DEFINE j == SelectInSeq(rules, LAMBDA r : TupleKey(r) = TupleKey(nr))
<1>1. IF Same(rules, nr) = {} THEN j = 0 ELSE j \in Same(rules, nr)
  BY Found
<1>2. Same(rules, nr) \subseteq 1 .. Len(rules) /\ 0 \notin Same(rules, nr)
  BY DEF Same
<1>3. MergeRule(rules, nr) =
        IF j = 0 THEN Append(rules, nr)
        ELSE IF MatchExact(rules[j], nr) THEN rules
        ELSE [rules EXCEPT ![j] = Replaced(rules[j], nr)]
  BY DEF MergeRule, Replaced
<1> QED
  BY <1>1, <1>2, <1>3

(* An imported rule leaves every stored one where it is, with its key, its *)
(* switch and its expiry, and those of other keys as they are (mergeRules). *)
THEOREM MergeKeepsPlaces ==
  ASSUME NEW S, NEW rules \in Seq(S), NEW nr \in S, \A r \in S : IsRule(r),
         NEW k \in 1 .. Len(rules)
  PROVE  LET out == MergeRule(rules, nr) IN
         /\ k \in 1 .. Len(out)
         /\ TupleKey(out[k]) = TupleKey(rules[k])
         /\ out[k].disabled = rules[k].disabled /\ out[k].expired = rules[k].expired
         /\ TupleKey(rules[k]) # TupleKey(nr) => out[k] = rules[k]
<1> DEFINE out == MergeRule(rules, nr)
<1>1. CASE Same(rules, nr) = {} /\ out = Append(rules, nr)
  <2>1. Len(out) = Len(rules) + 1 /\ out[k] = rules[k]
    BY <1>1
  <2> QED
    BY <2>1
<1>2. CASE out = rules
  BY <1>2
<1>3. ASSUME NEW j \in Same(rules, nr), out = [rules EXCEPT ![j] = Replaced(rules[j], nr)]
      PROVE  /\ k \in 1 .. Len(out)
             /\ TupleKey(out[k]) = TupleKey(rules[k])
             /\ out[k].disabled = rules[k].disabled /\ out[k].expired = rules[k].expired
             /\ TupleKey(rules[k]) # TupleKey(nr) => out[k] = rules[k]
  <2>1. j \in 1 .. Len(rules) /\ TupleKey(rules[j]) = TupleKey(nr)
    BY DEF Same
  <2>2. Len(out) = Len(rules) /\ out[k] = IF k = j THEN Replaced(rules[j], nr) ELSE rules[k]
    BY <1>3, <2>1
  <2>3. IsRule(nr)
    OBVIOUS
  <2> QED
    BY <2>1, <2>2, <2>3, ReplacedKeeps
<1> QED
  BY <1>1, <1>2, <1>3, Outcomes

(* A list with one rule for each key has one for each after an imported    *)
(* rule has joined it (mergeRules).                                        *)
THEOREM MergeMakesNoCopies ==
  ASSUME NEW S, NEW rules \in Seq(S), NEW nr \in S, \A r \in S : IsRule(r),
         OnceEach(rules)
  PROVE  OnceEach(MergeRule(rules, nr))
<1> DEFINE out == MergeRule(rules, nr)
<1>1. \A k \in 1 .. Len(rules) : TupleKey(out[k]) = TupleKey(rules[k])
  BY MergeKeepsPlaces
<1>2. CASE Same(rules, nr) = {} /\ out = Append(rules, nr)
  <2>1. Len(out) = Len(rules) + 1 /\ out[Len(rules) + 1] = nr
    BY <1>2
  <2>2. \A k \in 1 .. Len(rules) : TupleKey(out[k]) # TupleKey(nr)
    BY <1>1, <1>2 DEF Same
  <2>3. \A k \in 1 .. Len(out) : k \in 1 .. Len(rules) \/ k = Len(rules) + 1
    BY <2>1
  <2>4. \A i, l \in 1 .. Len(out) : TupleKey(out[i]) = TupleKey(out[l]) => i = l
    <3> HIDE DEF out
    <3> QED
      BY <1>1, <2>1, <2>2, <2>3 DEF OnceEach
  <2> QED
    BY <2>4 DEF OnceEach
<1>3. CASE Len(out) = Len(rules)
  BY <1>1, <1>3 DEF OnceEach
<1>4. Len(out) = Len(rules) \/ (Same(rules, nr) = {} /\ out = Append(rules, nr))
  BY Outcomes
<1> QED
  BY <1>2, <1>3, <1>4

\* The fields of a rule that decide which packets it matches, but for its
\* switch and its expiry.
Conditions == {"dir", "iif", "oif", "proto", "icmp", "src", "dst"}

\* Rules that lists are made of: they have every field that is looked at, and
\* what replaces one of them is one of them.
AreRules(S) ==
    /\ \A r \in S : IsRule(r) /\ Conditions \subseteq DOMAIN r
    /\ \A a, b \in S : Replaced(a, b) \in S

\* What a merge leaves of a list, when rules of some keys come in: each rule
\* is where it was, with its key, its switch and its expiry; of another key it
\* is as it was.
Stands(old, new, keys) ==
    \A k \in 1 .. Len(old) :
        /\ k \in 1 .. Len(new)
        /\ TupleKey(new[k]) = TupleKey(old[k])
        /\ new[k].disabled = old[k].disabled /\ new[k].expired = old[k].expired
        /\ TupleKey(old[k]) \notin keys => new[k] = old[k]

KeysOf(src) == {TupleKey(r) : r \in ToSet(src)}

\* They are rules in the sense of the theorems on merges.
LEMMA ListedAre == AreRules(Listed)
<1>1. ASSUME NEW r \in Listed
      PROVE  IsRule(r) /\ Conditions \subseteq DOMAIN r
  BY DEF Listed, IsRule, Conditions
<1>2. ASSUME NEW a \in Listed, NEW b \in Listed
      PROVE  Replaced(a, b) \in Listed
  <2>1. a.disabled \in BOOLEAN /\ a.expired \in BOOLEAN
    BY DEF Listed
  <2> DEFINE d == a.disabled  e == a.expired
  <2> HIDE DEF d, e
  <2>2. [b EXCEPT !.disabled = d, !.expired = e] \in Listed
    BY <2>1 DEF Listed, d, e
  <2> QED
    BY <2>2 DEF Replaced, d, e
<1> QED
  BY <1>1, <1>2 DEF AreRules

\* A list of rules that name few sets is one of rules.
LEMMA NamingAre == ASSUME NEW N PROVE AreRules(Naming(N))
<1>1. Naming(N) \subseteq Listed
  BY DEF Naming
<1>2. ASSUME NEW a \in Naming(N), NEW b \in Naming(N)
      PROVE  Replaced(a, b) \in Naming(N)
  <2>1. Replaced(a, b) \in Listed
    BY <1>1, ListedAre DEF AreRules
  <2> DEFINE d == a.disabled  e == a.expired
  <2>2. Replaced(a, b).src = b.src /\ Replaced(a, b).dst = b.dst
    <3> HIDE DEF d, e
    <3>1. b \in Listed
      BY <1>1
    <3>2. Replaced(a, b) = [b EXCEPT !.disabled = d, !.expired = e]
      BY DEF Replaced, d, e
    <3> QED
      BY <3>1, <3>2 DEF Listed
  <2> QED
    BY <2>1, <2>2 DEF Naming
<1> QED
  BY <1>1, <1>2, ListedAre DEF AreRules

\* A list that a rule has been merged into is one of rules.
LEMMA MergedType ==
  ASSUME NEW S, AreRules(S), NEW rules \in Seq(S), NEW nr \in S
  PROVE  MergeRule(rules, nr) \in Seq(S)
<1>1. CASE MergeRule(rules, nr) = Append(rules, nr)
  BY <1>1
<1>2. CASE MergeRule(rules, nr) = rules
  BY <1>2
<1>3. ASSUME NEW j \in Same(rules, nr), MergeRule(rules, nr) = [rules EXCEPT ![j] = Replaced(rules[j], nr)]
      PROVE  MergeRule(rules, nr) \in Seq(S)
  <2>1. j \in 1 .. Len(rules) /\ rules[j] \in S
    BY DEF Same
  <2>2. Replaced(rules[j], nr) \in S
    BY <2>1 DEF AreRules
  <2> QED
    BY <1>3, <2>1, <2>2
<1> QED
  BY <1>1, <1>2, <1>3, Outcomes

\* A merge goes along the rules that come in.
LEMMA FileTrace ==
  ASSUME NEW S, AreRules(S), NEW rules \in Seq(S), NEW src \in Seq(S)
  PROVE  \E t \in [0 .. Len(src) -> Seq(S)] :
            /\ t[0] = rules
            /\ \A i \in 1 .. Len(src) : t[i] = MergeRule(t[i - 1], src[i])
            /\ MergeRules(rules, src) = t[Len(src)]
<1> DEFINE n == Len(src)
           A == Seq(S)
           o == [p \in A \X (1 .. n) |-> MergeRule(p[1], src[p[2]])]
           R(h) == h = [x \in SUBSET DOMAIN src |->
                          IF x = {} THEN rules ELSE MergeRule(h[x \ {Max(x)}], src[Max(x)])]
           h == CHOOSE h : R(h)
<1>1. n \in Nat /\ DOMAIN src = 1 .. n /\ \A i \in 1 .. n : src[i] \in S
  OBVIOUS
<1>2. rules \in A
  OBVIOUS
<1>3. o \in [A \X (1 .. n) -> A]
  <2>1. \A a \in A, r \in S : MergeRule(a, r) \in A
    BY MergedType
  <2> HIDE DEF A
  <2> QED
    BY <1>1, <2>1
<1>7. MergeRules(rules, src) = h[DOMAIN src]
  BY DEF MergeRules, FoldLeft, MapThenFoldSet, Max
<1> HIDE DEF A
<1>4. PICK g \in [SUBSET (1 .. n) -> A] : Folds(g, rules, o, n)
  <2> HIDE DEF o, n
  <2> QED
    BY <1>1, <1>2, <1>3, FoldExists
<1>5. R(g)
  <2>1. ASSUME NEW x \in SUBSET (1 .. n), x # {}
        PROVE  g[x] = MergeRule(g[x \ {Max(x)}], src[Max(x)])
    <3>1. g[x] = o[<<g[x \ {Max(x)}], Max(x)>>]
      BY <1>4, <2>1 DEF Folds
    <3>2. Max(x) \in 1 .. n
      BY <1>1, <2>1, MaxIn
    <3>3. x \ {Max(x)} \in SUBSET (1 .. n)
      OBVIOUS
    <3>4. g[x \ {Max(x)}] \in A
      BY <3>3
    <3> QED
      BY <3>1, <3>2, <3>4
  <2>2. g[{}] = rules
    BY <1>4 DEF Folds
  <2>3. g = [x \in SUBSET (1 .. n) |-> g[x]]
    OBVIOUS
  <2> HIDE DEF o
  <2>4. \A x \in SUBSET (1 .. n) :
          g[x] = IF x = {} THEN rules ELSE MergeRule(g[x \ {Max(x)}], src[Max(x)])
    BY <2>1, <2>2
  <2> QED
    BY <1>1, <2>3, <2>4
<1>6. R(h)
  <2>1. \E f : R(f)
    BY <1>5
  <2> QED
    BY <2>1, Zenon
<1> HIDE DEF h
<1>8. \A x \in SUBSET (1 .. n) :
        h[x] = IF x = {} THEN rules ELSE MergeRule(h[x \ {Max(x)}], src[Max(x)])
  BY <1>1, <1>6
<1>9. h[{}] = rules
  BY <1>8
<1>10. Follows(h, o, A, n)
  <2> SUFFICES ASSUME NEW i \in 1 .. n, h[1 .. i - 1] \in A
               PROVE  h[1 .. i] = o[<<h[1 .. i - 1], i>>]
    BY DEF Follows
  <2>1. /\ 1 .. i \in SUBSET (1 .. n) /\ 1 .. i # {}
        /\ (1 .. i) \ {i} = 1 .. i - 1 /\ Max(1 .. i) = i
    BY <1>1, UpTo
  <2>3. h[1 .. i] = MergeRule(h[1 .. i - 1], src[i])
    BY <1>8, <2>1
  <2> QED
    BY <2>3
<1>11. Runs(h, rules, o, A, n)
  <2> HIDE DEF o, n
  <2> QED
    BY <1>1, <1>2, <1>3, <1>9, <1>10, FoldFollows
<1>12. PICK t \in [0 .. n -> A] :
         /\ t[0] = rules
         /\ \A i \in 1 .. n : t[i] = o[<<t[i - 1], i>>]
         /\ h[1 .. n] = t[n]
  BY <1>11 DEF Runs
<1>13. \A i \in 1 .. n : t[i] = MergeRule(t[i - 1], src[i])
  <2> TAKE i \in 1 .. n
  <2>1. i - 1 \in 0 .. n /\ t[i - 1] \in A
    BY <1>1
  <2> QED
    BY <1>12, <2>1
<1>14. MergeRules(rules, src) = t[n]
  BY <1>1, <1>7, <1>12
<1> HIDE DEF n, o
<1> QED
  BY <1>12, <1>13, <1>14 DEF n, A

\* One more rule of the file.
LEMMA StandsOn ==
  ASSUME NEW S, AreRules(S), NEW old \in Seq(S), NEW mid \in Seq(S), NEW nr \in S,
         NEW keys, TupleKey(nr) \in keys, Stands(old, mid, keys)
  PROVE  Stands(old, MergeRule(mid, nr), keys)
<1> DEFINE out == MergeRule(mid, nr)
<1>1. \A r \in S : IsRule(r)
  BY DEF AreRules
<1>2. \A k \in 1 .. Len(mid) :
        /\ k \in 1 .. Len(out)
        /\ TupleKey(out[k]) = TupleKey(mid[k])
        /\ out[k].disabled = mid[k].disabled /\ out[k].expired = mid[k].expired
        /\ TupleKey(mid[k]) # TupleKey(nr) => out[k] = mid[k]
  BY <1>1, MergeKeepsPlaces
<1> HIDE DEF out
<1>3. ASSUME NEW k \in 1 .. Len(old)
      PROVE  /\ k \in 1 .. Len(out)
             /\ TupleKey(out[k]) = TupleKey(old[k])
             /\ out[k].disabled = old[k].disabled /\ out[k].expired = old[k].expired
             /\ TupleKey(old[k]) \notin keys => out[k] = old[k]
  <2>1. /\ k \in 1 .. Len(mid) /\ TupleKey(mid[k]) = TupleKey(old[k])
        /\ mid[k].disabled = old[k].disabled /\ mid[k].expired = old[k].expired
        /\ TupleKey(old[k]) \notin keys => mid[k] = old[k]
    BY DEF Stands
  <2>2. /\ k \in 1 .. Len(out) /\ TupleKey(out[k]) = TupleKey(mid[k])
        /\ out[k].disabled = mid[k].disabled /\ out[k].expired = mid[k].expired
        /\ TupleKey(mid[k]) # TupleKey(nr) => out[k] = mid[k]
    BY <1>2, <2>1
  <2>3. ASSUME TupleKey(old[k]) \notin keys
        PROVE  out[k] = old[k]
    BY <2>1, <2>2, <2>3
  <2> QED
    BY <2>1, <2>2, <2>3
<1> QED
  BY <1>3 DEF Stands, out

(* A whole file that is merged leaves every stored rule where it is, with  *)
(* its key, its switch and its expiry, those of keys that the file does    *)
(* not have as they are, and makes no copies (mergeRules).                 *)
THEOREM FileKeepsPlaces ==
  ASSUME NEW S, AreRules(S), NEW rules \in Seq(S), NEW src \in Seq(S)
  PROVE  /\ MergeRules(rules, src) \in Seq(S)
         /\ Stands(rules, MergeRules(rules, src), KeysOf(src))
         /\ OnceEach(rules) => OnceEach(MergeRules(rules, src))
<1> DEFINE n == Len(src)
<1>1. PICK t \in [0 .. n -> Seq(S)] :
        /\ t[0] = rules
        /\ \A i \in 1 .. n : t[i] = MergeRule(t[i - 1], src[i])
        /\ MergeRules(rules, src) = t[n]
  BY FileTrace
<1>2. n \in Nat /\ \A i \in 1 .. n : src[i] \in S /\ TupleKey(src[i]) \in KeysOf(src)
  BY DEF KeysOf, ToSet
<1>3. \A r \in S : IsRule(r)
  BY DEF AreRules
<1> DEFINE Fine(i) == /\ Stands(rules, t[i], KeysOf(src))
                      /\ OnceEach(rules) => OnceEach(t[i])
           T == {i \in 0 .. n : ~Fine(i)}
<1>4. Fine(0)
  BY <1>1 DEF Stands
<1>5. ASSUME NEW i \in 1 .. n, Fine(i - 1)
      PROVE  Fine(i)
  <2> HIDE DEF n
  <2> DEFINE a == t[i - 1]  r == src[i]
  <2>1. a \in Seq(S) /\ t[i] = MergeRule(a, r) /\ r \in S /\ TupleKey(r) \in KeysOf(src)
    <3>1. i - 1 \in 0 .. n
      BY <1>2
    <3> QED
      BY <1>1, <1>2, <3>1
  <2>2. Stands(rules, a, KeysOf(src)) /\ (OnceEach(rules) => OnceEach(a))
    BY <1>5
  <2> HIDE DEF a, r
  <2>3. Stands(rules, MergeRule(a, r), KeysOf(src))
    BY <2>1, <2>2, StandsOn
  <2>4. OnceEach(a) => OnceEach(MergeRule(a, r))
    BY <1>3, <2>1, MergeMakesNoCopies
  <2> QED
    BY <2>1, <2>2, <2>3, <2>4
<1> HIDE DEF Fine, n
<1>6. T = {}
  <2> SUFFICES ASSUME T # {} PROVE FALSE
    OBVIOUS
  <2>1. T \in SUBSET Nat
    BY <1>2
  <2>2. PICK i \in T : \A k \in T : i <= k
    <3> HIDE DEF T
    <3> QED
      BY <2>1, Smallest
  <2>3. i \in 0 .. n /\ ~Fine(i) /\ i # 0
    BY <1>4, <2>2
  <2>4. i \in 1 .. n /\ i - 1 \in 0 .. n /\ ~(i <= i - 1)
    BY <1>2, <2>3
  <2> QED
    BY <1>5, <2>2, <2>3, <2>4
<1>7. n \in 0 .. n
  BY <1>2
<1>8. Fine(n) /\ t[n] \in Seq(S)
  BY <1>1, <1>6, <1>7
<1> QED
  BY <1>1, <1>8 DEF Fine

\* Rules of one key have the same conditions.
LEMMA KeyConditions ==
  ASSUME NEW a, NEW b, IsRule(a), IsRule(b), Conditions \subseteq DOMAIN a,
         Conditions \subseteq DOMAIN b, TupleKey(a) = TupleKey(b)
  PROVE  /\ a.dir = b.dir /\ a.iif = b.iif /\ a.oif = b.oif /\ a.proto = b.proto
         /\ a.icmp = b.icmp /\ a.src = b.src /\ a.dst = b.dst
<1>1. ASSUME NEW r, NEW f \in Conditions, IsRule(r), Conditions \subseteq DOMAIN r
      PROVE  TupleKey(r)[f] = r[f]
  <2>1. ASSUME NEW e, NEW x \in DOMAIN r, x \notin {"action", "log", "comment", "disabled", "expired"}
        PROVE  [r EXCEPT !.action = e, !.log = e, !.comment = e, !.disabled = FALSE, !.expired = FALSE][x] = r[x]
    BY <2>1, <1>1 DEF IsRule
  <2>2. f \in DOMAIN r /\ f \notin {"action", "log", "comment", "disabled", "expired"}
    BY <1>1 DEF Conditions
  <2> QED
    BY <2>1, <2>2, Zenon DEF TupleKey
<1>2. \A f \in Conditions : a[f] = b[f]
  BY <1>1
<1> QED
  BY <1>2 DEF Conditions

\* And match the same packets, with the same sets, switch and expiry.
LEMMA KeyMatches ==
  ASSUME NEW a, NEW b, IsRule(a), IsRule(b), Conditions \subseteq DOMAIN a,
         Conditions \subseteq DOMAIN b, TupleKey(a) = TupleKey(b),
         a.disabled = b.disabled, a.expired = b.expired,
         NEW s, NEW u, a.src.set # NoSet => s.sets[a.src.set] = u.sets[a.src.set],
         a.dst.set # NoSet => s.sets[a.dst.set] = u.sets[a.dst.set], NEW v6, NEW p
  PROVE  Matches(s, a, v6, p) <=> Matches(u, b, v6, p)
<1>1. /\ a.dir = b.dir /\ a.iif = b.iif /\ a.oif = b.oif /\ a.proto = b.proto
      /\ a.icmp = b.icmp /\ a.src = b.src /\ a.dst = b.dst
  BY KeyConditions
<1>2. ASSUME NEW e, e.set # NoSet => s.sets[e.set] = u.sets[e.set], NEW x
      PROVE  InEndpoint(s, e, x, v6) <=> InEndpoint(u, e, x, v6)
  BY <1>2, Zenon DEF InEndpoint
<1>3. /\ InEndpoint(s, a.src, p.src, v6) <=> InEndpoint(u, b.src, p.src, v6)
      /\ InEndpoint(s, a.dst, p.dst, v6) <=> InEndpoint(u, b.dst, p.dst, v6)
  BY <1>1, <1>2
<1> QED
  BY <1>1, <1>3, Zenon DEF Matches

\* FirstMatch is the least place of a rule that matches.
LEMMA FirstIs ==
  ASSUME NEW S, NEW s, NEW p, RulesFor(s, p) \in Seq(S)
  PROVE  LET l == RulesFor(s, p)
             I == {i \in 1 .. Len(l) : Matches(s, l[i], p.v6, p)} IN
         /\ FirstMatch(s, p) # 0 => FirstMatch(s, p) \in I /\ \A k \in I : FirstMatch(s, p) <= k
         /\ \A i \in I : (\A k \in I : i <= k) => FirstMatch(s, p) = i
<1> DEFINE l == RulesFor(s, p)
           I == {i \in 1 .. Len(l) : Matches(s, l[i], p.v6, p)}
<1>1. FirstMatch(s, p) = IF I # {} THEN Min(I) ELSE 0
  BY DEF FirstMatch, SelectInSeq
<1>2. I \in SUBSET Nat
  OBVIOUS
<1> HIDE DEF I
<1>3. I # {} => \E m \in I : \A k \in I : m <= k
  BY <1>2, Smallest
<1>4. I # {} => Min(I) \in I /\ \A k \in I : Min(I) <= k
  BY <1>3 DEF Min
<1>5. \A i \in I : (\A k \in I : i <= k) => Min(I) = i
  <2> SUFFICES ASSUME NEW i \in I, \A k \in I : i <= k PROVE Min(I) = i
    OBVIOUS
  <2>1. Min(I) \in I /\ Min(I) <= i /\ i <= Min(I)
    BY <1>4
  <2>2. Min(I) \in Nat /\ i \in Nat
    BY <1>2, <2>1
  <2> QED
    BY <2>1, <2>2
<1>6. /\ FirstMatch(s, p) # 0 => FirstMatch(s, p) \in I /\ \A k \in I : FirstMatch(s, p) <= k
      /\ \A i \in I : (\A k \in I : i <= k) => FirstMatch(s, p) = i
  BY <1>1, <1>4, <1>5
<1> QED
  BY <1>6 DEF I

\* Where the rules of a list stand in another one, the first that matches a
\* packet is the first still.  The states need only agree on the sets that the
\* rules name; policies come after the rules.
LEMMA StandsFirst ==
  ASSUME NEW N, NEW M, NEW keys, NEW s, NEW u, NEW p,
         RulesFor(s, p) \in Seq(Naming(N)), RulesFor(u, p) \in Seq(Naming(M)),
         \A n \in N : s.sets[n] = u.sets[n],
         Stands(RulesFor(s, p), RulesFor(u, p), keys),
         FirstMatch(s, p) # 0
  PROVE  /\ FirstMatch(u, p) = FirstMatch(s, p)
         /\ FirstMatch(s, p) \in 1 .. Len(RulesFor(s, p))
         /\ TupleKey(RulesFor(s, p)[FirstMatch(s, p)]) \notin keys =>
              RulesFor(u, p)[FirstMatch(u, p)] = RulesFor(s, p)[FirstMatch(s, p)]
<1> DEFINE old == RulesFor(s, p)
           new == RulesFor(u, p)
           m == FirstMatch(s, p)
           I == {i \in 1 .. Len(old) : Matches(s, old[i], p.v6, p)}
           J == {i \in 1 .. Len(new) : Matches(u, new[i], p.v6, p)}
<1>1. old \in Seq(Naming(N)) /\ new \in Seq(Naming(M)) /\ Stands(old, new, keys)
  OBVIOUS
<1>2. m \in I /\ \A k \in I : m <= k
  BY <1>1, FirstIs
<1>3. \A i \in J : (\A k \in J : i <= k) => FirstMatch(u, p) = i
  BY <1>1, FirstIs
<1> HIDE DEF old, new, m
<1>4. ASSUME NEW k \in 1 .. Len(old)
      PROVE  k \in 1 .. Len(new) /\ (k \in I <=> k \in J)
  <2>1. /\ k \in 1 .. Len(new) /\ TupleKey(new[k]) = TupleKey(old[k])
        /\ new[k].disabled = old[k].disabled /\ new[k].expired = old[k].expired
    BY <1>1 DEF Stands
  <2>2. old[k] \in Naming(N) /\ new[k] \in Naming(M)
    BY <1>1, <2>1
  <2> DEFINE a == old[k]  b == new[k]
  <2> HIDE DEF a, b
  <2>3. /\ IsRule(a) /\ IsRule(b) /\ Conditions \subseteq DOMAIN a /\ Conditions \subseteq DOMAIN b
        /\ TupleKey(a) = TupleKey(b) /\ a.disabled = b.disabled /\ a.expired = b.expired
    BY <2>1, <2>2, NamingAre DEF AreRules, a, b
  <2>5. /\ a.src.set # NoSet => s.sets[a.src.set] = u.sets[a.src.set]
        /\ a.dst.set # NoSet => s.sets[a.dst.set] = u.sets[a.dst.set]
    BY <2>2 DEF Naming, a
  <2>4. Matches(s, a, p.v6, p) <=> Matches(u, b, p.v6, p)
    BY <2>3, <2>5, KeyMatches
  <2> QED
    BY <2>1, <2>4 DEF a, b
<1>5. m \in J /\ \A k \in J : m <= k
  <2>1. Len(old) \in Nat /\ Len(new) \in Nat /\ m \in 1 .. Len(old)
    BY <1>1, <1>2
  <2>2. m \in J
    BY <1>2, <1>4, <2>1
  <2>3. ASSUME NEW k \in J
        PROVE  m <= k
    <3>1. k \in 1 .. Len(new)
      OBVIOUS
    <3>2. CASE k <= Len(old)
      <4>1. k \in 1 .. Len(old)
        BY <2>1, <3>1, <3>2
      <4> QED
        BY <1>2, <1>4, <4>1
    <3>3. CASE ~(k <= Len(old))
      BY <2>1, <3>1, <3>3
    <3> QED
      BY <3>2, <3>3
  <2> QED
    BY <2>2, <2>3
<1> HIDE DEF J
<1>8. m \in 1 .. Len(old)
  BY <1>2
<1>6. FirstMatch(u, p) = m
  BY <1>3, <1>5
<1>7. TupleKey(old[m]) \notin keys => new[m] = old[m]
  <2>1. m \in 1 .. Len(old)
    BY <1>2
  <2> QED
    BY <1>1, <2>1 DEF Stands
<1> QED
  BY <1>6, <1>7, <1>8 DEF old, new, m

(* What a file brings goes before no rule that decides: the first rule of  *)
(* a list that matches a packet is the first still, and is as it was when  *)
(* the file has none of its key (mergeRules).  The states need only agree  *)
(* on the sets that are named; policies, which an import may change, come  *)
(* after the rules.                                                        *)
THEOREM FirstStaysFirst ==
  ASSUME NEW N, NEW s, NEW u, NEW p, RulesFor(s, p) \in Seq(Naming(N)), NEW src \in Seq(Naming(N)),
         \A n \in N : s.sets[n] = u.sets[n], RulesFor(u, p) = MergeRules(RulesFor(s, p), src),
         FirstMatch(s, p) # 0
  PROVE  /\ FirstMatch(u, p) = FirstMatch(s, p)
         /\ TupleKey(RulesFor(s, p)[FirstMatch(s, p)]) \notin KeysOf(src) =>
              RulesFor(u, p)[FirstMatch(u, p)] = RulesFor(s, p)[FirstMatch(s, p)]
<1>1. /\ RulesFor(u, p) \in Seq(Naming(N))
      /\ Stands(RulesFor(s, p), RulesFor(u, p), KeysOf(src))
  BY FileKeepsPlaces, NamingAre
<1> QED
  BY <1>1, StandsFirst

-----------------------------------------------------------------------------
(* What importers make: rules of the lists' kind.                          *)

\* A rule without conditions, field by field.
LEMMA PlainIs ==
  ASSUME NEW a \in Texts, NEW d \in Directions
  PROVE  /\ PlainRule(a, d) \in Naming({})
         /\ PlainRule(a, d) =
              [action |-> a, dir |-> d, iif |-> AnyIface, oif |-> AnyIface, proto |-> "any",
               icmp |-> AnyType, src |-> Endpoint(NoNet, {}, "any"), dst |-> Endpoint(NoNet, {}, "any"),
               log |-> None, dapp |-> None, sapp |-> None, comment |-> None,
               disabled |-> FALSE, expired |-> FALSE]
<1>1. PlainRule(a, d) =
              [action |-> a, dir |-> d, iif |-> AnyIface, oif |-> AnyIface, proto |-> "any",
               icmp |-> AnyType, src |-> Endpoint(NoNet, {}, "any"), dst |-> Endpoint(NoNet, {}, "any"),
               log |-> None, dapp |-> None, sapp |-> None, comment |-> None,
               disabled |-> FALSE, expired |-> FALSE]
  BY DEF PlainRule
<1>2. AnyIface \in Texts /\ NoSet \in Texts /\ "any" \in Texts /\ None \in Texts
  BY TextsAssumption
<1>3. Endpoint(NoNet, {}, "any") \in Ends /\ Endpoint(NoNet, {}, "any").set = NoSet
  BY <1>2 DEF Endpoint, Ends
<1>4. AnyType \in Int
  BY DEF AnyType
<1> QED
  BY <1>1, <1>2, <1>3, <1>4 DEF Naming, Listed

-----------------------------------------------------------------------------
(* Reading dumps.                                                          *)

\* What the lines of a dump have been read into.
Tables == [ok : BOOLEAN, order : Seq(ChainNames), policy : [ChainNames -> Texts],
           rules : [ChainNames -> Seq(Specs)]]

\* Inserting into a sequence gives one.
LEMMA InsertType ==
  ASSUME NEW S, NEW s \in Seq(S), NEW e \in S, NEW pos \in 1 .. Len(s) + 1
  PROVE  InsertAt(s, pos, e) \in Seq(S)
<1>1. SubSeq(s, 1, pos - 1) \in Seq(S) /\ SubSeq(s, pos, Len(s)) \in Seq(S) /\ <<e>> \in Seq(S)
  OBVIOUS
<1> QED
  BY <1>1, ConcatProperties DEF InsertAt

LEMMA NoTableType == NoTable \in Tables
BY TextsAssumption DEF NoTable, Tables

\* One more line.
LEMMA ParseLineType ==
  ASSUME NEW t \in Tables, NEW line \in Lines
  PROVE  ParseLine(t, line) \in Tables
<1> DEFINE c == line.chain
           order == IF c \in ToSet(t.order) THEN t.order ELSE Append(t.order, c)
           known == [t EXCEPT !.order = order]
           rules == t.rules[c]
           pos == IF line.op = "A" THEN Len(rules) + 1 ELSE line.pos
           policy == [t.policy EXCEPT ![c] = line.policy]
           inserted == [t.rules EXCEPT ![c] = InsertAt(rules, pos, line.spec)]
<1>1. /\ c \in ChainNames /\ line.pos \in Nat /\ line.spec \in Specs /\ line.policy \in Texts
      /\ rules \in Seq(Specs) /\ t.order \in Seq(ChainNames) /\ t.ok \in BOOLEAN
      /\ t.policy \in [ChainNames -> Texts] /\ t.rules \in [ChainNames -> Seq(Specs)]
      /\ t = [ok |-> t.ok, order |-> t.order, policy |-> t.policy, rules |-> t.rules]
  BY DEF Lines, Tables
<1>2. order \in Seq(ChainNames)
  BY <1>1
<1>3. policy \in [ChainNames -> Texts]
  BY <1>1
<1>4. ASSUME pos \in 1 .. Len(rules) + 1
      PROVE  inserted \in [ChainNames -> Seq(Specs)]
  <2>1. InsertAt(rules, pos, line.spec) \in Seq(Specs)
    BY <1>1, <1>4, InsertType
  <2> QED
    BY <1>1, <2>1
<1>5. ParseLine(t, line) =
        IF line.op = ":"
        THEN [t EXCEPT !.order = order, !.ok = @ /\ t.policy[c] = None, !.policy = policy]
        ELSE IF pos \in 1 .. Len(rules) + 1
        THEN [t EXCEPT !.order = order, !.rules = inserted]
        ELSE [t EXCEPT !.order = order, !.ok = FALSE]
  BY <1>1 DEF ParseLine
<1> HIDE DEF order, policy, inserted, pos, rules, known
<1> QED
  BY <1>1, <1>2, <1>3, <1>4, <1>5 DEF Tables

\* Lines are read one by one.
LEMMA ParseTrace ==
  ASSUME NEW lines \in Seq(Lines)
  PROVE  \E t \in [0 .. Len(lines) -> Tables] :
            /\ t[0] = NoTable
            /\ \A i \in 1 .. Len(lines) : t[i] = ParseLine(t[i - 1], lines[i])
            /\ FoldLeft(ParseLine, NoTable, lines) = t[Len(lines)]
<1> DEFINE n == Len(lines)
           A == Tables
           first == NoTable
           o == [p \in A \X (1 .. n) |-> ParseLine(p[1], lines[p[2]])]
           R(h) == h = [x \in SUBSET DOMAIN lines |->
                          IF x = {} THEN NoTable ELSE ParseLine(h[x \ {Max(x)}], lines[Max(x)])]
           h == CHOOSE h : R(h)
<1>1. n \in Nat /\ DOMAIN lines = 1 .. n /\ \A i \in 1 .. n : lines[i] \in Lines
  OBVIOUS
<1>2. first \in A
  BY NoTableType, ParseLineType
<1>20. \A a \in A, r \in Lines : ParseLine(a, r) \in A
  BY NoTableType, ParseLineType
<1>7. FoldLeft(ParseLine, NoTable, lines) = h[DOMAIN lines]
  BY DEF FoldLeft, MapThenFoldSet, Max
<1> HIDE DEF A
<1>3. o \in [A \X (1 .. n) -> A]
  <2>1. DOMAIN o = A \X (1 .. n)
    OBVIOUS
  <2>2. ASSUME NEW p \in A \X (1 .. n) PROVE o[p] \in A
    <3>1. p[1] \in A /\ lines[p[2]] \in Lines
      BY <1>1
    <3>2. ParseLine(p[1], lines[p[2]]) \in A
      <4> DEFINE a == p[1]  r == lines[p[2]]
      <4> HIDE DEF a, r, n
      <4>1. ParseLine(a, r) \in A
        BY <1>20, <3>1 DEF a, r
      <4> QED
        BY <4>1 DEF a, r
    <3>3. o[p] = ParseLine(p[1], lines[p[2]])
      BY Zenon
    <3> HIDE DEF o
    <3> QED
      BY <3>2, <3>3
  <2>3. o = [p \in A \X (1 .. n) |-> o[p]]
    BY <2>1
  <2> HIDE DEF o, n
  <2> QED
    BY <2>2, <2>3
<1> HIDE DEF first
<1>4. PICK g \in [SUBSET (1 .. n) -> A] : Folds(g, first, o, n)
  <2> HIDE DEF o, n
  <2> QED
    BY <1>1, <1>2, <1>3, FoldExists
<1>5. R(g)
  <2>1. ASSUME NEW x \in SUBSET (1 .. n), x # {}
        PROVE  g[x] = ParseLine(g[x \ {Max(x)}], lines[Max(x)])
    <3>1. g[x] = o[<<g[x \ {Max(x)}], Max(x)>>]
      <4> HIDE DEF o, n
      <4> QED
        BY <1>4, <2>1 DEF Folds
    <3>2. Max(x) \in 1 .. n
      BY <1>1, <2>1, MaxIn
    <3>3. g[x \ {Max(x)}] \in A
      <4> HIDE DEF o, n
      <4> QED
        OBVIOUS
    <3> DEFINE y == g[x \ {Max(x)}]  m == Max(x)
    <3>4. <<y, m>> \in A \X (1 .. n) /\ <<y, m>>[1] = y /\ <<y, m>>[2] = m
      <4> HIDE DEF y, m, n
      <4>1. y \in A /\ m \in 1 .. n
        BY <3>2, <3>3 DEF y, m
      <4> QED
        BY <4>1
    <3>5. o[<<y, m>>] = ParseLine(y, lines[m])
      <4> HIDE DEF y, m, n
      <4>1. o[<<y, m>>] = ParseLine(<<y, m>>[1], lines[<<y, m>>[2]])
        BY <3>4, Zenon
      <4> HIDE DEF o
      <4> QED
        BY <3>4, <4>1, Zenon
    <3> HIDE DEF o
    <3> QED
      BY <3>1, <3>5
  <2>2. g[{}] = NoTable
    BY <1>4 DEF Folds, first
  <2>3. g = [x \in SUBSET (1 .. n) |-> g[x]]
    OBVIOUS
  <2> HIDE DEF o
  <2>4. \A x \in SUBSET (1 .. n) :
          g[x] = IF x = {} THEN NoTable ELSE ParseLine(g[x \ {Max(x)}], lines[Max(x)])
    BY <2>1, <2>2, Zenon
  <2> HIDE DEF n
  <2> QED
    BY <1>1, <2>3, <2>4, Zenon
<1>6. R(h)
  <2>1. \E f : R(f)
    BY <1>5, Zenon
  <2> QED
    BY <2>1, Zenon
<1> HIDE DEF h
<1>8. \A x \in SUBSET (1 .. n) :
        h[x] = IF x = {} THEN NoTable ELSE ParseLine(h[x \ {Max(x)}], lines[Max(x)])
  <2>1. DOMAIN lines = 1 .. n
    BY <1>1
  <2>2. \A x \in SUBSET DOMAIN lines :
        h[x] = IF x = {} THEN NoTable ELSE ParseLine(h[x \ {Max(x)}], lines[Max(x)])
    <3> HIDE DEF n, o
    <3> QED
      BY <1>6, Zenon
  <2> QED
    BY <2>1, <2>2, Zenon
<1>9. h[{}] = first
  BY <1>8, Zenon DEF first
<1>10. Follows(h, o, A, n)
  <2> SUFFICES ASSUME NEW i \in 1 .. n, h[1 .. i - 1] \in A
               PROVE  h[1 .. i] = o[<<h[1 .. i - 1], i>>]
    <3> HIDE DEF o, n
    <3> QED
      BY DEF Follows
  <2>1. /\ 1 .. i \in SUBSET (1 .. n) /\ 1 .. i # {}
        /\ (1 .. i) \ {i} = 1 .. i - 1 /\ Max(1 .. i) = i
    <3> HIDE DEF o, n
    <3> QED
      BY <1>1, UpTo
  <2>2. h[1 .. i] = ParseLine(h[(1 .. i) \ {Max(1 .. i)}], lines[Max(1 .. i)])
    <3> HIDE DEF o, n
    <3> QED
      BY <1>8, <2>1, Zenon
  <2> DEFINE y == h[1 .. i - 1]
  <2>3. h[1 .. i] = ParseLine(y, lines[i])
    <3> HIDE DEF o, n
    <3>1. (1 .. i) \ {Max(1 .. i)} = 1 .. i - 1
      BY <2>1
    <3> QED
      BY <2>1, <2>2, <3>1, Zenon
  <2>4. <<y, i>> \in A \X (1 .. n) /\ <<y, i>>[1] = y /\ <<y, i>>[2] = i
    <3> HIDE DEF y, n, o
    <3>1. y \in A
      BY DEF y
    <3> QED
      BY <3>1
  <2>5. o[<<y, i>>] = ParseLine(y, lines[i])
    <3> HIDE DEF y, n
    <3>1. o[<<y, i>>] = ParseLine(<<y, i>>[1], lines[<<y, i>>[2]])
      BY <2>4, Zenon
    <3> HIDE DEF o
    <3> QED
      BY <2>4, <3>1, Zenon
  <2> HIDE DEF o
  <2> QED
    BY <2>3, <2>5
<1>11. Runs(h, first, o, A, n)
  <2> HIDE DEF o, n
  <2> QED
    BY <1>1, <1>2, <1>3, <1>9, <1>10, FoldFollows
<1>12. PICK t \in [0 .. n -> A] :
         /\ t[0] = first
         /\ \A i \in 1 .. n : t[i] = o[<<t[i - 1], i>>]
         /\ h[1 .. n] = t[n]
  <2> HIDE DEF o, n
  <2> QED
    BY <1>11 DEF Runs
<1>13. ASSUME NEW i \in 1 .. n
       PROVE  t[i] = ParseLine(t[i - 1], lines[i])
  <2> DEFINE y == t[i - 1]
  <2>1. y \in A
    <3> HIDE DEF n, o
    <3> QED
      BY <1>1
  <2>2. <<y, i>> \in A \X (1 .. n) /\ <<y, i>>[1] = y /\ <<y, i>>[2] = i
    <3> HIDE DEF y, n, o
    <3> QED
      BY <2>1
  <2>3. o[<<y, i>>] = ParseLine(y, lines[i])
    <3> HIDE DEF y, n
    <3>1. o[<<y, i>>] = ParseLine(<<y, i>>[1], lines[<<y, i>>[2]])
      BY <2>2, Zenon
    <3> HIDE DEF o
    <3> QED
      BY <2>2, <3>1, Zenon
  <2> HIDE DEF o
  <2> QED
    BY <1>12, <2>3
<1>14. FoldLeft(ParseLine, NoTable, lines) = t[n]
  <2> HIDE DEF n, o
  <2> QED
    BY <1>1, <1>7, <1>12
<1> HIDE DEF n, o
<1>15. t[0] = NoTable
  BY <1>12 DEF first
<1>16. \A i \in 1 .. n : t[i] = ParseLine(t[i - 1], lines[i])
  BY <1>13
<1> QED
  BY <1>14, <1>15, <1>16 DEF n, A

LEMMA ParsedType ==
  ASSUME NEW dump \in Dumps
  PROVE  ParseSave(dump) \in Tables
<1> DEFINE lines == dump.filter
<1>1. lines \in Seq(Lines)
  BY DEF Dumps
<1>2. Len(lines) \in 0 .. Len(lines)
  BY <1>1
<1> HIDE DEF lines
<1>3. FoldLeft(ParseLine, NoTable, lines) \in Tables
  BY <1>1, <1>2, ParseTrace
<1> QED
  BY <1>3 DEF ParseSave, lines

\* What has been made of a chain.
Heads == [ok : BOOLEAN, over : BOOLEAN, rules : Seq(Naming({}))]
NoHead == [ok |-> TRUE, over |-> FALSE, rules |-> <<>>]

\* Outcomes that are rules come of options that rules have room for.
LEMMA RuleOutcome ==
  ASSUME NEW spec, NEW v6, NEW first, Outcome(spec, v6, first) = "rule"
  PROVE  /\ Supported(spec, v6) /\ spec.ct = None /\ RejectFits(spec)
         /\ spec.target \in {"ACCEPT", "DROP", "REJECT"}
<1>1. Supported(spec, v6)
  BY DEF Outcome
<1>2. spec.ct = None
  BY <1>1 DEF Outcome
<1>3. /\ RejectFits(spec) /\ spec.target # None /\ spec.target # "RETURN"
  BY <1>1, <1>2 DEF Outcome
<1>4. spec.target \in {None, "ACCEPT", "DROP", "REJECT", "RETURN"}
  BY <1>1 DEF Supported, OptionsFit
<1> QED
  BY <1>1, <1>2, <1>3, <1>4

\* The rule that is made of one, field by field.
LEMMA RuleFromIs ==
  ASSUME NEW spec \in Specs, spec.target \in {"ACCEPT", "DROP", "REJECT"}, NEW dir \in Directions
  PROVE  /\ RuleFrom(spec, dir) \in Naming({})
         /\ RuleFrom(spec, dir) =
              [action |-> Verdicts4[spec.target], dir |-> dir, iif |-> Iface(spec.iif),
               oif |-> Iface(spec.oif), proto |-> ProtoOf(spec), icmp |-> spec.icmp,
               src |-> Endpoint(spec.src, spec.sports, ProtoOf(spec)),
               dst |-> Endpoint(spec.dst, spec.dports, ProtoOf(spec)),
               log |-> None, dapp |-> None, sapp |-> None, comment |-> None,
               disabled |-> FALSE, expired |-> FALSE]
<1>0. Verdicts4[spec.target] \in {"allow", "deny", "reject"}
  BY DEF Verdicts4
<1>1. Verdicts4[spec.target] \in Texts /\ "any" \in Texts /\ AnyIface \in Texts /\ NoSet \in Texts /\ None \in Texts
  BY <1>0, TextsAssumption
<1>2. /\ spec.p \in Texts /\ spec.iif \in Texts /\ spec.oif \in Texts /\ spec.icmp \in Int
      /\ spec.src \in Nets \cup {NoNet} /\ spec.dst \in Nets \cup {NoNet}
      /\ spec.sports \subseteq [lo : Nat, hi : Nat] /\ spec.dports \subseteq [lo : Nat, hi : Nat]
  BY DEF Specs
<1>3. ProtoOf(spec) \in Texts /\ Iface(spec.iif) \in Texts /\ Iface(spec.oif) \in Texts
  BY <1>1, <1>2 DEF ProtoOf, Iface
<1>4. ASSUME NEW net \in Nets \cup {NoNet}, NEW ports \in SUBSET [lo : Nat, hi : Nat], NEW proto \in Texts
      PROVE  Endpoint(net, ports, proto) \in Ends /\ Endpoint(net, ports, proto).set = NoSet
  <2>1. {[lo |-> q.lo, hi |-> q.hi, proto |-> proto] : q \in ports} \subseteq PortRanges
    BY DEF PortRanges
  <2> QED
    BY <1>1, <2>1 DEF Endpoint, Ends
<1>5. /\ Endpoint(spec.src, spec.sports, ProtoOf(spec)) \in Ends
      /\ Endpoint(spec.dst, spec.dports, ProtoOf(spec)) \in Ends
      /\ Endpoint(spec.src, spec.sports, ProtoOf(spec)).set = NoSet
      /\ Endpoint(spec.dst, spec.dports, ProtoOf(spec)).set = NoSet
  BY <1>2, <1>3, <1>4
<1>6. RuleFrom(spec, dir) =
              [action |-> Verdicts4[spec.target], dir |-> dir, iif |-> Iface(spec.iif),
               oif |-> Iface(spec.oif), proto |-> ProtoOf(spec), icmp |-> spec.icmp,
               src |-> Endpoint(spec.src, spec.sports, ProtoOf(spec)),
               dst |-> Endpoint(spec.dst, spec.dports, ProtoOf(spec)),
               log |-> None, dapp |-> None, sapp |-> None, comment |-> None,
               disabled |-> FALSE, expired |-> FALSE]
  <2> DEFINE a == Verdicts4[spec.target]  i == Iface(spec.iif)  o == Iface(spec.oif)  p == ProtoOf(spec)
             s == Endpoint(spec.src, spec.sports, p)  d == Endpoint(spec.dst, spec.dports, p)
             any == Endpoint(NoNet, {}, "any")  all == "any"  c == spec.icmp
  <2>1. RuleFrom(spec, dir) =
          [[action |-> a, dir |-> dir, iif |-> AnyIface, oif |-> AnyIface, proto |-> all,
            icmp |-> AnyType, src |-> any, dst |-> any,
            log |-> None, dapp |-> None, sapp |-> None, comment |-> None,
            disabled |-> FALSE, expired |-> FALSE]
           EXCEPT !.iif = i, !.oif = o, !.proto = p, !.icmp = c, !.src = s, !.dst = d]
    BY Zenon DEF RuleFrom, PlainRule
  <2> HIDE DEF a, i, o, p, s, d, any, all, c
  <2>2. RuleFrom(spec, dir) =
          [action |-> a, dir |-> dir, iif |-> i, oif |-> o, proto |-> p, icmp |-> c, src |-> s, dst |-> d,
           log |-> None, dapp |-> None, sapp |-> None, comment |-> None,
           disabled |-> FALSE, expired |-> FALSE]
    BY <2>1
  <2> QED
    BY <2>2 DEF a, i, o, p, s, d, c
<1> QED
  BY <1>1, <1>2, <1>3, <1>5, <1>6 DEF Naming, Listed

LEMMA NoHeadType == NoHead \in Heads
BY DEF NoHead, Heads

LEMMA NextRuleType ==
  ASSUME NEW acc \in Heads, NEW spec \in Specs, NEW dir \in Directions, NEW v6
  PROVE  NextRule(acc, spec, dir, v6) \in Heads
<1> DEFINE outcome == Outcome(spec, v6, acc.rules = <<>>)
<1>1. acc.ok \in BOOLEAN /\ acc.over \in BOOLEAN /\ acc.rules \in Seq(Naming({}))
  BY DEF Heads
<1>2. outcome = "rule" => RuleFrom(spec, dir) \in Naming({})
  BY RuleOutcome, RuleFromIs
<1>3. NextRule(acc, spec, dir, v6) =
        IF acc.over THEN acc
        ELSE [ok    |-> acc.ok /\ outcome # "error",
              over  |-> outcome = "return",
              rules |-> IF outcome = "rule" THEN Append(acc.rules, RuleFrom(spec, dir)) ELSE acc.rules]
  BY DEF NextRule
<1> HIDE DEF outcome
<1>4. ASSUME ~acc.over
      PROVE  NextRule(acc, spec, dir, v6) \in Heads
  <2>1. (IF outcome = "rule" THEN Append(acc.rules, RuleFrom(spec, dir)) ELSE acc.rules) \in Seq(Naming({}))
    BY <1>1, <1>2
  <2> QED
    BY <1>1, <1>3, <1>4, <2>1 DEF Heads
<1> QED
  BY <1>3, <1>4

\* A chain is gone through rule by rule.
LEMMA ChainTrace ==
  ASSUME NEW specs \in Seq(Specs), NEW dir \in Directions, NEW v6
  PROVE  \E t \in [0 .. Len(specs) -> Heads] :
            /\ t[0] = NoHead
            /\ \A i \in 1 .. Len(specs) : t[i] = NextRule(t[i - 1], specs[i], dir, v6)
            /\ ChainRules(specs, dir, v6) = t[Len(specs)]
<1> DEFINE n == Len(specs)
           A == Heads
           first == NoHead
           o == [p \in A \X (1 .. n) |-> NextRule(p[1], specs[p[2]], dir, v6)]
           R(h) == h = [x \in SUBSET DOMAIN specs |->
                          IF x = {} THEN NoHead ELSE NextRule(h[x \ {Max(x)}], specs[Max(x)], dir, v6)]
           h == CHOOSE h : R(h)
<1>1. n \in Nat /\ DOMAIN specs = 1 .. n /\ \A i \in 1 .. n : specs[i] \in Specs
  OBVIOUS
<1>2. first \in A
  BY NoHeadType, NextRuleType
<1>20. \A a \in A, r \in Specs : NextRule(a, r, dir, v6) \in A
  BY NoHeadType, NextRuleType
<1>7. ChainRules(specs, dir, v6) = h[DOMAIN specs]
  BY DEF ChainRules, NoHead, FoldLeft, MapThenFoldSet, Max
<1> HIDE DEF A
<1>3. o \in [A \X (1 .. n) -> A]
  <2>1. DOMAIN o = A \X (1 .. n)
    OBVIOUS
  <2>2. ASSUME NEW p \in A \X (1 .. n) PROVE o[p] \in A
    <3>1. p[1] \in A /\ specs[p[2]] \in Specs
      BY <1>1
    <3>2. NextRule(p[1], specs[p[2]], dir, v6) \in A
      <4> DEFINE a == p[1]  r == specs[p[2]]
      <4> HIDE DEF a, r, n
      <4>1. NextRule(a, r, dir, v6) \in A
        BY <1>20, <3>1 DEF a, r
      <4> QED
        BY <4>1 DEF a, r
    <3>3. o[p] = NextRule(p[1], specs[p[2]], dir, v6)
      BY Zenon
    <3> HIDE DEF o
    <3> QED
      BY <3>2, <3>3
  <2>3. o = [p \in A \X (1 .. n) |-> o[p]]
    BY <2>1
  <2> HIDE DEF o, n
  <2> QED
    BY <2>2, <2>3
<1> HIDE DEF first
<1>4. PICK g \in [SUBSET (1 .. n) -> A] : Folds(g, first, o, n)
  <2> HIDE DEF o, n
  <2> QED
    BY <1>1, <1>2, <1>3, FoldExists
<1>5. R(g)
  <2>1. ASSUME NEW x \in SUBSET (1 .. n), x # {}
        PROVE  g[x] = NextRule(g[x \ {Max(x)}], specs[Max(x)], dir, v6)
    <3>1. g[x] = o[<<g[x \ {Max(x)}], Max(x)>>]
      <4> HIDE DEF o, n
      <4> QED
        BY <1>4, <2>1 DEF Folds
    <3>2. Max(x) \in 1 .. n
      BY <1>1, <2>1, MaxIn
    <3>3. g[x \ {Max(x)}] \in A
      <4> HIDE DEF o, n
      <4> QED
        OBVIOUS
    <3> DEFINE y == g[x \ {Max(x)}]  m == Max(x)
    <3>4. <<y, m>> \in A \X (1 .. n) /\ <<y, m>>[1] = y /\ <<y, m>>[2] = m
      <4> HIDE DEF y, m, n
      <4>1. y \in A /\ m \in 1 .. n
        BY <3>2, <3>3 DEF y, m
      <4> QED
        BY <4>1
    <3>5. o[<<y, m>>] = NextRule(y, specs[m], dir, v6)
      <4> HIDE DEF y, m, n
      <4>1. o[<<y, m>>] = NextRule(<<y, m>>[1], specs[<<y, m>>[2]], dir, v6)
        BY <3>4, Zenon
      <4> HIDE DEF o
      <4> QED
        BY <3>4, <4>1, Zenon
    <3> HIDE DEF o
    <3> QED
      BY <3>1, <3>5
  <2>2. g[{}] = NoHead
    BY <1>4 DEF Folds, first
  <2>3. g = [x \in SUBSET (1 .. n) |-> g[x]]
    OBVIOUS
  <2> HIDE DEF o
  <2>4. \A x \in SUBSET (1 .. n) :
          g[x] = IF x = {} THEN NoHead ELSE NextRule(g[x \ {Max(x)}], specs[Max(x)], dir, v6)
    BY <2>1, <2>2, Zenon
  <2> HIDE DEF n
  <2> QED
    BY <1>1, <2>3, <2>4, Zenon
<1>6. R(h)
  <2>1. \E f : R(f)
    BY <1>5, Zenon
  <2> QED
    BY <2>1, Zenon
<1> HIDE DEF h
<1>8. \A x \in SUBSET (1 .. n) :
        h[x] = IF x = {} THEN NoHead ELSE NextRule(h[x \ {Max(x)}], specs[Max(x)], dir, v6)
  <2>1. DOMAIN specs = 1 .. n
    BY <1>1
  <2>2. \A x \in SUBSET DOMAIN specs :
        h[x] = IF x = {} THEN NoHead ELSE NextRule(h[x \ {Max(x)}], specs[Max(x)], dir, v6)
    <3> HIDE DEF n, o
    <3> QED
      BY <1>6, Zenon
  <2> QED
    BY <2>1, <2>2, Zenon
<1>9. h[{}] = first
  BY <1>8, Zenon DEF first
<1>10. Follows(h, o, A, n)
  <2> SUFFICES ASSUME NEW i \in 1 .. n, h[1 .. i - 1] \in A
               PROVE  h[1 .. i] = o[<<h[1 .. i - 1], i>>]
    <3> HIDE DEF o, n
    <3> QED
      BY DEF Follows
  <2>1. /\ 1 .. i \in SUBSET (1 .. n) /\ 1 .. i # {}
        /\ (1 .. i) \ {i} = 1 .. i - 1 /\ Max(1 .. i) = i
    <3> HIDE DEF o, n
    <3> QED
      BY <1>1, UpTo
  <2>2. h[1 .. i] = NextRule(h[(1 .. i) \ {Max(1 .. i)}], specs[Max(1 .. i)], dir, v6)
    <3> HIDE DEF o, n
    <3> QED
      BY <1>8, <2>1, Zenon
  <2> DEFINE y == h[1 .. i - 1]
  <2>3. h[1 .. i] = NextRule(y, specs[i], dir, v6)
    <3> HIDE DEF o, n
    <3>1. (1 .. i) \ {Max(1 .. i)} = 1 .. i - 1
      BY <2>1
    <3> QED
      BY <2>1, <2>2, <3>1, Zenon
  <2>4. <<y, i>> \in A \X (1 .. n) /\ <<y, i>>[1] = y /\ <<y, i>>[2] = i
    <3> HIDE DEF y, n, o
    <3>1. y \in A
      BY DEF y
    <3> QED
      BY <3>1
  <2>5. o[<<y, i>>] = NextRule(y, specs[i], dir, v6)
    <3> HIDE DEF y, n
    <3>1. o[<<y, i>>] = NextRule(<<y, i>>[1], specs[<<y, i>>[2]], dir, v6)
      BY <2>4, Zenon
    <3> HIDE DEF o
    <3> QED
      BY <2>4, <3>1, Zenon
  <2> HIDE DEF o
  <2> QED
    BY <2>3, <2>5
<1>11. Runs(h, first, o, A, n)
  <2> HIDE DEF o, n
  <2> QED
    BY <1>1, <1>2, <1>3, <1>9, <1>10, FoldFollows
<1>12. PICK t \in [0 .. n -> A] :
         /\ t[0] = first
         /\ \A i \in 1 .. n : t[i] = o[<<t[i - 1], i>>]
         /\ h[1 .. n] = t[n]
  <2> HIDE DEF o, n
  <2> QED
    BY <1>11 DEF Runs
<1>13. ASSUME NEW i \in 1 .. n
       PROVE  t[i] = NextRule(t[i - 1], specs[i], dir, v6)
  <2> DEFINE y == t[i - 1]
  <2>1. y \in A
    <3> HIDE DEF n, o
    <3> QED
      BY <1>1
  <2>2. <<y, i>> \in A \X (1 .. n) /\ <<y, i>>[1] = y /\ <<y, i>>[2] = i
    <3> HIDE DEF y, n, o
    <3> QED
      BY <2>1
  <2>3. o[<<y, i>>] = NextRule(y, specs[i], dir, v6)
    <3> HIDE DEF y, n
    <3>1. o[<<y, i>>] = NextRule(<<y, i>>[1], specs[<<y, i>>[2]], dir, v6)
      BY <2>2, Zenon
    <3> HIDE DEF o
    <3> QED
      BY <2>2, <3>1, Zenon
  <2> HIDE DEF o
  <2> QED
    BY <1>12, <2>3
<1>14. ChainRules(specs, dir, v6) = t[n]
  <2> HIDE DEF n, o
  <2> QED
    BY <1>1, <1>7, <1>12
<1> HIDE DEF n, o
<1>15. t[0] = NoHead
  BY <1>12 DEF first
<1>16. \A i \in 1 .. n : t[i] = NextRule(t[i - 1], specs[i], dir, v6)
  BY <1>13
<1> QED
  BY <1>14, <1>15, <1>16 DEF n, A

LEMMA ChainType ==
  ASSUME NEW specs \in Seq(Specs), NEW dir \in Directions, NEW v6
  PROVE  ChainRules(specs, dir, v6) \in Heads
<1>1. Len(specs) \in 0 .. Len(specs)
  OBVIOUS
<1> QED
  BY <1>1, ChainTrace

LEMMA DirectionType == \A c \in ChainNames : Direction(c) \in Directions
BY DEF ChainNames, Direction, Directions

\* What is read of a dump: its rules, and its policies.
Streams == {s \in [ok : BOOLEAN, rules : Seq(Naming({})), policies : UNION {[C -> Texts] : C \in SUBSET ChainNames}] :
               \A c \in DOMAIN s.policies : s.policies[c] \in {"allow", "deny", "reject"}}

LEMMA ReadType ==
  ASSUME NEW dump \in Dumps \cup {NoDump}, NEW v6
  PROVE  Read(dump, v6) \in Streams
<1>1. CASE dump = NoDump
  <2>1. <<>> \in [{} -> Texts] /\ {} \in SUBSET ChainNames /\ DOMAIN <<>> = {}
    OBVIOUS
  <2> QED
    BY <1>1, <2>1 DEF Read, NoStream, Streams
<1>2. CASE dump # NoDump
  <2> DEFINE t == ParseSave(dump)
             seqs == [i \in DOMAIN t.order |-> ChainRules(t.rules[t.order[i]], Direction(t.order[i]), v6).rules]
             C == {d \in ChainNames : t.policy[d] \in DOMAIN PolicyWords}
             policies == [c \in C |-> PolicyWords[t.policy[c]]]
             ok == /\ t.ok /\ ~dump.othertables
                   /\ \A c \in ChainNames : /\ ChainRules(t.rules[c], Direction(c), v6).ok
                                            /\ t.policy[c] \in {None, "-"} \cup DOMAIN PolicyWords
  <2>1. t \in Tables
    BY <1>2, ParsedType
  <2>2. Stream(dump, v6) = [ok |-> ok, rules |-> FlattenSeq(seqs), policies |-> policies]
    BY DEF Stream
  <2> HIDE DEF t
  <2>3. seqs \in Seq(Seq(Naming({})))
    <3>1. t.order \in Seq(ChainNames)
      BY <2>1 DEF Tables
    <3>2. ASSUME NEW i \in DOMAIN t.order
          PROVE  ChainRules(t.rules[t.order[i]], Direction(t.order[i]), v6).rules \in Seq(Naming({}))
      <4>1. t.order[i] \in ChainNames
        BY <3>1
      <4>2. t.rules[t.order[i]] \in Seq(Specs) /\ Direction(t.order[i]) \in Directions
        BY <2>1, <4>1, DirectionType DEF Tables
      <4> DEFINE specs == t.rules[t.order[i]]  dir == Direction(t.order[i])
      <4> HIDE DEF specs, dir
      <4>3. ChainRules(specs, dir, v6) \in Heads
        BY <4>2, ChainType DEF specs, dir
      <4> QED
        BY <4>3 DEF Heads, specs, dir
    <3>3. DOMAIN t.order = 1 .. Len(t.order) /\ Len(t.order) \in Nat
      BY <3>1
    <3>4. \A i \in 1 .. Len(t.order) : seqs[i] \in Seq(Naming({}))
      BY <3>2, <3>3
    <3>5. seqs = [i \in 1 .. Len(t.order) |-> seqs[i]]
      BY <3>3
    <3> HIDE DEF seqs
    <3> QED
      BY <3>3, <3>4, <3>5
  <2>4. FlattenSeq(seqs) \in Seq(Naming({}))
    <3> HIDE DEF seqs
    <3> QED
      BY <2>3, FlattenIndex
  <2>5. \A c \in C : policies[c] \in {"allow", "deny", "reject"}
    BY DEF PolicyWords
  <2>6. C \in SUBSET ChainNames /\ DOMAIN policies = C /\ policies \in [C -> Texts]
    <3>1. \A c \in C : policies[c] \in Texts
      <4> HIDE DEF C, policies
      <4> QED
        BY <2>5, TextsAssumption
    <3>2. policies = [c \in C |-> policies[c]]
      OBVIOUS
    <3>3. C \in SUBSET ChainNames
      OBVIOUS
    <3> HIDE DEF C, policies
    <3> QED
      BY <3>1, <3>2, <3>3
  <2>7. ok \in BOOLEAN
    OBVIOUS
  <2> HIDE DEF seqs, policies, C, ok
  <2> QED
    BY <1>2, <2>2, <2>4, <2>5, <2>6, <2>7 DEF Read, Streams
<1> QED
  BY <1>1, <1>2

-----------------------------------------------------------------------------
(* What becomes of a state.                                                *)

LEMMA NamingGrows ==
  ASSUME NEW N, NEW M, N \subseteq M
  PROVE  Naming(N) \subseteq Naming(M) /\ \A l \in Seq(Naming(N)) : l \in Seq(Naming(M))
<1>1. Naming(N) \subseteq Naming(M)
  BY DEF Naming
<1> HIDE DEF Naming
<1> QED
  BY <1>1

\* A state with other policies, lists, sets and IPv6.
LEMMA StateWith ==
  ASSUME NEW s, s = [f \in StateFields |-> s[f]], NEW pol, NEW a, NEW b, NEW e, NEW six
  PROVE  LET u == [s EXCEPT !.policies = pol, !.rules4 = a, !.rules6 = b, !.sets = e, !.ipv6 = six] IN
         /\ u = [f \in StateFields |-> u[f]]
         /\ u.policies = pol /\ u.rules4 = a /\ u.rules6 = b /\ u.sets = e /\ u.ipv6 = six
         /\ u.panic = s.panic /\ u.etc = s.etc /\ u.etcIPv6 = s.etcIPv6 /\ u.bans = s.bans
BY DEF StateFields

\* What stands in a list that stands in another one stands there.
LEMMA StandsTrans ==
  ASSUME NEW a, NEW b, NEW c, NEW K, NEW L, L \subseteq K, Stands(a, b, K), Stands(b, c, L)
  PROVE  Stands(a, c, K)
<1> SUFFICES ASSUME NEW k \in 1 .. Len(a)
             PROVE  /\ k \in 1 .. Len(c)
                    /\ TupleKey(c[k]) = TupleKey(a[k])
                    /\ c[k].disabled = a[k].disabled /\ c[k].expired = a[k].expired
                    /\ TupleKey(a[k]) \notin K => c[k] = a[k]
  BY DEF Stands
<1>1. /\ k \in 1 .. Len(b) /\ TupleKey(b[k]) = TupleKey(a[k])
      /\ b[k].disabled = a[k].disabled /\ b[k].expired = a[k].expired
      /\ TupleKey(a[k]) \notin K => b[k] = a[k]
  BY DEF Stands
<1>2. /\ k \in 1 .. Len(c) /\ TupleKey(c[k]) = TupleKey(b[k])
      /\ c[k].disabled = b[k].disabled /\ c[k].expired = b[k].expired
      /\ TupleKey(b[k]) \notin L => c[k] = b[k]
  BY <1>1 DEF Stands
<1>3. TupleKey(a[k]) \notin K => TupleKey(b[k]) \notin L
  BY <1>1
<1> QED
  BY <1>1, <1>2, <1>3

LEMMA StandsSame == ASSUME NEW a, NEW K PROVE Stands(a, a, K)
BY DEF Stands

LEMMA StandsAppend ==
  ASSUME NEW S, NEW a \in Seq(S), NEW r \in S
  PROVE  Stands(a, Append(a, r), {})
<1>1. \A k \in 1 .. Len(a) : k \in 1 .. Len(Append(a, r)) /\ Append(a, r)[k] = a[k]
  OBVIOUS
<1> HIDE DEF Append
<1> QED
  BY <1>1 DEF Stands

\* A catchall, field by field.
LEMMA CatchallIs ==
  ASSUME NEW pol \in Texts, NEW d \in Directions
  PROVE  /\ Catchall(d, pol) \in Naming({})
         /\ Catchall(d, pol) =
              [action |-> pol, dir |-> d, iif |-> AnyIface, oif |-> AnyIface, proto |-> "any",
               icmp |-> AnyType, src |-> Endpoint(NoNet, {}, "any"), dst |-> Endpoint(NoNet, {}, "any"),
               log |-> None, dapp |-> None, sapp |-> None, comment |-> pol,
               disabled |-> FALSE, expired |-> FALSE]
<1> DEFINE e == Endpoint(NoNet, {}, "any")  any == "any"
<1>1. /\ PlainRule(pol, d) \in Naming({})
      /\ PlainRule(pol, d) =
          [action |-> pol, dir |-> d, iif |-> AnyIface, oif |-> AnyIface, proto |-> any,
           icmp |-> AnyType, src |-> e, dst |-> e,
           log |-> None, dapp |-> None, sapp |-> None, comment |-> None,
           disabled |-> FALSE, expired |-> FALSE]
  BY PlainIs
<1> HIDE DEF e, any
<1>2. Catchall(d, pol) =
          [action |-> pol, dir |-> d, iif |-> AnyIface, oif |-> AnyIface, proto |-> any,
           icmp |-> AnyType, src |-> e, dst |-> e,
           log |-> None, dapp |-> None, sapp |-> None, comment |-> pol,
           disabled |-> FALSE, expired |-> FALSE]
  <2>1. Catchall(d, pol) =
          [[action |-> pol, dir |-> d, iif |-> AnyIface, oif |-> AnyIface, proto |-> any,
            icmp |-> AnyType, src |-> e, dst |-> e,
            log |-> None, dapp |-> None, sapp |-> None, comment |-> None,
            disabled |-> FALSE, expired |-> FALSE] EXCEPT !.comment = pol]
    BY <1>1, Zenon DEF Catchall
  <2> QED
    BY <2>1
<1>4. /\ PlainRule(pol, d) \in Listed /\ PlainRule(pol, d).src = e /\ PlainRule(pol, d).proto = any
      /\ PlainRule(pol, d).iif = AnyIface /\ PlainRule(pol, d).log = None
      /\ PlainRule(pol, d).icmp = AnyType /\ e.set \in {NoSet}
  BY <1>1 DEF Naming
<1>5. e \in Ends /\ any \in Texts /\ AnyIface \in Texts /\ None \in Texts /\ AnyType \in Int
  BY <1>4 DEF Listed
<1>6. Catchall(d, pol) \in Listed
  BY <1>2, <1>5 DEF Listed
<1>7. Catchall(d, pol).src = e /\ Catchall(d, pol).dst = e
  BY <1>2
<1>3. Catchall(d, pol) \in Naming({})
  BY <1>4, <1>6, <1>7 DEF Naming
<1> QED
  BY <1>2, <1>3 DEF e, any

LEMMA CatchallStands ==
  ASSUME NEW N, NEW rules \in Seq(Naming(N)), NEW pol \in Texts, NEW d \in Directions
  PROVE  /\ PolicyCatchall(rules, d, pol) \in Seq(Naming(N))
         /\ Stands(rules, PolicyCatchall(rules, d, pol), {})
<1>1. Catchall(d, pol) \in Naming(N)
  BY CatchallIs, NamingGrows
<1>2. PolicyCatchall(rules, d, pol) \in {rules, Append(rules, Catchall(d, pol))}
  BY DEF PolicyCatchall
<1>3. Append(rules, Catchall(d, pol)) \in Seq(Naming(N))
  BY <1>1
<1> QED
  BY <1>1, <1>2, <1>3, StandsAppend, StandsSame

\* The effective policy of a chain by a stream.
Effect(s, chain, stream) ==
  IF chain \in DOMAIN stream.policies THEN stream.policies[chain] ELSE EffPol(s.policies[Direction(chain)])

BaseOf(s, chain, four, six) ==
  IF s.ipv6 /\ PolicyRank(Effect(s, chain, six)) > PolicyRank(Effect(s, chain, four))
  THEN Effect(s, chain, six) ELSE Effect(s, chain, four)

LEMMA EffectType ==
  ASSUME NEW s, NEW chain \in ChainNames, NEW stream \in Streams
  PROVE  Effect(s, chain, stream) \in {"allow", "deny", "reject"}
BY DEF Effect, EffPol, Streams

\* One chain's policies, in the state and as last rules.
LEMMA WithPolicyIs ==
  ASSUME NEW s, IsState(s), NEW chain \in ChainNames, NEW four \in Streams, NEW six \in Streams
  PROVE  LET u    == WithPolicy(s, chain, four, six)
             d    == Direction(chain)
             eff4 == Effect(s, chain, four)
             eff6 == Effect(s, chain, six)
             base == BaseOf(s, chain, four, six) IN
         /\ IsState(u) /\ u.sets = s.sets /\ u.ipv6 = s.ipv6 /\ u.panic = s.panic
         /\ u.policies = [s.policies EXCEPT ![d] = base]
         /\ u.rules4 = IF eff4 # base THEN PolicyCatchall(s.rules4, d, eff4) ELSE s.rules4
         /\ u.rules6 = IF s.ipv6 /\ eff6 # base THEN PolicyCatchall(s.rules6, d, eff6) ELSE s.rules6
         /\ Stands(s.rules4, u.rules4, {}) /\ Stands(s.rules6, u.rules6, {})
<1> DEFINE u    == WithPolicy(s, chain, four, six)
           d    == Direction(chain)
           eff4 == Effect(s, chain, four)
           eff6 == Effect(s, chain, six)
           base == BaseOf(s, chain, four, six)
           pol  == [s.policies EXCEPT ![d] = base]
           N    == DOMAIN s.sets
           a    == IF eff4 # base THEN PolicyCatchall(s.rules4, d, eff4) ELSE s.rules4
           b    == IF s.ipv6 /\ eff6 # base THEN PolicyCatchall(s.rules6, d, eff6) ELSE s.rules6
<1>1. u = [s EXCEPT !.policies[d] = base, !.rules4 = a, !.rules6 = b]
  BY Zenon DEF WithPolicy, Effect, BaseOf
<1>2. d \in Directions
  BY DirectionType
<1>3. eff4 \in Texts /\ eff6 \in Texts /\ base \in Texts
  <2>1. eff4 \in {"allow", "deny", "reject"} /\ eff6 \in {"allow", "deny", "reject"}
    BY EffectType
  <2>2. base \in {eff4, eff6}
    BY DEF BaseOf
  <2> HIDE DEF eff4, eff6, base
  <2> QED
    BY <2>1, <2>2, TextsAssumption
<1>4. /\ s = [f \in StateFields |-> s[f]] /\ s.policies \in [Directions -> Texts]
      /\ s.ipv6 \in BOOLEAN /\ s.rules4 \in Seq(Naming(N)) /\ s.rules6 \in Seq(Naming(N))
  BY DEF IsState
<1> HIDE DEF eff4, eff6, base
<1>5. a \in Seq(Naming(N)) /\ Stands(s.rules4, a, {})
  <2> HIDE DEF N
  <2> QED
    BY <1>2, <1>3, <1>4, CatchallStands, StandsSame
<1>6. b \in Seq(Naming(N)) /\ Stands(s.rules6, b, {})
  <2> HIDE DEF N
  <2> QED
    BY <1>2, <1>3, <1>4, CatchallStands, StandsSame
<1>7. pol \in [Directions -> Texts]
  BY <1>3, <1>4
<1> HIDE DEF d, a, b, u, N
<1>8. /\ u = [f \in StateFields |-> u[f]] /\ u.policies = pol /\ u.rules4 = a /\ u.rules6 = b
      /\ u.sets = s.sets /\ u.ipv6 = s.ipv6 /\ u.panic = s.panic
  <2>1. u = [s EXCEPT !.policies = pol, !.rules4 = a, !.rules6 = b]
    BY <1>1
  <2> HIDE DEF pol
  <2> QED
    BY <2>1, <1>4 DEF StateFields
<1>9. IsState(u)
  BY <1>4, <1>5, <1>6, <1>7, <1>8 DEF IsState, N
<1> QED
  BY <1>5, <1>6, <1>8, <1>9 DEF u, d, a, b, base, eff4, eff6

\* What comes in with a dump names no sets and belongs to the lists' rules.
LEMMA ReadRules ==
  ASSUME NEW dump \in Dumps \cup {NoDump}, NEW v6, NEW N
  PROVE  Read(dump, v6).rules \in Seq(Naming(N)) /\ Read(dump, v6) \in Streams
<1>1. Read(dump, v6) \in Streams
  BY ReadType
<1>2. Read(dump, v6).rules \in Seq(Naming({}))
  BY <1>1 DEF Streams
<1> QED
  BY <1>1, <1>2, NamingGrows

\* The state with the rules of both dumps, before its policies.
Joined(s, d4, d6) ==
  [s EXCEPT !.rules4 = MergeRules(@, Read(d4, FALSE).rules),
            !.rules6 = MergeRules(@, Read(d6, TRUE).rules),
            !.ipv6 = @ \/ d6 # NoDump]

LEMMA JoinedIs ==
  ASSUME NEW s, IsState(s), NEW d4 \in Dumps \cup {NoDump}, NEW d6 \in Dumps \cup {NoDump}
  PROVE  LET j == Joined(s, d4, d6) IN
         /\ IsState(j) /\ j.sets = s.sets /\ j.policies = s.policies /\ j.panic = s.panic
         /\ j.ipv6 = (s.ipv6 \/ d6 # NoDump)
         /\ j.rules4 = MergeRules(s.rules4, Read(d4, FALSE).rules)
         /\ j.rules6 = MergeRules(s.rules6, Read(d6, TRUE).rules)
         /\ Stands(s.rules4, j.rules4, KeysOf(Read(d4, FALSE).rules))
         /\ Stands(s.rules6, j.rules6, KeysOf(Read(d6, TRUE).rules))
<1> DEFINE j == Joined(s, d4, d6)
           N == DOMAIN s.sets
           four == Read(d4, FALSE).rules
           six == Read(d6, TRUE).rules
           a == MergeRules(s.rules4, four)
           b == MergeRules(s.rules6, six)
           on == s.ipv6 \/ d6 # NoDump
<1>1. /\ s = [f \in StateFields |-> s[f]] /\ s.policies \in [Directions -> Texts]
      /\ s.ipv6 \in BOOLEAN /\ s.rules4 \in Seq(Naming(N)) /\ s.rules6 \in Seq(Naming(N))
  BY DEF IsState
<1>2. four \in Seq(Naming(N)) /\ six \in Seq(Naming(N))
  <2> HIDE DEF N
  <2> QED
    BY ReadRules
<1>3. j = [s EXCEPT !.rules4 = a, !.rules6 = b, !.ipv6 = on]
  BY DEF Joined
<1> HIDE DEF four, six
<1>4. /\ a \in Seq(Naming(N)) /\ Stands(s.rules4, a, KeysOf(four))
      /\ b \in Seq(Naming(N)) /\ Stands(s.rules6, b, KeysOf(six))
  <2> HIDE DEF N
  <2> QED
    BY <1>1, <1>2, FileKeepsPlaces, NamingAre
<1>5. on \in BOOLEAN
  OBVIOUS
<1> HIDE DEF j, a, b, on
<1>6. /\ j = [f \in StateFields |-> j[f]] /\ j.policies = s.policies /\ j.rules4 = a /\ j.rules6 = b
      /\ j.sets = s.sets /\ j.ipv6 = on /\ j.panic = s.panic
  BY <1>1, <1>3 DEF StateFields
<1>7. IsState(j)
  BY <1>1, <1>4, <1>5, <1>6 DEF IsState
<1> QED
  BY <1>4, <1>6, <1>7 DEF j, a, b, on, four, six

\* The three chains, one after the other.
LEMMA MergedSteps ==
  ASSUME NEW s, NEW d4, NEW d6
  PROVE  LET four   == Read(d4, FALSE)
             six    == Read(d6, TRUE)
             input  == WithPolicy(Joined(s, d4, d6), "INPUT", four, six)
             output == WithPolicy(input, "OUTPUT", four, six) IN
         Merged(s, d4, d6) = WithPolicy(output, "FORWARD", four, six)
BY Zenon DEF Merged, Joined

LEMMA WithPolicyKeeps ==
  ASSUME NEW s, IsState(s), NEW chain \in ChainNames, NEW four \in Streams, NEW six \in Streams,
         NEW u, u = WithPolicy(s, chain, four, six)
  PROVE  /\ IsState(u) /\ u.sets = s.sets /\ u.ipv6 = s.ipv6 /\ u.panic = s.panic
         /\ Stands(s.rules4, u.rules4, {}) /\ Stands(s.rules6, u.rules6, {})
<1> DEFINE w == WithPolicy(s, chain, four, six)
           d    == Direction(chain)
           eff4 == Effect(s, chain, four)
           eff6 == Effect(s, chain, six)
           base == BaseOf(s, chain, four, six)
<1>2. /\ IsState(w) /\ w.sets = s.sets /\ w.ipv6 = s.ipv6 /\ w.panic = s.panic
      /\ w.policies = [s.policies EXCEPT ![d] = base]
      /\ w.rules4 = IF eff4 # base THEN PolicyCatchall(s.rules4, d, eff4) ELSE s.rules4
      /\ w.rules6 = IF s.ipv6 /\ eff6 # base THEN PolicyCatchall(s.rules6, d, eff6) ELSE s.rules6
      /\ Stands(s.rules4, w.rules4, {}) /\ Stands(s.rules6, w.rules6, {})
  BY WithPolicyIs, Zenon
<1> HIDE DEF eff4, eff6, base, d
<1>1. /\ IsState(w) /\ w.sets = s.sets /\ w.ipv6 = s.ipv6 /\ w.panic = s.panic
      /\ Stands(s.rules4, w.rules4, {}) /\ Stands(s.rules6, w.rules6, {})
  BY <1>2
<1> HIDE DEF w
<1> QED
  BY <1>1 DEF w

(* A merge of two dumps keeps a state one, and each of its rules where it  *)
(* was (ImportIPTables).                                                   *)
LEMMA MergedKeeps ==
  ASSUME NEW s, IsState(s), NEW d4 \in Dumps \cup {NoDump}, NEW d6 \in Dumps \cup {NoDump}
  PROVE  LET u == Merged(s, d4, d6) IN
         /\ IsState(u) /\ u.sets = s.sets /\ u.panic = s.panic
         /\ Stands(s.rules4, u.rules4, KeysOf(Read(d4, FALSE).rules))
         /\ Stands(s.rules6, u.rules6, KeysOf(Read(d6, TRUE).rules))
<1> DEFINE four   == Read(d4, FALSE)
           six    == Read(d6, TRUE)
           j      == Joined(s, d4, d6)
           input  == WithPolicy(j, "INPUT", four, six)
           output == WithPolicy(input, "OUTPUT", four, six)
           u      == WithPolicy(output, "FORWARD", four, six)
           K4 == KeysOf(four.rules)
           K6 == KeysOf(six.rules)
<1>1. Merged(s, d4, d6) = u
  BY MergedSteps, Zenon
<1>2. four \in Streams /\ six \in Streams
  BY ReadRules
<1>3. /\ IsState(j) /\ j.sets = s.sets /\ j.panic = s.panic
      /\ Stands(s.rules4, j.rules4, K4) /\ Stands(s.rules6, j.rules6, K6)
  BY JoinedIs
<1> HIDE DEF four, six, j, K4, K6, input, output, u
<1>4. "INPUT" \in ChainNames /\ "OUTPUT" \in ChainNames /\ "FORWARD" \in ChainNames
  BY DEF ChainNames
<1>5. /\ IsState(input) /\ input.sets = j.sets /\ input.panic = j.panic
      /\ Stands(j.rules4, input.rules4, {}) /\ Stands(j.rules6, input.rules6, {})
  BY <1>2, <1>3, <1>4, WithPolicyKeeps DEF input
<1>6. /\ IsState(output) /\ output.sets = input.sets /\ output.panic = input.panic
      /\ Stands(input.rules4, output.rules4, {}) /\ Stands(input.rules6, output.rules6, {})
  BY <1>2, <1>4, <1>5, WithPolicyKeeps DEF output
<1>7. /\ IsState(u) /\ u.sets = output.sets /\ u.panic = output.panic
      /\ Stands(output.rules4, u.rules4, {}) /\ Stands(output.rules6, u.rules6, {})
  BY <1>2, <1>4, <1>6, WithPolicyKeeps DEF u
<1>8. Stands(s.rules4, input.rules4, K4) /\ Stands(s.rules6, input.rules6, K6)
  BY <1>3, <1>5, StandsTrans
<1>9. Stands(s.rules4, output.rules4, K4) /\ Stands(s.rules6, output.rules6, K6)
  BY <1>6, <1>8, StandsTrans
<1>10. Stands(s.rules4, u.rules4, K4) /\ Stands(s.rules6, u.rules6, K6)
  BY <1>7, <1>9, StandsTrans
<1> QED
  BY <1>1, <1>3, <1>5, <1>6, <1>7, <1>10 DEF K4, K6, four, six

-----------------------------------------------------------------------------
(* Reading nft rules.                                                      *)

\* What the expressions of a rule have been read into.
Convs == [ok : BOOLEAN, done : BOOLEAN, families : SUBSET BOOLEAN, rule : Naming({})]

\* A rule with one field changed is one of the lists'.
LEMMA RuleWith ==
  ASSUME NEW r \in Naming({})
  PROVE  /\ \A x \in Texts : /\ [r EXCEPT !.proto = x] \in Naming({})
                            /\ [r EXCEPT !.iif = x] \in Naming({})
                            /\ [r EXCEPT !.oif = x] \in Naming({})
                            /\ [r EXCEPT !.log = x] \in Naming({})
                            /\ [r EXCEPT !.action = x] \in Naming({})
         /\ \A n \in Int : [r EXCEPT !.icmp = n] \in Naming({})
<1>1. r \in Listed
  BY DEF Naming
<1>2. ASSUME NEW x \in Texts
      PROVE  /\ [r EXCEPT !.proto = x] \in Naming({})
             /\ [r EXCEPT !.iif = x] \in Naming({})
             /\ [r EXCEPT !.oif = x] \in Naming({})
             /\ [r EXCEPT !.log = x] \in Naming({})
             /\ [r EXCEPT !.action = x] \in Naming({})
  BY <1>1 DEF Naming, Listed
<1>3. ASSUME NEW n \in Int PROVE [r EXCEPT !.icmp = n] \in Naming({})
  BY <1>1 DEF Naming, Listed
<1> QED
  BY <1>2, <1>3

LEMMA EndWith ==
  ASSUME NEW r \in Naming({}), NEW side \in {"src", "dst"}
  PROVE  /\ \A net \in Nets \cup {NoNet} : [r EXCEPT ![side].net = net] \in Naming({})
         /\ \A ports \in SUBSET PortRanges : [r EXCEPT ![side].ports = ports] \in Naming({})
<1>1. r \in Listed /\ {r.src.set, r.dst.set} \subseteq {NoSet} /\ r.src \in Ends /\ r.dst \in Ends
  BY DEF Naming, Listed
<1>2. ASSUME NEW e \in Ends, e.set = NoSet
      PROVE  [r EXCEPT !.src = e] \in Naming({}) /\ [r EXCEPT !.dst = e] \in Naming({})
  <2>1. [r EXCEPT !.src = e] \in Listed /\ [r EXCEPT !.dst = e] \in Listed
    BY <1>1 DEF Listed
  <2>2. /\ [r EXCEPT !.src = e].src = e /\ [r EXCEPT !.src = e].dst = r.dst
        /\ [r EXCEPT !.dst = e].dst = e /\ [r EXCEPT !.dst = e].src = r.src
    BY <1>1 DEF Listed
  <2> QED
    BY <1>1, <1>2, <2>1, <2>2 DEF Naming
<1>3. ASSUME NEW e \in Ends
      PROVE  /\ \A net \in Nets \cup {NoNet} : [e EXCEPT !.net = net] \in Ends /\ [e EXCEPT !.net = net].set = e.set
             /\ \A ports \in SUBSET PortRanges : [e EXCEPT !.ports = ports] \in Ends /\ [e EXCEPT !.ports = ports].set = e.set
  BY DEF Ends
<1>4. r.src.set = NoSet /\ r.dst.set = NoSet
  BY <1>1
<1>5. ASSUME NEW net \in Nets \cup {NoNet} PROVE [r EXCEPT ![side].net = net] \in Naming({})
  <2>1. [r EXCEPT ![side].net = net] = [r EXCEPT ![side] = [r[side] EXCEPT !.net = net]]
    BY Zenon
  <2>2. r[side] \in Ends /\ r[side].set = NoSet
    BY <1>1, <1>4
  <2> DEFINE e == [r[side] EXCEPT !.net = net]
  <2>3. e \in Ends /\ e.set = NoSet
    BY <1>3, <2>2
  <2> HIDE DEF e
  <2>4. [r EXCEPT ![side] = e] \in Naming({})
    BY <1>2, <2>3
  <2> QED
    BY <2>1, <2>4 DEF e
<1>6. ASSUME NEW ports \in SUBSET PortRanges PROVE [r EXCEPT ![side].ports = ports] \in Naming({})
  <2>1. [r EXCEPT ![side].ports = ports] = [r EXCEPT ![side] = [r[side] EXCEPT !.ports = ports]]
    BY Zenon
  <2>2. r[side] \in Ends /\ r[side].set = NoSet
    BY <1>1, <1>4
  <2> DEFINE e == [r[side] EXCEPT !.ports = ports]
  <2>3. e \in Ends /\ e.set = NoSet
    BY <1>3, <2>2
  <2> HIDE DEF e
  <2>4. [r EXCEPT ![side] = e] \in Naming({})
    BY <1>2, <2>3
  <2> QED
    BY <2>1, <2>4 DEF e
<1> QED
  BY <1>5, <1>6

\* A conversion with other parts is one.
LEMMA ConvOk ==
  ASSUME NEW cv \in Convs, NEW ok \in BOOLEAN
  PROVE  [cv EXCEPT !.ok = ok] \in Convs
BY DEF Convs

ConvPut(cv, ok, r) == [cv EXCEPT !.ok = ok, !.rule = r]

LEMMA ConvOkRule ==
  ASSUME NEW cv \in Convs, NEW ok \in BOOLEAN, NEW r \in Naming({})
  PROVE  ConvPut(cv, ok, r) \in Convs
BY DEF Convs, ConvPut

LEMMA ConvOkFamilies ==
  ASSUME NEW cv \in Convs, NEW ok \in BOOLEAN, NEW F \in SUBSET BOOLEAN
  PROVE  [cv EXCEPT !.ok = ok, !.families = F] \in Convs
BY DEF Convs

LEMMA ConvRule ==
  ASSUME NEW cv \in Convs, NEW r \in Naming({})
  PROVE  [cv EXCEPT !.rule = r] \in Convs
BY DEF Convs

LEMMA ConvDone ==
  ASSUME NEW cv \in Convs, NEW r \in Naming({})
  PROVE  [cv EXCEPT !.done = TRUE, !.rule = r] \in Convs
BY DEF Convs

LEMMA NarrowType ==
  ASSUME NEW cv \in Convs, NEW v6 \in BOOLEAN
  PROVE  Narrow(cv, v6) \in Convs
<1> DEFINE ok == cv.ok /\ v6 \in cv.families
<1>1. Narrow(cv, v6) = [cv EXCEPT !.ok = ok, !.families = {v6}]
  BY DEF Narrow
<1>2. ok \in BOOLEAN /\ {v6} \in SUBSET BOOLEAN
  BY DEF Convs
<1> HIDE DEF ok
<1> QED
  BY <1>1, <1>2, ConvOkFamilies

LEMMA SetProtoType ==
  ASSUME NEW cv \in Convs, NEW p \in Texts
  PROVE  SetProto(cv, p) \in Convs
<1> DEFINE narrowed == CASE p = "icmp"   -> Narrow(cv, FALSE)
                         [] p = "icmpv6" -> Narrow(cv, TRUE)
                         [] OTHER        -> cv
           ok == narrowed.ok /\ p \in NftProtos /\ cv.rule.proto \in {"any", p}
           r == [narrowed.rule EXCEPT !.proto = p]
<1>1. narrowed \in Convs
  BY NarrowType
<1>2. SetProto(cv, p) = ConvPut(narrowed, ok, r)
  BY DEF SetProto, ConvPut
<1> HIDE DEF narrowed
<1>3. narrowed.ok \in BOOLEAN /\ narrowed.rule \in Naming({})
  BY <1>1 DEF Convs
<1>4. r \in Naming({})
  BY <1>3, RuleWith
<1>5. ok \in BOOLEAN
  BY <1>3
<1> HIDE DEF ok, r
<1> QED
  BY <1>1, <1>2, <1>4, <1>5, ConvOkRule

LEMMA IfaceEqType ==
  ASSUME NEW cv \in Convs, NEW side \in {"iif", "oif"}, NEW name \in Texts
  PROVE  IfaceEq(cv, side, name) \in Convs
<1> DEFINE ok == cv.ok /\ name # None /\ cv.rule[side] \in {AnyIface, name}
           r == [cv.rule EXCEPT ![side] = name]
<1>1. IfaceEq(cv, side, name) = ConvPut(cv, ok, r)
  BY DEF IfaceEq, ConvPut
<1>2. cv.ok \in BOOLEAN /\ cv.rule \in Naming({})
  BY DEF Convs
<1>3. r \in Naming({})
  BY <1>2, RuleWith
<1>4. ok \in BOOLEAN
  BY <1>2
<1> HIDE DEF ok, r
<1> QED
  BY <1>1, <1>3, <1>4, ConvOkRule

LEMMA AddrEqType ==
  ASSUME NEW cv \in Convs, NEW e \in Exprs
  PROVE  AddrEq(cv, e) \in Convs
<1> DEFINE w == Narrow(cv, e.v6)
           ok == w.ok /\ (e.host => cv.rule[e.side].net \in {NoNet, e.net})
           r == [w.rule EXCEPT ![e.side].net = e.net]
<1>0. e.v6 \in BOOLEAN /\ e.side \in {"src", "dst"} /\ e.net \in Nets \cup {NoNet}
  BY DEF Exprs
<1>1. w \in Convs
  BY <1>0, NarrowType
<1>2. AddrEq(cv, e) = ConvPut(w, ok, r)
  BY DEF AddrEq, ConvPut
<1> HIDE DEF w
<1>3. w.ok \in BOOLEAN /\ w.rule \in Naming({})
  BY <1>1 DEF Convs
<1>4. r \in Naming({})
  BY <1>0, <1>3, EndWith
<1>5. ok \in BOOLEAN
  BY <1>3
<1> HIDE DEF ok, r
<1> QED
  BY <1>1, <1>2, <1>4, <1>5, ConvOkRule

LEMMA PortIsType ==
  ASSUME NEW cv \in Convs, NEW e \in Exprs
  PROVE  PortIs(cv, e) \in Convs
<1> DEFINE w == SetProto(cv, e.word)
           ranges == {[lo |-> e.lo, hi |-> e.hi, proto |-> e.word]}
           ok == w.ok /\ e.lo <= e.hi /\ cv.rule[e.side].ports \in {{}, ranges}
           r == [w.rule EXCEPT ![e.side].ports = ranges]
<1>0. e.side \in {"src", "dst"} /\ e.word \in Texts /\ ranges \in SUBSET PortRanges
  BY DEF Exprs, PortRanges
<1>1. w \in Convs
  BY <1>0, SetProtoType
<1>2. PortIs(cv, e) = ConvPut(w, ok, r)
  BY DEF PortIs, ConvPut
<1> HIDE DEF w, ranges
<1>3. w.ok \in BOOLEAN /\ w.rule \in Naming({})
  BY <1>1 DEF Convs
<1>4. r \in Naming({})
  BY <1>0, <1>3, EndWith
<1>5. ok \in BOOLEAN
  BY <1>3
<1> HIDE DEF ok, r
<1> QED
  BY <1>1, <1>2, <1>4, <1>5, ConvOkRule

LEMMA IcmpTypeIsType ==
  ASSUME NEW cv \in Convs, NEW e \in Exprs
  PROVE  IcmpTypeIs(cv, e) \in Convs
<1> DEFINE w == SetProto(cv, IF e.v6 THEN "icmpv6" ELSE "icmp")
           ok == w.ok /\ cv.rule.icmp \in {AnyType, e.n}
           r == [w.rule EXCEPT !.icmp = e.n]
<1>0. e.n \in Int /\ (IF e.v6 THEN "icmpv6" ELSE "icmp") \in Texts
  BY TextsAssumption DEF Exprs
<1>1. w \in Convs
  BY <1>0, SetProtoType
<1>2. IcmpTypeIs(cv, e) = ConvPut(w, ok, r)
  BY DEF IcmpTypeIs, ConvPut
<1> HIDE DEF w
<1>3. w.ok \in BOOLEAN /\ w.rule \in Naming({})
  BY <1>1 DEF Convs
<1>4. r \in Naming({})
  BY <1>0, <1>3, RuleWith
<1>5. ok \in BOOLEAN
  BY <1>3
<1> HIDE DEF ok, r
<1> QED
  BY <1>1, <1>2, <1>4, <1>5, ConvOkRule

\* One more expression.
LEMMA ExprType ==
  ASSUME NEW cv \in Convs, NEW e \in Exprs
  PROVE  Expr(cv, e) \in Convs
<1>0. e.word \in Texts /\ e.v6 \in BOOLEAN /\ "log-all" \in Texts
  BY TextsAssumption DEF Exprs
<1>1. /\ SetProto(cv, e.word) \in Convs /\ Narrow(cv, e.v6) \in Convs
      /\ SetProto(Narrow(cv, e.v6), e.word) \in Convs
  BY <1>0, NarrowType, SetProtoType
<1>2. IfaceEq(cv, "iif", e.word) \in Convs /\ IfaceEq(cv, "oif", e.word) \in Convs
  BY <1>0, IfaceEqType
<1>3. AddrEq(cv, e) \in Convs /\ PortIs(cv, e) \in Convs /\ IcmpTypeIs(cv, e) \in Convs
  BY AddrEqType, PortIsType, IcmpTypeIsType
<1>4. cv.rule \in Naming({})
  BY DEF Convs
<1>5. [cv EXCEPT !.rule.log = "log-all"] \in Convs
  <2>1. [cv EXCEPT !.rule.log = "log-all"] = [cv EXCEPT !.rule = [cv.rule EXCEPT !.log = "log-all"]]
    BY Zenon
  <2>2. [cv.rule EXCEPT !.log = "log-all"] \in Naming({})
    BY <1>0, <1>4, RuleWith
  <2> QED
    BY <2>1, <2>2, ConvRule
<1>6. [cv EXCEPT !.ok = FALSE] \in Convs
  BY ConvOk
<1>7. ASSUME e.op \in DOMAIN NftVerdicts
      PROVE  [cv EXCEPT !.done = TRUE, !.rule.action = NftVerdicts[e.op]] \in Convs
  <2> DEFINE a == NftVerdicts[e.op]
  <2>1. a \in Texts
    <3>1. a \in {"allow", "deny", "reject"}
      BY <1>7 DEF NftVerdicts
    <3> HIDE DEF a
    <3> QED
      BY <3>1, TextsAssumption
  <2> HIDE DEF a
  <2>2. [cv.rule EXCEPT !.action = a] \in Naming({})
    BY <1>4, <2>1, RuleWith
  <2>3. [cv EXCEPT !.done = TRUE, !.rule.action = a] = [cv EXCEPT !.done = TRUE, !.rule = [cv.rule EXCEPT !.action = a]]
    BY DEF Convs
  <2> QED
    BY <2>2, <2>3, ConvDone DEF a
<1> DEFINE off == [cv EXCEPT !.ok = FALSE]
           proto == SetProto(cv, e.word)
           header == SetProto(Narrow(cv, e.v6), e.word)
           family == Narrow(cv, e.v6)
           iif == IfaceEq(cv, "iif", e.word)
           oif == IfaceEq(cv, "oif", e.word)
           addr == AddrEq(cv, e)
           port == PortIs(cv, e)
           type == IcmpTypeIs(cv, e)
           logged == [cv EXCEPT !.rule.log = "log-all"]
           decided == [cv EXCEPT !.done = TRUE, !.rule.action = NftVerdicts[e.op]]
<1>8. Expr(cv, e) =
        IF cv.done THEN off
        ELSE CASE e.op = "l4proto"  -> proto
               [] e.op = "protocol" -> header
               [] e.op = "nfproto"  -> family
               [] e.op = "iifname"  -> iif
               [] e.op = "oifname"  -> oif
               [] e.op = "addr"     -> addr
               [] e.op = "port"     -> port
               [] e.op = "icmptype" -> type
               [] e.op = "log"      -> logged
               [] e.op \in DOMAIN NftVerdicts -> decided
               [] OTHER -> off
  BY DEF Expr
<1>9. {off, proto, header, family, iif, oif, addr, port, type, logged} \subseteq Convs
  BY <1>1, <1>2, <1>3, <1>5, <1>6
<1>10. e.op \in DOMAIN NftVerdicts => decided \in Convs
  BY <1>7
<1> HIDE DEF off, proto, header, family, iif, oif, addr, port, type, logged, decided
<1>11. \/ Expr(cv, e) \in {off, proto, header, family, iif, oif, addr, port, type, logged}
       \/ Expr(cv, e) = decided /\ e.op \in DOMAIN NftVerdicts
  BY <1>8
<1> QED
  BY <1>9, <1>10, <1>11

\* The chain of a rule that is imported.
LEMMA BlankType ==
  ASSUME NEW c \in Bases, ChainFits(c)
  PROVE  Blank(c) \in Convs
<1>1. Sees[c.family] \in SUBSET BOOLEAN
  <2>1. c.family \in DOMAIN Sees
    BY DEF ChainFits
  <2>2. c.family \in {"ip", "ip6", "inet"}
    BY <2>1 DEF Sees
  <2>3. Sees.ip \in SUBSET BOOLEAN /\ Sees.ip6 \in SUBSET BOOLEAN /\ Sees.inet \in SUBSET BOOLEAN
    BY DEF Sees
  <2> QED
    BY <2>2, <2>3
<1>2. Hooks[c.hook] \in Directions
  BY DEF ChainFits, Hooks, Directions
<1>3. None \in Texts
  BY TextsAssumption
<1>4. PlainRule(None, Hooks[c.hook]) \in Naming({})
  BY <1>2, <1>3, PlainIs
<1> QED
  BY <1>1, <1>4 DEF Blank, Convs

\* A rule is gone through expression by expression.
LEMMA ConvertTrace ==
  ASSUME NEW c \in Bases, ChainFits(c), NEW exprs \in Seq(Exprs)
  PROVE  \E t \in [0 .. Len(exprs) -> Convs] :
            /\ t[0] = Blank(c)
            /\ \A i \in 1 .. Len(exprs) : t[i] = Expr(t[i - 1], exprs[i])
            /\ FoldLeft(Expr, Blank(c), exprs) = t[Len(exprs)]
<1> DEFINE n == Len(exprs)
           A == Convs
           first == Blank(c)
           o == [p \in A \X (1 .. n) |-> Expr(p[1], exprs[p[2]])]
           R(h) == h = [x \in SUBSET DOMAIN exprs |->
                          IF x = {} THEN Blank(c) ELSE Expr(h[x \ {Max(x)}], exprs[Max(x)])]
           h == CHOOSE h : R(h)
<1>1. n \in Nat /\ DOMAIN exprs = 1 .. n /\ \A i \in 1 .. n : exprs[i] \in Exprs
  OBVIOUS
<1>2. first \in A
  BY BlankType, ExprType
<1>20. \A a \in A, r \in Exprs : Expr(a, r) \in A
  BY BlankType, ExprType
<1>7. FoldLeft(Expr, Blank(c), exprs) = h[DOMAIN exprs]
  BY DEF FoldLeft, MapThenFoldSet, Max
<1> HIDE DEF A
<1>3. o \in [A \X (1 .. n) -> A]
  <2>1. DOMAIN o = A \X (1 .. n)
    OBVIOUS
  <2>2. ASSUME NEW p \in A \X (1 .. n) PROVE o[p] \in A
    <3>1. p[1] \in A /\ exprs[p[2]] \in Exprs
      BY <1>1
    <3>2. Expr(p[1], exprs[p[2]]) \in A
      <4> DEFINE a == p[1]  r == exprs[p[2]]
      <4> HIDE DEF a, r, n
      <4>1. Expr(a, r) \in A
        BY <1>20, <3>1 DEF a, r
      <4> QED
        BY <4>1 DEF a, r
    <3>3. o[p] = Expr(p[1], exprs[p[2]])
      BY Zenon
    <3> HIDE DEF o
    <3> QED
      BY <3>2, <3>3
  <2>3. o = [p \in A \X (1 .. n) |-> o[p]]
    BY <2>1
  <2> HIDE DEF o, n
  <2> QED
    BY <2>2, <2>3
<1> HIDE DEF first
<1>4. PICK g \in [SUBSET (1 .. n) -> A] : Folds(g, first, o, n)
  <2> HIDE DEF o, n
  <2> QED
    BY <1>1, <1>2, <1>3, FoldExists
<1>5. R(g)
  <2>1. ASSUME NEW x \in SUBSET (1 .. n), x # {}
        PROVE  g[x] = Expr(g[x \ {Max(x)}], exprs[Max(x)])
    <3>1. g[x] = o[<<g[x \ {Max(x)}], Max(x)>>]
      <4> HIDE DEF o, n
      <4> QED
        BY <1>4, <2>1 DEF Folds
    <3>2. Max(x) \in 1 .. n
      BY <1>1, <2>1, MaxIn
    <3>3. g[x \ {Max(x)}] \in A
      <4> HIDE DEF o, n
      <4> QED
        OBVIOUS
    <3> DEFINE y == g[x \ {Max(x)}]  m == Max(x)
    <3>4. <<y, m>> \in A \X (1 .. n) /\ <<y, m>>[1] = y /\ <<y, m>>[2] = m
      <4> HIDE DEF y, m, n
      <4>1. y \in A /\ m \in 1 .. n
        BY <3>2, <3>3 DEF y, m
      <4> QED
        BY <4>1
    <3>5. o[<<y, m>>] = Expr(y, exprs[m])
      <4> HIDE DEF y, m, n
      <4>1. o[<<y, m>>] = Expr(<<y, m>>[1], exprs[<<y, m>>[2]])
        BY <3>4, Zenon
      <4> HIDE DEF o
      <4> QED
        BY <3>4, <4>1, Zenon
    <3> HIDE DEF o
    <3> QED
      BY <3>1, <3>5
  <2>2. g[{}] = Blank(c)
    BY <1>4 DEF Folds, first
  <2>3. g = [x \in SUBSET (1 .. n) |-> g[x]]
    OBVIOUS
  <2> HIDE DEF o
  <2>4. \A x \in SUBSET (1 .. n) :
          g[x] = IF x = {} THEN Blank(c) ELSE Expr(g[x \ {Max(x)}], exprs[Max(x)])
    BY <2>1, <2>2, Zenon
  <2> HIDE DEF n
  <2> QED
    BY <1>1, <2>3, <2>4, Zenon
<1>6. R(h)
  <2>1. \E f : R(f)
    BY <1>5, Zenon
  <2> QED
    BY <2>1, Zenon
<1> HIDE DEF h
<1>8. \A x \in SUBSET (1 .. n) :
        h[x] = IF x = {} THEN Blank(c) ELSE Expr(h[x \ {Max(x)}], exprs[Max(x)])
  <2>1. DOMAIN exprs = 1 .. n
    BY <1>1
  <2>2. \A x \in SUBSET DOMAIN exprs :
        h[x] = IF x = {} THEN Blank(c) ELSE Expr(h[x \ {Max(x)}], exprs[Max(x)])
    <3> HIDE DEF n, o
    <3> QED
      BY <1>6, Zenon
  <2> QED
    BY <2>1, <2>2, Zenon
<1>9. h[{}] = first
  BY <1>8, Zenon DEF first
<1>10. Follows(h, o, A, n)
  <2> SUFFICES ASSUME NEW i \in 1 .. n, h[1 .. i - 1] \in A
               PROVE  h[1 .. i] = o[<<h[1 .. i - 1], i>>]
    <3> HIDE DEF o, n
    <3> QED
      BY DEF Follows
  <2>1. /\ 1 .. i \in SUBSET (1 .. n) /\ 1 .. i # {}
        /\ (1 .. i) \ {i} = 1 .. i - 1 /\ Max(1 .. i) = i
    <3> HIDE DEF o, n
    <3> QED
      BY <1>1, UpTo
  <2>2. h[1 .. i] = Expr(h[(1 .. i) \ {Max(1 .. i)}], exprs[Max(1 .. i)])
    <3> HIDE DEF o, n
    <3> QED
      BY <1>8, <2>1, Zenon
  <2> DEFINE y == h[1 .. i - 1]
  <2>3. h[1 .. i] = Expr(y, exprs[i])
    <3> HIDE DEF o, n
    <3>1. (1 .. i) \ {Max(1 .. i)} = 1 .. i - 1
      BY <2>1
    <3> QED
      BY <2>1, <2>2, <3>1, Zenon
  <2>4. <<y, i>> \in A \X (1 .. n) /\ <<y, i>>[1] = y /\ <<y, i>>[2] = i
    <3> HIDE DEF y, n, o
    <3>1. y \in A
      BY DEF y
    <3> QED
      BY <3>1
  <2>5. o[<<y, i>>] = Expr(y, exprs[i])
    <3> HIDE DEF y, n
    <3>1. o[<<y, i>>] = Expr(<<y, i>>[1], exprs[<<y, i>>[2]])
      BY <2>4, Zenon
    <3> HIDE DEF o
    <3> QED
      BY <2>4, <3>1, Zenon
  <2> HIDE DEF o
  <2> QED
    BY <2>3, <2>5
<1>11. Runs(h, first, o, A, n)
  <2> HIDE DEF o, n
  <2> QED
    BY <1>1, <1>2, <1>3, <1>9, <1>10, FoldFollows
<1>12. PICK t \in [0 .. n -> A] :
         /\ t[0] = first
         /\ \A i \in 1 .. n : t[i] = o[<<t[i - 1], i>>]
         /\ h[1 .. n] = t[n]
  <2> HIDE DEF o, n
  <2> QED
    BY <1>11 DEF Runs
<1>13. ASSUME NEW i \in 1 .. n
       PROVE  t[i] = Expr(t[i - 1], exprs[i])
  <2> DEFINE y == t[i - 1]
  <2>1. y \in A
    <3> HIDE DEF n, o
    <3> QED
      BY <1>1
  <2>2. <<y, i>> \in A \X (1 .. n) /\ <<y, i>>[1] = y /\ <<y, i>>[2] = i
    <3> HIDE DEF y, n, o
    <3> QED
      BY <2>1
  <2>3. o[<<y, i>>] = Expr(y, exprs[i])
    <3> HIDE DEF y, n
    <3>1. o[<<y, i>>] = Expr(<<y, i>>[1], exprs[<<y, i>>[2]])
      BY <2>2, Zenon
    <3> HIDE DEF o
    <3> QED
      BY <2>2, <3>1, Zenon
  <2> HIDE DEF o
  <2> QED
    BY <1>12, <2>3
<1>14. FoldLeft(Expr, Blank(c), exprs) = t[n]
  <2> HIDE DEF n, o
  <2> QED
    BY <1>1, <1>7, <1>12
<1> HIDE DEF n, o
<1>15. t[0] = Blank(c)
  BY <1>12 DEF first
<1>16. \A i \in 1 .. n : t[i] = Expr(t[i - 1], exprs[i])
  BY <1>13
<1> QED
  BY <1>14, <1>15, <1>16 DEF n, A

LEMMA ConvertType ==
  ASSUME NEW r \in [chain : Bases, exprs : Seq(Exprs)], ChainFits(r.chain)
  PROVE  ConvertRule(r) \in Convs
<1> DEFINE c == r.chain  exprs == r.exprs
<1>1. c \in Bases /\ exprs \in Seq(Exprs) /\ ChainFits(c)
  OBVIOUS
<1> HIDE DEF c, exprs
<1>2. Len(exprs) \in 0 .. Len(exprs)
  BY <1>1
<1>3. FoldLeft(Expr, Blank(c), exprs) \in Convs
  <2>1. PICK t \in [0 .. Len(exprs) -> Convs] : FoldLeft(Expr, Blank(c), exprs) = t[Len(exprs)]
    BY <1>1, ConvertTrace, Zenon
  <2>2. t[Len(exprs)] \in Convs
    BY <1>2
  <2> QED
    BY <2>1, <2>2
<1> QED
  BY <1>3 DEF ConvertRule, c, exprs

\* What a list that is picked from another one is made of.
LEMMA PickedType ==
  ASSUME NEW S, NEW n \in Nat, NEW seqs, seqs = [i \in 1 .. n |-> seqs[i]],
         \A i \in 1 .. n : seqs[i] \in Seq(S)
  PROVE  FlattenSeq(seqs) \in Seq(S)
<1>1. seqs \in Seq(Seq(S))
  OBVIOUS
<1> QED
  BY <1>1, FlattenIndex

LEMMA NftRulesType ==
  ASSUME NEW doc \in Docs, ~NftRefused(doc), NEW v6
  PROVE  NftRules(doc, v6) \in Seq(Naming({}))
<1> DEFINE rules == doc.rules
           n == Len(rules)
           seqs == [i \in DOMAIN rules |-> IF v6 \in ConvertRule(rules[i]).families
                                           THEN <<ConvertRule(rules[i]).rule>> ELSE <<>>]
<1>1. /\ rules \in Seq([chain : Bases, exprs : Seq(Exprs)]) /\ n \in Nat /\ DOMAIN rules = 1 .. n
      /\ \A i \in 1 .. n : rules[i].chain \in doc.chains
      /\ \A i \in 1 .. n : rules[i] \in [chain : Bases, exprs : Seq(Exprs)]
      /\ \A c \in doc.chains : ChainFits(c)
  <2>1. rules \in Seq([chain : Bases, exprs : Seq(Exprs)])
    BY DEF Docs
  <2>2. \A c \in doc.chains : ChainFits(c)
    BY Zenon DEF NftRefused, Catalogued
  <2>3. \A i \in DOMAIN rules : rules[i].chain \in doc.chains
    BY Zenon DEF NftRefused, Converts
  <2> DEFINE D == [chain : Bases, exprs : Seq(Exprs)]
  <2> HIDE DEF rules, D
  <2>4. n \in Nat /\ DOMAIN rules = 1 .. n /\ \A i \in 1 .. n : rules[i] \in D
    <3>1. rules \in Seq(D)
      BY <2>1 DEF D
    <3> QED
      BY <3>1
  <2> QED
    BY <2>1, <2>2, <2>3, <2>4, Zenon DEF D
<1>2. NftRules(doc, v6) = FlattenSeq(seqs)
  BY DEF NftRules
<1> HIDE DEF rules, n
<1>3. ASSUME NEW i \in 1 .. n PROVE seqs[i] \in Seq(Naming({}))
  <2> DEFINE r == rules[i]
  <2>1. r \in [chain : Bases, exprs : Seq(Exprs)] /\ ChainFits(r.chain)
    BY <1>1, Zenon
  <2> HIDE DEF r
  <2>2. ConvertRule(r).rule \in Naming({})
    BY <2>1, ConvertType DEF Convs
  <2>3. seqs[i] = IF v6 \in ConvertRule(r).families THEN <<ConvertRule(r).rule>> ELSE <<>>
    BY <1>1 DEF r
  <2> HIDE DEF seqs
  <2> QED
    BY <2>2, <2>3
<1>4. seqs = [i \in 1 .. n |-> seqs[i]]
  BY <1>1
<1> HIDE DEF seqs
<1> QED
  BY <1>1, <1>2, <1>3, <1>4, PickedType

-----------------------------------------------------------------------------
(* Resolving firewalld's services.                                         *)

\* A service that includes another one.
LEMMA IncludeType ==
  ASSUME NEW out \in FwServices, NEW sub \in FwServices
  PROVE  Include(out, sub) \in FwServices
<1> DEFINE ok == out.ok /\ sub.ok /\ DstsAgree(out.dst4, sub.dst4) /\ DstsAgree(out.dst6, sub.dst6)
           ports == out.ports \cup sub.ports
           protos == out.protos \o sub.protos
           dst4 == JoinDst(out.dst4, sub.dst4)
           dst6 == JoinDst(out.dst6, sub.dst6)
<1>1. Include(out, sub) = [ok |-> ok, ports |-> ports, protos |-> protos, dst4 |-> dst4, dst6 |-> dst6,
                           includes |-> out.includes]
  BY DEF Include
<1>2. ok \in BOOLEAN
  BY DEF FwServices, DstsAgree
<1>3. ports \in SUBSET FwPorts
  BY DEF FwServices
<1>4. protos \in Seq(DOMAIN FwProtos)
  <2>1. out.protos \in Seq(DOMAIN FwProtos) /\ sub.protos \in Seq(DOMAIN FwProtos)
    BY DEF FwServices
  <2> DEFINE D == DOMAIN FwProtos  a == out.protos  b == sub.protos
  <2> HIDE DEF D, a, b
  <2>2. a \o b \in Seq(D)
    <3>1. a \in Seq(D) /\ b \in Seq(D)
      BY <2>1 DEF a, b, D
    <3> QED
      BY <3>1
  <2> QED
    BY <2>2 DEF a, b, D
<1>5. dst4 \in FwDsts(FALSE) /\ dst6 \in FwDsts(TRUE)
  BY DEF FwServices, JoinDst
<1>6. out.includes \in Seq(Texts)
  BY DEF FwServices
<1> DEFINE P == Seq(DOMAIN FwProtos)  T == Seq(Texts)  D4 == FwDsts(FALSE)  D6 == FwDsts(TRUE)
<1>7. protos \in P /\ out.includes \in T /\ dst4 \in D4 /\ dst6 \in D6
  BY <1>4, <1>5, <1>6
<1> HIDE DEF ok, ports, protos, dst4, dst6, P, T, D4, D6
<1>8. Include(out, sub) \in [ok : BOOLEAN, ports : SUBSET FwPorts, protos : P, dst4 : D4, dst6 : D6, includes : T]
  BY <1>1, <1>2, <1>3, <1>7
<1> QED
  BY <1>8 DEF FwServices, P, T, D4, D6

\* What a service includes is taken over service by service.
LEMMA IncludesTrace ==
  ASSUME NEW subs \in [Texts -> FwServices], NEW def \in FwServices, NEW incs \in Seq(Texts)
  PROVE  \E t \in [0 .. Len(incs) -> FwServices] :
            /\ t[0] = def
            /\ \A i \in 1 .. Len(incs) : t[i] = Include(t[i - 1], subs[incs[i]])
            /\ FoldLeft(LAMBDA out, inc : Include(out, subs[inc]), def, incs) = t[Len(incs)]
<1> DEFINE n == Len(incs)
           A == FwServices
           first == def
           o == [p \in A \X (1 .. n) |-> Include(p[1], subs[incs[p[2]]])]
           R(h) == h = [x \in SUBSET DOMAIN incs |->
                          IF x = {} THEN def ELSE Include(h[x \ {Max(x)}], subs[incs[Max(x)]])]
           h == CHOOSE h : R(h)
<1>1. n \in Nat /\ DOMAIN incs = 1 .. n /\ \A i \in 1 .. n : incs[i] \in Texts
  OBVIOUS
<1>2. first \in A
  BY IncludeType
<1>20. \A a \in A, r \in Texts : Include(a, subs[r]) \in A
  BY IncludeType
<1>7. FoldLeft(LAMBDA out, inc : Include(out, subs[inc]), def, incs) = h[DOMAIN incs]
  BY DEF FoldLeft, MapThenFoldSet, Max
<1> HIDE DEF A
<1>3. o \in [A \X (1 .. n) -> A]
  <2>1. DOMAIN o = A \X (1 .. n)
    OBVIOUS
  <2>2. ASSUME NEW p \in A \X (1 .. n) PROVE o[p] \in A
    <3>1. p[1] \in A /\ incs[p[2]] \in Texts
      BY <1>1
    <3>2. Include(p[1], subs[incs[p[2]]]) \in A
      <4> DEFINE a == p[1]  r == incs[p[2]]
      <4> HIDE DEF a, r, n
      <4>1. Include(a, subs[r]) \in A
        BY <1>20, <3>1 DEF a, r
      <4> QED
        BY <4>1 DEF a, r
    <3>3. o[p] = Include(p[1], subs[incs[p[2]]])
      BY Zenon
    <3> HIDE DEF o
    <3> QED
      BY <3>2, <3>3
  <2>3. o = [p \in A \X (1 .. n) |-> o[p]]
    BY <2>1
  <2> HIDE DEF o, n
  <2> QED
    BY <2>2, <2>3
<1> HIDE DEF first
<1>4. PICK g \in [SUBSET (1 .. n) -> A] : Folds(g, first, o, n)
  <2> HIDE DEF o, n
  <2> QED
    BY <1>1, <1>2, <1>3, FoldExists
<1>5. R(g)
  <2>1. ASSUME NEW x \in SUBSET (1 .. n), x # {}
        PROVE  g[x] = Include(g[x \ {Max(x)}], subs[incs[Max(x)]])
    <3>1. g[x] = o[<<g[x \ {Max(x)}], Max(x)>>]
      <4> HIDE DEF o, n
      <4> QED
        BY <1>4, <2>1 DEF Folds
    <3>2. Max(x) \in 1 .. n
      BY <1>1, <2>1, MaxIn
    <3>3. g[x \ {Max(x)}] \in A
      <4> HIDE DEF o, n
      <4> QED
        OBVIOUS
    <3> DEFINE y == g[x \ {Max(x)}]  m == Max(x)
    <3>4. <<y, m>> \in A \X (1 .. n) /\ <<y, m>>[1] = y /\ <<y, m>>[2] = m
      <4> HIDE DEF y, m, n
      <4>1. y \in A /\ m \in 1 .. n
        BY <3>2, <3>3 DEF y, m
      <4> QED
        BY <4>1
    <3>5. o[<<y, m>>] = Include(y, subs[incs[m]])
      <4> HIDE DEF y, m, n
      <4>1. o[<<y, m>>] = Include(<<y, m>>[1], subs[incs[<<y, m>>[2]]])
        BY <3>4, Zenon
      <4> HIDE DEF o
      <4> QED
        BY <3>4, <4>1, Zenon
    <3> HIDE DEF o
    <3> QED
      BY <3>1, <3>5
  <2>2. g[{}] = def
    BY <1>4 DEF Folds, first
  <2>3. g = [x \in SUBSET (1 .. n) |-> g[x]]
    OBVIOUS
  <2> HIDE DEF o
  <2>4. \A x \in SUBSET (1 .. n) :
          g[x] = IF x = {} THEN def ELSE Include(g[x \ {Max(x)}], subs[incs[Max(x)]])
    BY <2>1, <2>2, Zenon
  <2> HIDE DEF n
  <2> QED
    BY <1>1, <2>3, <2>4, Zenon
<1>6. R(h)
  <2>1. \E f : R(f)
    BY <1>5, Zenon
  <2> QED
    BY <2>1, Zenon
<1> HIDE DEF h
<1>8. \A x \in SUBSET (1 .. n) :
        h[x] = IF x = {} THEN def ELSE Include(h[x \ {Max(x)}], subs[incs[Max(x)]])
  <2>1. DOMAIN incs = 1 .. n
    BY <1>1
  <2>2. \A x \in SUBSET DOMAIN incs :
        h[x] = IF x = {} THEN def ELSE Include(h[x \ {Max(x)}], subs[incs[Max(x)]])
    <3> HIDE DEF n, o
    <3> QED
      BY <1>6, Zenon
  <2> QED
    BY <2>1, <2>2, Zenon
<1>9. h[{}] = first
  BY <1>8, Zenon DEF first
<1>10. Follows(h, o, A, n)
  <2> SUFFICES ASSUME NEW i \in 1 .. n, h[1 .. i - 1] \in A
               PROVE  h[1 .. i] = o[<<h[1 .. i - 1], i>>]
    <3> HIDE DEF o, n
    <3> QED
      BY DEF Follows
  <2>1. /\ 1 .. i \in SUBSET (1 .. n) /\ 1 .. i # {}
        /\ (1 .. i) \ {i} = 1 .. i - 1 /\ Max(1 .. i) = i
    <3> HIDE DEF o, n
    <3> QED
      BY <1>1, UpTo
  <2>2. h[1 .. i] = Include(h[(1 .. i) \ {Max(1 .. i)}], subs[incs[Max(1 .. i)]])
    <3> HIDE DEF o, n
    <3> QED
      BY <1>8, <2>1, Zenon
  <2> DEFINE y == h[1 .. i - 1]
  <2>3. h[1 .. i] = Include(y, subs[incs[i]])
    <3> HIDE DEF o, n
    <3>1. (1 .. i) \ {Max(1 .. i)} = 1 .. i - 1
      BY <2>1
    <3> QED
      BY <2>1, <2>2, <3>1, Zenon
  <2>4. <<y, i>> \in A \X (1 .. n) /\ <<y, i>>[1] = y /\ <<y, i>>[2] = i
    <3> HIDE DEF y, n, o
    <3>1. y \in A
      BY DEF y
    <3> QED
      BY <3>1
  <2>5. o[<<y, i>>] = Include(y, subs[incs[i]])
    <3> HIDE DEF y, n
    <3>1. o[<<y, i>>] = Include(<<y, i>>[1], subs[incs[<<y, i>>[2]]])
      BY <2>4, Zenon
    <3> HIDE DEF o
    <3> QED
      BY <2>4, <3>1, Zenon
  <2> HIDE DEF o
  <2> QED
    BY <2>3, <2>5
<1>11. Runs(h, first, o, A, n)
  <2> HIDE DEF o, n
  <2> QED
    BY <1>1, <1>2, <1>3, <1>9, <1>10, FoldFollows
<1>12. PICK t \in [0 .. n -> A] :
         /\ t[0] = first
         /\ \A i \in 1 .. n : t[i] = o[<<t[i - 1], i>>]
         /\ h[1 .. n] = t[n]
  <2> HIDE DEF o, n
  <2> QED
    BY <1>11 DEF Runs
<1>13. ASSUME NEW i \in 1 .. n
       PROVE  t[i] = Include(t[i - 1], subs[incs[i]])
  <2> DEFINE y == t[i - 1]
  <2>1. y \in A
    <3> HIDE DEF n, o
    <3> QED
      BY <1>1
  <2>2. <<y, i>> \in A \X (1 .. n) /\ <<y, i>>[1] = y /\ <<y, i>>[2] = i
    <3> HIDE DEF y, n, o
    <3> QED
      BY <2>1
  <2>3. o[<<y, i>>] = Include(y, subs[incs[i]])
    <3> HIDE DEF y, n
    <3>1. o[<<y, i>>] = Include(<<y, i>>[1], subs[incs[<<y, i>>[2]]])
      BY <2>2, Zenon
    <3> HIDE DEF o
    <3> QED
      BY <2>2, <3>1, Zenon
  <2> HIDE DEF o
  <2> QED
    BY <1>12, <2>3
<1>14. FoldLeft(LAMBDA out, inc : Include(out, subs[inc]), def, incs) = t[n]
  <2> HIDE DEF n, o
  <2> QED
    BY <1>1, <1>7, <1>12
<1> HIDE DEF n, o
<1>15. t[0] = def
  BY <1>12 DEF first
<1>16. \A i \in 1 .. n : t[i] = Include(t[i - 1], subs[incs[i]])
  BY <1>13
<1> QED
  BY <1>14, <1>15, <1>16 DEF n, A

LEMMA WithIncludesType ==
  ASSUME NEW subs \in [Texts -> FwServices], NEW def \in FwServices
  PROVE  WithIncludes(subs, def) \in FwServices
<1> DEFINE incs == def.includes
           whole == FoldLeft(LAMBDA out, inc : Include(out, subs[inc]), def, incs)
<1>1. WithIncludes(subs, def) = whole
  BY DEF WithIncludes
<1>2. incs \in Seq(Texts)
  BY DEF FwServices
<1> HIDE DEF incs
<1>3. Len(incs) \in 0 .. Len(incs)
  BY <1>2
<1>4. PICK t \in [0 .. Len(incs) -> FwServices] : whole = t[Len(incs)]
  BY <1>2, IncludesTrace, Zenon
<1>5. t[Len(incs)] \in FwServices
  BY <1>3
<1> HIDE DEF whole
<1> QED
  BY <1>1, <1>4, <1>5

\* A service without includes is what its file says.
LEMMA WithoutIncludes ==
  ASSUME NEW subs, NEW def, def.includes = << >>
  PROVE  WithIncludes(subs, def) = def
<1> DEFINE incs == << >>
           R(h) == h = [x \in SUBSET DOMAIN incs |->
                          IF x = {} THEN def ELSE Include(h[x \ {Max(x)}], subs[incs[Max(x)]])]
           h == CHOOSE h : R(h)
<1>1. WithIncludes(subs, def) = FoldLeft(LAMBDA out, inc : Include(out, subs[inc]), def, incs)
  BY DEF WithIncludes
<1>2. FoldLeft(LAMBDA out, inc : Include(out, subs[inc]), def, incs) = h[DOMAIN incs]
  BY DEF FoldLeft, MapThenFoldSet, Max
<1>3. DOMAIN incs = {}
  OBVIOUS
<1> HIDE DEF incs
<1>4. R([x \in SUBSET DOMAIN incs |-> def])
  <2> DEFINE g == [x \in SUBSET DOMAIN incs |-> def]
  <2>1. \A x \in SUBSET DOMAIN incs : x = {}
    BY <1>3
  <2>2. \A x \in SUBSET DOMAIN incs :
          def = IF x = {} THEN def ELSE Include(g[x \ {Max(x)}], subs[incs[Max(x)]])
    BY <2>1, Zenon
  <2> QED
    BY <2>2, Zenon
<1>5. R(h)
  <2>1. \E f : R(f)
    BY <1>4, Zenon
  <2> QED
    BY <2>1, Zenon
<1> HIDE DEF h
<1>6. h[DOMAIN incs] = def
  BY <1>3, <1>5
<1> QED
  BY <1>1, <1>2, <1>6

\* Services that are looked up.
LEMMA ServiceDefType ==
  ASSUME NEW fw, IsDir(fw.services, FwServices), NEW name \in Texts
  PROVE  /\ ServiceDef(fw, name) \in FwServices /\ NoService \in FwServices
         /\ name \notin DOMAIN fw.services => ServiceDef(fw, name).includes = << >>
<1>1. NoService \in FwServices /\ NoService.includes = << >>
  <2>1. << >> \in Seq(DOMAIN FwProtos) /\ << >> \in Seq(Texts)
    OBVIOUS
  <2> DEFINE D == DOMAIN FwProtos
  <2> HIDE DEF D
  <2>2. NoService \in [ok : BOOLEAN, ports : SUBSET FwPorts, protos : Seq(D),
                       dst4 : FwDsts(FALSE), dst6 : FwDsts(TRUE), includes : Seq(Texts)]
    BY <2>1 DEF NoService, FwDsts
  <2> QED
    BY <2>2 DEF NoService, FwServices, D
<1>2. CASE name \in DOMAIN fw.services
  <2>1. fw.services[name] \in Range(fw.services)
    BY <1>2 DEF Range
  <2> QED
    BY <1>1, <1>2, <2>1 DEF ServiceDef, IsDir
<1>3. CASE name \notin DOMAIN fw.services /\ name \in DOMAIN EtcServices
  <2> DEFINE ports == EtcServices[name]
             def == [NoService EXCEPT !.ok = TRUE, !.ports = ports]
  <2>1. ports \in SUBSET FwPorts
    <3>1. EtcServices[name] \in Range(EtcServices)
      BY <1>3 DEF Range
    <3> QED
      BY <3>1, ImportersAssumption DEF IsDir
  <2>2. ServiceDef(fw, name) = def
    BY <1>3 DEF ServiceDef
  <2> HIDE DEF ports
  <2>3. def \in FwServices /\ def.includes = << >>
    BY <1>1, <2>1 DEF FwServices
  <2> QED
    BY <1>1, <1>3, <2>2, <2>3
<1>4. CASE name \notin DOMAIN fw.services /\ name \notin DOMAIN EtcServices
  BY <1>1, <1>4 DEF ServiceDef
<1> QED
  BY <1>2, <1>3, <1>4

\* What is said of services when those of "open" are being resolved.
Resolving(fw, h, open) ==
  [name \in Texts |-> IF name \in open THEN NoService
                      ELSE WithIncludes(h[open \cup {name}], ServiceDef(fw, name))]

LEMMA ResolvingType ==
  ASSUME NEW fw, IsDir(fw.services, FwServices), NEW open \in SUBSET DOMAIN fw.services, NEW h,
         \A name \in DOMAIN fw.services \ open : h[open \cup {name}] \in [Texts -> FwServices]
  PROVE  Resolving(fw, h, open) \in [Texts -> FwServices]
<1> SUFFICES ASSUME NEW name \in Texts
             PROVE  (IF name \in open THEN NoService
                     ELSE WithIncludes(h[open \cup {name}], ServiceDef(fw, name))) \in FwServices
  BY DEF Resolving
<1>1. ServiceDef(fw, name) \in FwServices /\ NoService \in FwServices
  BY ServiceDefType
<1>0. CASE name \in open
  BY <1>0, <1>1
<1>2. CASE name \in DOMAIN fw.services \ open
  <2>1. h[open \cup {name}] \in [Texts -> FwServices]
    BY <1>2
  <2> QED
    BY <1>1, <2>1, WithIncludesType
<1>3. CASE name \notin open /\ name \notin DOMAIN fw.services
  <2>1. ServiceDef(fw, name).includes = << >>
    BY <1>3, ServiceDefType
  <2>2. WithIncludes(h[open \cup {name}], ServiceDef(fw, name)) = ServiceDef(fw, name)
    BY <2>1, WithoutIncludes
  <2> QED
    BY <1>1, <2>2
<1> QED
  BY <1>0, <1>2, <1>3

\* Two that agree on the services beyond say the same.
LEMMA ResolvingSame ==
  ASSUME NEW fw, IsDir(fw.services, FwServices), NEW open \in SUBSET DOMAIN fw.services, NEW g, NEW h,
         \A name \in DOMAIN fw.services \ open : g[open \cup {name}] = h[open \cup {name}]
  PROVE  Resolving(fw, g, open) = Resolving(fw, h, open)
<1>1. ASSUME NEW name \in Texts
      PROVE  (IF name \in open THEN NoService
              ELSE WithIncludes(g[open \cup {name}], ServiceDef(fw, name)))
             = (IF name \in open THEN NoService
                ELSE WithIncludes(h[open \cup {name}], ServiceDef(fw, name)))
  <2>1. CASE name \in open
    BY <2>1
  <2>2. CASE name \in DOMAIN fw.services \ open
    <3> DEFINE a == g[open \cup {name}]  b == h[open \cup {name}]
    <3>1. a = b
      BY <2>2
    <3> HIDE DEF a, b
    <3>2. WithIncludes(a, ServiceDef(fw, name)) = WithIncludes(b, ServiceDef(fw, name))
      BY <3>1
    <3> QED
      BY <3>2 DEF a, b
  <2>3. CASE name \notin open /\ name \notin DOMAIN fw.services
    <3>1. ServiceDef(fw, name).includes = << >>
      BY <2>3, ServiceDefType
    <3> DEFINE a == g[open \cup {name}]  b == h[open \cup {name}]  def == ServiceDef(fw, name)
    <3> HIDE DEF a, b, def
    <3>2. WithIncludes(a, def) = def /\ WithIncludes(b, def) = def
      BY <3>1, WithoutIncludes DEF def
    <3> QED
      BY <2>3, <3>2 DEF a, b, def
  <2> QED
    BY <2>1, <2>2, <2>3
<1> QED
  BY <1>1, Zenon DEF Resolving

\* Services can be resolved, since with each that is open there are fewer left.
LEMMA ResolvingExists ==
  ASSUME NEW fw, IsDir(fw.services, FwServices)
  PROVE  \E h \in [SUBSET DOMAIN fw.services -> [Texts -> FwServices]] :
            h = [open \in SUBSET DOMAIN fw.services |-> Resolving(fw, h, open)]
<1> DEFINE D == DOMAIN fw.services
           F == [SUBSET D -> [Texts -> FwServices]]
           left(open) == Cardinality(D \ open)
           Right(h, m) == \A open \in SUBSET D : left(open) < m => h[open] = Resolving(fw, h, open)
           n == Cardinality(D) + 1
           T == {m \in 0 .. n : ~\E h \in F : Right(h, m)}
<1>0. IsFiniteSet(D) /\ Cardinality(D) \in Nat
  BY FS_CardinalityType DEF IsDir
<1>1. ASSUME NEW open \in SUBSET D
      PROVE  /\ left(open) \in Nat /\ left(open) < n
             /\ \A name \in D \ open : open \cup {name} \in SUBSET D /\ left(open \cup {name}) < left(open)
  <2> HIDE DEF D
  <2>1. IsFiniteSet(D \ open) /\ Cardinality(D \ open) <= Cardinality(D)
    BY <1>0, FS_Subset
  <2>2. Cardinality(D \ open) \in Nat
    BY <2>1, FS_CardinalityType
  <2>3. ASSUME NEW name \in D \ open
        PROVE  Cardinality(D \ (open \cup {name})) < Cardinality(D \ open)
    <3>1. D \ (open \cup {name}) = (D \ open) \ {name}
      OBVIOUS
    <3>2. Cardinality((D \ open) \ {name}) = Cardinality(D \ open) - 1
      BY <2>1, FS_RemoveElement
    <3> QED
      BY <2>2, <3>1, <3>2
  <2>4. left(open) \in Nat /\ left(open) < n
    BY <1>0, <2>1, <2>2
  <2>5. ASSUME NEW name \in D \ open
        PROVE  open \cup {name} \in SUBSET D /\ left(open \cup {name}) < left(open)
    BY <2>3
  <2> HIDE DEF left, n
  <2> QED
    BY <2>4, <2>5
<1>2. ASSUME NEW h \in F, NEW open \in SUBSET D PROVE Resolving(fw, h, open) \in [Texts -> FwServices]
  <2>1. \A name \in D \ open : h[open \cup {name}] \in [Texts -> FwServices]
    <3> HIDE DEF D
    <3> QED
      BY <1>1
  <2> QED
    BY <2>1, ResolvingType
<1>3. T = {}
  <2> SUFFICES ASSUME T # {} PROVE FALSE
    OBVIOUS
  <2>1. PICK m \in T : \A k \in T : m <= k
    <3>1. T \in SUBSET Nat
      BY <1>0
    <3> HIDE DEF T
    <3> QED
      BY <3>1, Smallest
  <2>2. CASE m = 0
    <3> DEFINE h == [open \in SUBSET D |-> [name \in Texts |-> NoService]]
    <3>1. h \in F
      <4>1. NoService \in FwServices
        <5>1. None \in Texts
          BY TextsAssumption
        <5> QED
          BY <5>1, ServiceDefType
      <4> HIDE DEF D
      <4> QED
        BY <4>1
    <3>2. Right(h, 0)
      <4> HIDE DEF h, D, T
      <4>1. ASSUME NEW open \in SUBSET D PROVE ~(left(open) < 0)
        <5>1. left(open) \in Nat
          BY <1>1
        <5> HIDE DEF left
        <5> QED
          BY <5>1
      <4> QED
        BY <4>1
    <3> HIDE DEF h
    <3> QED
      BY <2>1, <2>2, <3>1, <3>2
  <2>3. CASE m > 0
    <3>1. m - 1 \in 0 .. n /\ m - 1 \notin T /\ m \in Nat
      <4>1. m \in 0 .. n /\ m \in Int /\ m - 1 \in 0 .. n /\ ~(m <= m - 1) /\ m \in Nat
        BY <1>0, <2>1, <2>3
      <4> HIDE DEF T
      <4> QED
        BY <2>1, <4>1
    <3>2. PICK h \in F : Right(h, m - 1)
      BY <3>1
    <3> DEFINE g == [open \in SUBSET D |-> Resolving(fw, h, open)]
    <3>3. g \in F
      <4> HIDE DEF D
      <4> QED
        BY <1>2
    <3>4. ASSUME NEW open \in SUBSET D, left(open) < m - 1 PROVE g[open] = h[open]
      BY <3>2, <3>4
    <3>5. ASSUME NEW open \in SUBSET D, left(open) < m PROVE g[open] = Resolving(fw, g, open)
      <4>1. ASSUME NEW name \in D \ open PROVE g[open \cup {name}] = h[open \cup {name}]
        <5> DEFINE o == open \cup {name}
        <5>1. o \in SUBSET D /\ left(o) < left(open) /\ left(open) \in Nat /\ left(o) \in Nat
          BY <1>1
        <5> HIDE DEF o, D, left, g
        <5>2. left(o) < m - 1
          BY <3>1, <3>5, <5>1
        <5>3. g[o] = h[o]
          BY <3>4, <5>1, <5>2
        <5> QED
          BY <5>3 DEF o
      <4> HIDE DEF g
      <4>2. Resolving(fw, g, open) = Resolving(fw, h, open)
        BY <4>1, ResolvingSame
      <4>3. g[open] = Resolving(fw, h, open)
        BY DEF g
      <4> QED
        BY <4>2, <4>3
    <3> HIDE DEF g
    <3>6. Right(g, m)
      BY <3>5, Zenon
    <3> QED
      BY <2>1, <3>3, <3>6
  <2> QED
    <3>1. m \in Nat
      BY <1>0, <2>1
    <3> HIDE DEF T
    <3> QED
      BY <2>2, <2>3, <3>1
<1>4. PICK h \in F : Right(h, n)
  <2>1. n \in 0 .. n
    BY <1>0
  <2> HIDE DEF F, Right, n
  <2> QED
    BY <1>3, <2>1
<1>5. \A open \in SUBSET D : h[open] = Resolving(fw, h, open)
  <2> HIDE DEF left, n, D
  <2> QED
    BY <1>1, <1>4
<1>6. h = [open \in SUBSET D |-> h[open]]
  <2> HIDE DEF D
  <2> QED
    BY <1>4
<1>7. h = [open \in SUBSET D |-> Resolving(fw, h, open)]
  <2> HIDE DEF D
  <2> QED
    BY <1>5, <1>6, Zenon
<1> QED
  BY <1>4, <1>7

LEMMA ResolvedType ==
  ASSUME NEW fw, IsDir(fw.services, FwServices), NEW name \in Texts
  PROVE  Resolved(fw, name) \in FwServices
<1> DEFINE D == DOMAIN fw.services
           R(h) == h = [open \in SUBSET D |-> Resolving(fw, h, open)]
           r == CHOOSE h : R(h)
           left(open) == Cardinality(D \ open)
           T == {left(open) : open \in {o \in SUBSET D : r[o] \notin [Texts -> FwServices]}}
<1>1. ResolveService(fw) = r
  BY DEF ResolveService, Resolving
<1>2. \E h : R(h)
  BY ResolvingExists, Zenon
<1>3. R(r)
  BY <1>2, Zenon
<1> HIDE DEF r
<1>4. ASSUME NEW open \in SUBSET D
      PROVE  /\ left(open) \in Nat
             /\ \A n \in D \ open : open \cup {n} \in SUBSET D /\ left(open \cup {n}) < left(open)
  <2> HIDE DEF D
  <2>0. IsFiniteSet(D)
    BY DEF D, IsDir
  <2>1. IsFiniteSet(D \ open) /\ Cardinality(D \ open) \in Nat
    BY <2>0, FS_Subset, FS_CardinalityType
  <2>2. ASSUME NEW n \in D \ open
        PROVE  Cardinality(D \ (open \cup {n})) < Cardinality(D \ open)
    <3>1. D \ (open \cup {n}) = (D \ open) \ {n}
      OBVIOUS
    <3>2. Cardinality((D \ open) \ {n}) = Cardinality(D \ open) - 1
      BY <2>1, FS_RemoveElement
    <3> QED
      BY <2>1, <3>1, <3>2
  <2> QED
    BY <2>1, <2>2
<1>5. T = {}
  <2> SUFFICES ASSUME T # {} PROVE FALSE
    OBVIOUS
  <2>1. PICK m \in T : \A k \in T : m <= k
    <3>1. T \in SUBSET Nat
      BY <1>4
    <3> HIDE DEF T
    <3> QED
      BY <3>1, Smallest
  <2>2. PICK open \in SUBSET D : m = left(open) /\ r[open] \notin [Texts -> FwServices]
    OBVIOUS
  <2>3. ASSUME NEW n \in D \ open PROVE r[open \cup {n}] \in [Texts -> FwServices]
    <3> DEFINE o == open \cup {n}
    <3>1. o \in SUBSET D /\ left(o) < m /\ left(o) \in Nat /\ m \in Nat
      BY <1>4, <2>2
    <3>2. r[o] \notin [Texts -> FwServices] => left(o) \in T
      <4> HIDE DEF o, left, D
      <4> QED
        BY <3>1
    <3> HIDE DEF o, left, D, T
    <3>3. r[o] \in [Texts -> FwServices]
      BY <2>1, <3>1, <3>2
    <3> QED
      BY <3>3 DEF o
  <2>4. Resolving(fw, r, open) \in [Texts -> FwServices]
    BY <2>3, ResolvingType
  <2>5. r[open] = Resolving(fw, r, open)
    BY <1>3, Zenon
  <2> QED
    BY <2>2, <2>4, <2>5
<1>6. r[{}] \in [Texts -> FwServices]
  <2>1. \A o \in SUBSET D : r[o] \in [Texts -> FwServices]
    BY <1>5
  <2> QED
    BY <2>1
<1> QED
  BY <1>1, <1>6 DEF Resolved

-----------------------------------------------------------------------------
(* Templates: rules of firewalld's for a set of families.                  *)

\* Rules for packets that come in.
InRules(N) == {r \in Naming(N) : r.dir = "in"}
Ts(N) == [rule : InRules(N), families : SUBSET Both]

RProto(r, x) == [r EXCEPT !.proto = x]
LEMMA RProtoType ==
  ASSUME NEW N, NEW r \in InRules(N), NEW x \in Texts
  PROVE  RProto(r, x) \in InRules(N)
<1>1. r \in Listed
  BY DEF InRules, Naming
<1>2. [r EXCEPT !.proto = x] \in Listed
  BY <1>1 DEF Listed
<1>3. /\ [r EXCEPT !.proto = x].src = r.src /\ [r EXCEPT !.proto = x].dst = r.dst
      /\ [r EXCEPT !.proto = x].dir = r.dir
  BY <1>1 DEF Listed
<1> QED
  BY <1>2, <1>3 DEF RProto, InRules, Naming

RIif(r, x) == [r EXCEPT !.iif = x]
LEMMA RIifType ==
  ASSUME NEW N, NEW r \in InRules(N), NEW x \in Texts
  PROVE  RIif(r, x) \in InRules(N)
<1>1. r \in Listed
  BY DEF InRules, Naming
<1>2. [r EXCEPT !.iif = x] \in Listed
  BY <1>1 DEF Listed
<1>3. /\ [r EXCEPT !.iif = x].src = r.src /\ [r EXCEPT !.iif = x].dst = r.dst
      /\ [r EXCEPT !.iif = x].dir = r.dir
  BY <1>1 DEF Listed
<1> QED
  BY <1>2, <1>3 DEF RIif, InRules, Naming

RLog(r, x) == [r EXCEPT !.log = x]
LEMMA RLogType ==
  ASSUME NEW N, NEW r \in InRules(N), NEW x \in Texts
  PROVE  RLog(r, x) \in InRules(N)
<1>1. r \in Listed
  BY DEF InRules, Naming
<1>2. [r EXCEPT !.log = x] \in Listed
  BY <1>1 DEF Listed
<1>3. /\ [r EXCEPT !.log = x].src = r.src /\ [r EXCEPT !.log = x].dst = r.dst
      /\ [r EXCEPT !.log = x].dir = r.dir
  BY <1>1 DEF Listed
<1> QED
  BY <1>2, <1>3 DEF RLog, InRules, Naming

RIcmp(r, x) == [r EXCEPT !.icmp = x]
LEMMA RIcmpType ==
  ASSUME NEW N, NEW r \in InRules(N), NEW x \in Int
  PROVE  RIcmp(r, x) \in InRules(N)
<1>1. r \in Listed
  BY DEF InRules, Naming
<1>2. [r EXCEPT !.icmp = x] \in Listed
  BY <1>1 DEF Listed
<1>3. /\ [r EXCEPT !.icmp = x].src = r.src /\ [r EXCEPT !.icmp = x].dst = r.dst
      /\ [r EXCEPT !.icmp = x].dir = r.dir
  BY <1>1 DEF Listed
<1> QED
  BY <1>2, <1>3 DEF RIcmp, InRules, Naming

RSrcNet(r, x) == [r EXCEPT !.src.net = x]
LEMMA RSrcNetType ==
  ASSUME NEW N, NEW r \in InRules(N), NEW x \in Nets \cup {NoNet}
  PROVE  RSrcNet(r, x) \in InRules(N)
<1> DEFINE e == [r.src EXCEPT !.net = x]
<1>1. r \in Listed /\ r.src \in Ends
  BY DEF InRules, Naming, Listed
<1>2. e \in Ends /\ e.set \in {r.src.set, x} /\ e.set = r.src.set
  BY <1>1 DEF Ends
<1>3. RSrcNet(r, x) = [r EXCEPT !.src = e]
  BY DEF RSrcNet
<1> HIDE DEF e
<1>4. [r EXCEPT !.src = e] \in Listed
  BY <1>1, <1>2 DEF Listed
<1>5. /\ [r EXCEPT !.src = e].src = e /\ [r EXCEPT !.src = e].dst = r.dst
      /\ [r EXCEPT !.src = e].dir = r.dir
  BY <1>1 DEF Listed
<1> QED
  BY <1>2, <1>3, <1>4, <1>5 DEF InRules, Naming

RSrcSet(r, x) == [r EXCEPT !.src.set = x]
LEMMA RSrcSetType ==
  ASSUME NEW N, NEW r \in InRules(N), NEW x \in Texts, x \in N \cup {NoSet}
  PROVE  RSrcSet(r, x) \in InRules(N)
<1> DEFINE e == [r.src EXCEPT !.set = x]
<1>1. r \in Listed /\ r.src \in Ends
  BY DEF InRules, Naming, Listed
<1>2. e \in Ends /\ e.set \in {r.src.set, x}
  BY <1>1 DEF Ends
<1>3. RSrcSet(r, x) = [r EXCEPT !.src = e]
  BY DEF RSrcSet
<1> HIDE DEF e
<1>4. [r EXCEPT !.src = e] \in Listed
  BY <1>1, <1>2 DEF Listed
<1>5. /\ [r EXCEPT !.src = e].src = e /\ [r EXCEPT !.src = e].dst = r.dst
      /\ [r EXCEPT !.src = e].dir = r.dir
  BY <1>1 DEF Listed
<1> QED
  BY <1>2, <1>3, <1>4, <1>5 DEF InRules, Naming

RSrcPorts(r, x) == [r EXCEPT !.src.ports = x]
LEMMA RSrcPortsType ==
  ASSUME NEW N, NEW r \in InRules(N), NEW x \in SUBSET PortRanges
  PROVE  RSrcPorts(r, x) \in InRules(N)
<1> DEFINE e == [r.src EXCEPT !.ports = x]
<1>1. r \in Listed /\ r.src \in Ends
  BY DEF InRules, Naming, Listed
<1>2. e \in Ends /\ e.set \in {r.src.set, x} /\ e.set = r.src.set
  BY <1>1 DEF Ends
<1>3. RSrcPorts(r, x) = [r EXCEPT !.src = e]
  BY DEF RSrcPorts
<1> HIDE DEF e
<1>4. [r EXCEPT !.src = e] \in Listed
  BY <1>1, <1>2 DEF Listed
<1>5. /\ [r EXCEPT !.src = e].src = e /\ [r EXCEPT !.src = e].dst = r.dst
      /\ [r EXCEPT !.src = e].dir = r.dir
  BY <1>1 DEF Listed
<1> QED
  BY <1>2, <1>3, <1>4, <1>5 DEF InRules, Naming

RDstNet(r, x) == [r EXCEPT !.dst.net = x]
LEMMA RDstNetType ==
  ASSUME NEW N, NEW r \in InRules(N), NEW x \in Nets \cup {NoNet}
  PROVE  RDstNet(r, x) \in InRules(N)
<1> DEFINE e == [r.dst EXCEPT !.net = x]
<1>1. r \in Listed /\ r.dst \in Ends
  BY DEF InRules, Naming, Listed
<1>2. e \in Ends /\ e.set \in {r.dst.set, x} /\ e.set = r.dst.set
  BY <1>1 DEF Ends
<1>3. RDstNet(r, x) = [r EXCEPT !.dst = e]
  BY DEF RDstNet
<1> HIDE DEF e
<1>4. [r EXCEPT !.dst = e] \in Listed
  BY <1>1, <1>2 DEF Listed
<1>5. /\ [r EXCEPT !.dst = e].dst = e /\ [r EXCEPT !.dst = e].src = r.src
      /\ [r EXCEPT !.dst = e].dir = r.dir
  BY <1>1 DEF Listed
<1> QED
  BY <1>2, <1>3, <1>4, <1>5 DEF InRules, Naming

RDstSet(r, x) == [r EXCEPT !.dst.set = x]
LEMMA RDstSetType ==
  ASSUME NEW N, NEW r \in InRules(N), NEW x \in Texts, x \in N \cup {NoSet}
  PROVE  RDstSet(r, x) \in InRules(N)
<1> DEFINE e == [r.dst EXCEPT !.set = x]
<1>1. r \in Listed /\ r.dst \in Ends
  BY DEF InRules, Naming, Listed
<1>2. e \in Ends /\ e.set \in {r.dst.set, x}
  BY <1>1 DEF Ends
<1>3. RDstSet(r, x) = [r EXCEPT !.dst = e]
  BY DEF RDstSet
<1> HIDE DEF e
<1>4. [r EXCEPT !.dst = e] \in Listed
  BY <1>1, <1>2 DEF Listed
<1>5. /\ [r EXCEPT !.dst = e].dst = e /\ [r EXCEPT !.dst = e].src = r.src
      /\ [r EXCEPT !.dst = e].dir = r.dir
  BY <1>1 DEF Listed
<1> QED
  BY <1>2, <1>3, <1>4, <1>5 DEF InRules, Naming

RDstPorts(r, x) == [r EXCEPT !.dst.ports = x]
LEMMA RDstPortsType ==
  ASSUME NEW N, NEW r \in InRules(N), NEW x \in SUBSET PortRanges
  PROVE  RDstPorts(r, x) \in InRules(N)
<1> DEFINE e == [r.dst EXCEPT !.ports = x]
<1>1. r \in Listed /\ r.dst \in Ends
  BY DEF InRules, Naming, Listed
<1>2. e \in Ends /\ e.set \in {r.dst.set, x} /\ e.set = r.dst.set
  BY <1>1 DEF Ends
<1>3. RDstPorts(r, x) = [r EXCEPT !.dst = e]
  BY DEF RDstPorts
<1> HIDE DEF e
<1>4. [r EXCEPT !.dst = e] \in Listed
  BY <1>1, <1>2 DEF Listed
<1>5. /\ [r EXCEPT !.dst = e].dst = e /\ [r EXCEPT !.dst = e].src = r.src
      /\ [r EXCEPT !.dst = e].dir = r.dir
  BY <1>1 DEF Listed
<1> QED
  BY <1>2, <1>3, <1>4, <1>5 DEF InRules, Naming

TRule(t, r) == [t EXCEPT !.rule = r]
TFam(t, F) == [t EXCEPT !.families = F]

LEMMA TsParts ==
  ASSUME NEW N, NEW t \in Ts(N)
  PROVE  t.rule \in InRules(N) /\ t.families \in SUBSET Both
BY DEF Ts

LEMMA TRuleType ==
  ASSUME NEW N, NEW t \in Ts(N), NEW r \in InRules(N)
  PROVE  TRule(t, r) \in Ts(N)
BY DEF Ts, TRule

LEMMA TFamType ==
  ASSUME NEW N, NEW t \in Ts(N), NEW F \in SUBSET Both
  PROVE  TFam(t, F) \in Ts(N)
BY DEF Ts, TFam

TProto(t, x) == [t EXCEPT !.rule.proto = x]
LEMMA TProtoType ==
  ASSUME NEW N, NEW t \in Ts(N), NEW x \in Texts
  PROVE  TProto(t, x) \in Ts(N)
<1>1. TProto(t, x) = TRule(t, RProto(t.rule, x))
  BY DEF TProto, TRule, RProto
<1> QED
  BY <1>1, TsParts, TRuleType, RProtoType

TLog(t, x) == [t EXCEPT !.rule.log = x]
LEMMA TLogType ==
  ASSUME NEW N, NEW t \in Ts(N), NEW x \in Texts
  PROVE  TLog(t, x) \in Ts(N)
<1>1. TLog(t, x) = TRule(t, RLog(t.rule, x))
  BY DEF TLog, TRule, RLog
<1> QED
  BY <1>1, TsParts, TRuleType, RLogType

TIcmp(t, x) == [t EXCEPT !.rule.icmp = x]
LEMMA TIcmpType ==
  ASSUME NEW N, NEW t \in Ts(N), NEW x \in Int
  PROVE  TIcmp(t, x) \in Ts(N)
<1>1. TIcmp(t, x) = TRule(t, RIcmp(t.rule, x))
  BY DEF TIcmp, TRule, RIcmp
<1> QED
  BY <1>1, TsParts, TRuleType, RIcmpType

TSrcNet(t, x) == [t EXCEPT !.rule.src.net = x]
LEMMA TSrcNetType ==
  ASSUME NEW N, NEW t \in Ts(N), NEW x \in Nets \cup {NoNet}
  PROVE  TSrcNet(t, x) \in Ts(N)
<1>1. TSrcNet(t, x) = TRule(t, RSrcNet(t.rule, x))
  BY DEF TSrcNet, TRule, RSrcNet
<1> QED
  BY <1>1, TsParts, TRuleType, RSrcNetType

TSrcSet(t, x) == [t EXCEPT !.rule.src.set = x]
LEMMA TSrcSetType ==
  ASSUME NEW N, NEW t \in Ts(N), NEW x \in Texts, x \in N \cup {NoSet}
  PROVE  TSrcSet(t, x) \in Ts(N)
<1>1. TSrcSet(t, x) = TRule(t, RSrcSet(t.rule, x))
  BY DEF TSrcSet, TRule, RSrcSet
<1> QED
  BY <1>1, TsParts, TRuleType, RSrcSetType

TSrcPorts(t, x) == [t EXCEPT !.rule.src.ports = x]
LEMMA TSrcPortsType ==
  ASSUME NEW N, NEW t \in Ts(N), NEW x \in SUBSET PortRanges
  PROVE  TSrcPorts(t, x) \in Ts(N)
<1>1. TSrcPorts(t, x) = TRule(t, RSrcPorts(t.rule, x))
  BY DEF TSrcPorts, TRule, RSrcPorts
<1> QED
  BY <1>1, TsParts, TRuleType, RSrcPortsType

TDstNet(t, x) == [t EXCEPT !.rule.dst.net = x]
LEMMA TDstNetType ==
  ASSUME NEW N, NEW t \in Ts(N), NEW x \in Nets \cup {NoNet}
  PROVE  TDstNet(t, x) \in Ts(N)
<1>1. TDstNet(t, x) = TRule(t, RDstNet(t.rule, x))
  BY DEF TDstNet, TRule, RDstNet
<1> QED
  BY <1>1, TsParts, TRuleType, RDstNetType

TDstSet(t, x) == [t EXCEPT !.rule.dst.set = x]
LEMMA TDstSetType ==
  ASSUME NEW N, NEW t \in Ts(N), NEW x \in Texts, x \in N \cup {NoSet}
  PROVE  TDstSet(t, x) \in Ts(N)
<1>1. TDstSet(t, x) = TRule(t, RDstSet(t.rule, x))
  BY DEF TDstSet, TRule, RDstSet
<1> QED
  BY <1>1, TsParts, TRuleType, RDstSetType

TDstPorts(t, x) == [t EXCEPT !.rule.dst.ports = x]
LEMMA TDstPortsType ==
  ASSUME NEW N, NEW t \in Ts(N), NEW x \in SUBSET PortRanges
  PROVE  TDstPorts(t, x) \in Ts(N)
<1>1. TDstPorts(t, x) = TRule(t, RDstPorts(t.rule, x))
  BY DEF TDstPorts, TRule, RDstPorts
<1> QED
  BY <1>1, TsParts, TRuleType, RDstPortsType

LEMMA TemplateType ==
  ASSUME NEW N, NEW a \in Texts, NEW F \in SUBSET Both
  PROVE  Template(a, F) \in Ts(N) /\ PlainRule(a, "in") \in InRules(N)
<1>1. "in" \in Directions
  BY DEF Directions
<1>2. PlainRule(a, "in") \in Naming({}) /\ PlainRule(a, "in").dir = "in"
  BY <1>1, PlainIs
<1>3. PlainRule(a, "in") \in Naming(N)
  BY <1>2, NamingGrows
<1> QED
  BY <1>2, <1>3 DEF Template, Ts, InRules

\* The protocols that bfw knows have families.
LEMMA FwProtosType ==
  /\ \A p \in DOMAIN FwProtos : FwProtos[p] \in SUBSET Both /\ p \in Texts
  /\ {"icmp", "icmpv6"} \subseteq DOMAIN FwProtos
<1>1. \A p \in DOMAIN FwProtos : p \in Texts
  BY ImportersAssumption
<1>2. {"icmp", "icmpv6"} \subseteq DOMAIN FwProtos
  BY DEF FwProtos
<1>3. ASSUME NEW p \in DOMAIN FwProtos PROVE FwProtos[p] \in {Both, {FALSE}, {TRUE}}
  BY <1>3 DEF FwProtos
<1>4. {Both, {FALSE}, {TRUE}} \subseteq SUBSET Both
  BY DEF Both
<1> QED
  BY <1>1, <1>2, <1>3, <1>4

\* A condition on the destination.
LEMMA WithDstType ==
  ASSUME NEW N, NEW t \in Ts(N), NEW def \in FwServices
  PROVE  WithDst(t, def) \in Seq(Ts(N))
<1> DEFINE four == TFam(TDstNet(t, def.dst4), TDstNet(t, def.dst4).families \cap {FALSE})
           six  == TFam(TDstNet(t, def.dst6), TDstNet(t, def.dst6).families \cap {TRUE})
<1>0. def.dst4 \in Nets \cup {NoNet} /\ def.dst6 \in Nets \cup {NoNet}
  BY DEF FwServices, FwPorts, FwDsts
<1>1. TDstNet(t, def.dst4) \in Ts(N) /\ TDstNet(t, def.dst6) \in Ts(N)
  BY <1>0, TDstNetType
<1>2. four \in Ts(N)
  <2>1. TDstNet(t, def.dst4).families \cap {FALSE} \in SUBSET Both
    BY <1>1, TsParts
  <2> QED
    BY <1>1, <2>1, TFamType
<1>3. six \in Ts(N)
  <2>1. TDstNet(t, def.dst6).families \cap {TRUE} \in SUBSET Both
    BY <1>1, TsParts
  <2> QED
    BY <1>1, <2>1, TFamType
<1>4. WithDst(t, def) =
        IF NoNet = def.dst4 /\ NoNet = def.dst6 THEN <<t>>
        ELSE (IF def.dst4 = NoNet THEN <<>> ELSE <<four>>) \o (IF def.dst6 = NoNet THEN <<>> ELSE <<six>>)
  BY DEF WithDst, TFam, TDstNet
<1> HIDE DEF four, six
<1>5. <<t>> \in Seq(Ts(N)) /\ <<four>> \in Seq(Ts(N)) /\ <<six>> \in Seq(Ts(N)) /\ <<>> \in Seq(Ts(N))
  BY <1>2, <1>3
<1> DEFINE a == IF def.dst4 = NoNet THEN <<>> ELSE <<four>>
           b == IF def.dst6 = NoNet THEN <<>> ELSE <<six>>
<1>6. a \in Seq(Ts(N)) /\ b \in Seq(Ts(N))
  BY <1>5
<1> HIDE DEF a, b
<1>7. a \o b \in Seq(Ts(N))
  BY <1>6
<1>8. WithDst(t, def) = <<t>> \/ WithDst(t, def) = a \o b
  BY <1>4 DEF a, b
<1> QED
  BY <1>5, <1>7, <1>8

LEMMA ProtoOfPortsType ==
  ASSUME NEW ports
  PROVE  ProtoOfPorts(ports) \in Texts
<1> DEFINE protos == {q.proto : q \in ports}
<1>1. protos \in {{"tcp"}, {"udp"}} => (CHOOSE p \in protos : TRUE) \in {"tcp", "udp"}
  <2> HIDE DEF protos
  <2> QED
    OBVIOUS
<1>2. ProtoOfPorts(ports) \in {"tcp", "udp", "any"}
  <2>1. ProtoOfPorts(ports) = IF protos \in {{"tcp"}, {"udp"}} THEN CHOOSE p \in protos : TRUE ELSE "any"
    BY DEF ProtoOfPorts
  <2> HIDE DEF protos
  <2> QED
    BY <1>1, <2>1
<1> QED
  BY <1>2, TextsAssumption

\* The rules of a service.
LEMMA EmitServiceType ==
  ASSUME NEW N, NEW def \in FwServices
  PROVE  EmitService(def) \in Seq(Ts(N))
<1> DEFINE protos == def.protos
           n == Len(protos)
           seqs == [i \in DOMAIN protos |->
                      WithDst([Template("allow", FwProtos[protos[i]]) EXCEPT !.rule.proto = protos[i]], def)]
           t == TDstPorts(TProto(Template("allow", Both), ProtoOfPorts(def.ports)), def.ports)
           first == IF def.ports = {} THEN <<>> ELSE WithDst(t, def)
<1>1. EmitService(def) = first \o FlattenSeq(seqs)
  BY DEF EmitService, TDstPorts, TProto
<1>2. def.ports \in SUBSET PortRanges /\ protos \in Seq(DOMAIN FwProtos) /\ "allow" \in Texts
  BY TextsAssumption DEF FwServices, FwPorts, FwDsts
<1>3. t \in Ts(N)
  <2>1. Template("allow", Both) \in Ts(N)
    BY <1>2, TemplateType
  <2>2. TProto(Template("allow", Both), ProtoOfPorts(def.ports)) \in Ts(N)
    BY <2>1, ProtoOfPortsType, TProtoType
  <2> QED
    BY <1>2, <2>2, TDstPortsType
<1> HIDE DEF t
<1>4. first \in Seq(Ts(N))
  <2>1. WithDst(t, def) \in Seq(Ts(N))
    BY <1>3, WithDstType
  <2> QED
    BY <2>1
<1> DEFINE D == DOMAIN FwProtos
<1> HIDE DEF protos, D, first
<1>5. n \in Nat /\ DOMAIN protos = 1 .. n /\ \A i \in 1 .. n : protos[i] \in D
  <2>1. protos \in Seq(D)
    BY <1>2 DEF D
  <2> QED
    BY <2>1
<1>6. ASSUME NEW i \in 1 .. n PROVE seqs[i] \in Seq(Ts(N))
  <2> DEFINE p == protos[i]
  <2>1. p \in D
    BY <1>5
  <2>2. seqs[i] = WithDst(TProto(Template("allow", FwProtos[p]), p), def)
    BY <1>5 DEF TProto
  <2> HIDE DEF p, seqs
  <2>3. FwProtos[p] \in SUBSET Both /\ p \in Texts
    BY <2>1, FwProtosType DEF D
  <2>4. TProto(Template("allow", FwProtos[p]), p) \in Ts(N)
    BY <1>2, <2>3, TemplateType, TProtoType
  <2> QED
    BY <2>2, <2>4, WithDstType
<1>7. seqs = [i \in 1 .. n |-> seqs[i]]
  BY <1>5
<1> HIDE DEF seqs
<1>8. FlattenSeq(seqs) \in Seq(Ts(N))
  <2> HIDE DEF n
  <2> QED
    BY <1>5, <1>6, <1>7, PickedType
<1> QED
  BY <1>1, <1>4, <1>8

-----------------------------------------------------------------------------
(* The rules of firewalld's configuration.                                 *)

\* The sets that its rules may name.
SetNames(fw) == DOMAIN FwSets(fw)

LEMMA EndParts ==
  ASSUME NEW fw, NEW end \in FwEnds, EndFits(fw, end)
  PROVE  /\ end.net \in Nets \cup {NoNet} /\ end.set \in Texts
         /\ end.set \in SetNames(fw) \cup {NoSet}
BY DEF FwEnds, EndFits, SetNames

\* A template for one protocol.
LEMMA OfProtoType ==
  ASSUME NEW N, NEW t \in Ts(N), NEW p \in DOMAIN FwProtos
  PROVE  OfProto(t, p) \in Ts(N)
<1> DEFINE families == TProto(t, p).families \cap FwProtos[p]
<1>1. p \in Texts /\ FwProtos[p] \in SUBSET Both
  BY FwProtosType
<1>2. TProto(t, p) \in Ts(N)
  BY <1>1, TProtoType
<1>3. families \in SUBSET Both
  BY <1>2, TsParts
<1>4. OfProto(t, p) = TFam(TProto(t, p), families)
  BY DEF OfProto, TFam, TProto
<1> HIDE DEF families
<1> QED
  BY <1>2, <1>3, <1>4, TFamType

\* A rich rule, but for what it matches.
LEMMA RichTemplateType ==
  ASSUME NEW fw, NEW e \in FwElems, RichFits(fw, e)
  PROVE  RichTemplate(fw, e) \in Ts(SetNames(fw))
<1> DEFINE N == SetNames(fw)
           verdict == FwVerdicts[e.verdict]
           families == RichFamilies(fw, e)
           plain == Template(verdict, families)
           log == IF e.log THEN "log-all" ELSE None
           t1 == TSrcNet(plain, e.src.net)
           t2 == TSrcSet(t1, e.src.set)
           t3 == TDstNet(t2, e.dst.net)
           t4 == TDstSet(t3, e.dst.set)
<1>1. e.src \in FwEnds /\ e.dst \in FwEnds /\ e.families \in SUBSET Both
  BY DEF FwElems, FwElemFields
<1>2. e.verdict \in DOMAIN FwVerdicts /\ EndFits(fw, e.src) /\ EndFits(fw, e.dst)
  BY DEF RichFits
<1>3. verdict \in Texts
  <2>1. verdict \in {"allow", "deny", "reject"}
    BY <1>2 DEF FwVerdicts
  <2> HIDE DEF verdict
  <2> QED
    BY <2>1, TextsAssumption
<1>4. families \in SUBSET Both
  BY <1>1 DEF RichFamilies
<1>5. log \in Texts
  BY TextsAssumption
<1>6. RichTemplate(fw, e) = TLog(t4, log)
  BY DEF RichTemplate, TLog, TSrcNet, TSrcSet, TDstNet, TDstSet
<1>7. /\ e.src.net \in Nets \cup {NoNet} /\ e.src.set \in Texts /\ e.src.set \in N \cup {NoSet}
      /\ e.dst.net \in Nets \cup {NoNet} /\ e.dst.set \in Texts /\ e.dst.set \in N \cup {NoSet}
  <2> HIDE DEF N
  <2> QED
    BY <1>1, <1>2, EndParts DEF N
<1> HIDE DEF N, verdict, families, log
<1>8. plain \in Ts(N)
  BY <1>3, <1>4, TemplateType
<1> HIDE DEF plain
<1>9. t1 \in Ts(N)
  BY <1>7, <1>8, TSrcNetType
<1> HIDE DEF t1
<1>10. t2 \in Ts(N)
  BY <1>7, <1>9, TSrcSetType
<1> HIDE DEF t2
<1>11. t3 \in Ts(N)
  BY <1>7, <1>10, TDstNetType
<1> HIDE DEF t3
<1>12. t4 \in Ts(N)
  BY <1>7, <1>11, TDstSetType
<1> HIDE DEF t4
<1> QED
  BY <1>5, <1>6, <1>12, TLogType DEF N

LEMMA RichRuleType ==
  ASSUME NEW fw, IsDir(fw.services, FwServices), NEW e \in FwElems, RichFits(fw, e)
  PROVE  RichRule(fw, e) \in Ts(SetNames(fw))
<1> DEFINE N == SetNames(fw)
           t == RichTemplate(fw, e)
           def == Resolved(fw, e.name)
<1>1. /\ e.proto \in Texts /\ e.ports \in SUBSET PortRanges /\ e.icmp \in Int /\ e.name \in Texts
      /\ e.match \in {None, "port", "source-port", "protocol", "icmp-type", "service"}
  BY DEF FwElems, FwElemFields
<1>2. /\ e.match = "service" => RichService(def)
      /\ e.match = "protocol" => e.proto \in DOMAIN FwProtos
  BY DEF RichFits
<1>6. def \in FwServices
  BY <1>1, ResolvedType
<1>8. t \in Ts(N)
  BY RichTemplateType
<1> DEFINE port == TProto(TDstPorts(t, e.ports), e.proto)
           sport == TProto(TSrcPorts(t, e.ports), e.proto)
           type == TIcmp(OfProto(t, IF TRUE \in t.families THEN "icmpv6" ELSE "icmp"), e.icmp)
           ported == TDstPorts(t, def.ports)
           byProto == OfProto(t, e.proto)
           byDef == OfProto(t, def.protos[1])
<1>9. RichRule(fw, e) =
        CASE e.match = "port"        -> port
          [] e.match = "source-port" -> sport
          [] e.match = "protocol"    -> byProto
          [] e.match = "icmp-type"   -> type
          [] e.match = "service"     -> IF def.ports = {} THEN byDef ELSE ported
          [] e.match = None          -> t
  BY DEF RichRule, TProto, TDstPorts, TSrcPorts, TIcmp
<1> HIDE DEF t
<1>11. port \in Ts(N) /\ sport \in Ts(N)
  <2> HIDE DEF N
  <2>1. TDstPorts(t, e.ports) \in Ts(N) /\ TSrcPorts(t, e.ports) \in Ts(N)
    BY <1>1, <1>8, TDstPortsType, TSrcPortsType
  <2> QED
    BY <1>1, <2>1, TProtoType
<1>12. type \in Ts(N)
  <2> DEFINE p == IF TRUE \in t.families THEN "icmpv6" ELSE "icmp"
  <2>1. p \in DOMAIN FwProtos
    BY FwProtosType
  <2> HIDE DEF N, p
  <2>2. OfProto(t, p) \in Ts(N)
    BY <1>8, <2>1, OfProtoType
  <2>3. TIcmp(OfProto(t, p), e.icmp) \in Ts(N)
    BY <1>1, <2>2, TIcmpType
  <2> QED
    BY <2>3 DEF p
<1>13. ported \in Ts(N)
  <2>1. def.ports \in SUBSET PortRanges
    BY <1>6 DEF FwServices, FwPorts, FwDsts
  <2> HIDE DEF N, def
  <2> QED
    BY <1>8, <2>1, TDstPortsType
<1>14. e.match = "protocol" => byProto \in Ts(N)
  <2> HIDE DEF N
  <2> QED
    BY <1>2, <1>8, OfProtoType
<1>15. e.match = "service" /\ def.ports = {} => byDef \in Ts(N)
  <2> SUFFICES ASSUME e.match = "service", def.ports = {} PROVE byDef \in Ts(N)
    OBVIOUS
  <2>1. Len(def.protos) = 1
    BY <1>2 DEF RichService
  <2>2. def.protos[1] \in DOMAIN FwProtos
    <3> DEFINE D == DOMAIN FwProtos  protos == def.protos
    <3>1. protos \in Seq(D)
      BY <1>6 DEF FwServices, FwPorts, FwDsts
    <3> HIDE DEF D, protos
    <3>2. protos[1] \in D
      <4>1. Len(protos) = 1 /\ 1 \in 1 .. Len(protos)
        BY <2>1 DEF protos
      <4>2. \A k \in 1 .. Len(protos) : protos[k] \in D
        BY <3>1
      <4> QED
        BY <4>1, <4>2, Zenon
    <3> QED
      BY <3>2 DEF D, protos
  <2> DEFINE p == def.protos[1]
  <2> HIDE DEF N, p
  <2>3. OfProto(t, p) \in Ts(N)
    BY <1>8, <2>2, OfProtoType DEF p
  <2> QED
    BY <2>3 DEF p
<1> HIDE DEF N, port, sport, type, ported, byProto, byDef, def
<1>16. None \notin {"port", "source-port", "protocol", "icmp-type", "service"}
  BY DEF None
<1>17. \/ RichRule(fw, e) \in {port, sport, type, ported, t}
       \/ e.match = "protocol" /\ RichRule(fw, e) = byProto
       \/ e.match = "service" /\ def.ports = {} /\ RichRule(fw, e) = byDef
  BY <1>1, <1>9, <1>16
<1> QED
  BY <1>8, <1>11, <1>12, <1>13, <1>14, <1>15, <1>17 DEF N

\* An element of a zone.
LEMMA ZoneElemType ==
  ASSUME NEW fw, IsDir(fw.services, FwServices), NEW e \in FwElems, ElemFits(fw, e)
  PROVE  ZoneElem(fw, e) \in Seq(Ts(SetNames(fw)))
<1> DEFINE N == SetNames(fw)
           T == Ts(N)
           all == Template("allow", Both)
           port == TDstPorts(TProto(all, e.proto), e.ports)
           sport == TSrcPorts(TProto(all, e.proto), e.ports)
           proto == TProto(Template("allow", FwProtos[e.proto]), e.proto)
           service == EmitService(Resolved(fw, e.name))
           rich == RichRule(fw, e)
<1>1. /\ e.proto \in Texts /\ e.ports \in SUBSET PortRanges /\ e.name \in Texts /\ "allow" \in Texts
  BY TextsAssumption DEF FwElems, FwElemFields
<1>2. ZoneElem(fw, e) =
        CASE e.kind = "port"        -> <<port>>
          [] e.kind = "source-port" -> <<sport>>
          [] e.kind = "protocol"    -> <<proto>>
          [] e.kind = "service"     -> service
          [] e.kind = "rule"        -> <<rich>>
  BY DEF ZoneElem, TProto, TDstPorts, TSrcPorts
<1>3. port \in T /\ sport \in T
  <2> HIDE DEF N
  <2>1. TProto(all, e.proto) \in Ts(N)
    BY <1>1, TemplateType, TProtoType
  <2> HIDE DEF all
  <2> QED
    BY <1>1, <2>1, TDstPortsType, TSrcPortsType
<1>4. e.kind = "protocol" => proto \in T
  <2> SUFFICES ASSUME e.kind = "protocol" PROVE proto \in T
    OBVIOUS
  <2>1. e.proto \in DOMAIN FwProtos
    BY DEF ElemFits
  <2>2. FwProtos[e.proto] \in SUBSET Both
    BY <2>1, FwProtosType
  <2> HIDE DEF N
  <2>3. Template("allow", FwProtos[e.proto]) \in Ts(N)
    BY <1>1, <2>2, TemplateType
  <2> QED
    BY <1>1, <2>3, TProtoType
<1>5. service \in Seq(T)
  <2>1. Resolved(fw, e.name) \in FwServices
    BY <1>1, ResolvedType
  <2> QED
    BY <2>1, EmitServiceType
<1>6. e.kind = "rule" => rich \in T
  <2>1. e.kind = "rule" => RichFits(fw, e)
    BY DEF ElemFits
  <2> QED
    BY <2>1, RichRuleType
<1>7. e.kind \in {"port", "source-port", "protocol", "service", "rule"}
  BY Zenon DEF ElemFits
<1> HIDE DEF N, T, port, sport, proto, service, rich
<1> QED
  BY <1>2, <1>3, <1>4, <1>5, <1>6, <1>7 DEF T, N

\* The templates of a zone.
LEMMA TemplatesType ==
  ASSUME NEW fw, IsDir(fw.services, FwServices), NEW z, fw.zones[z] \in FwZones, ZoneFits(fw, z)
  PROVE  Templates(fw, z) \in Seq(Ts(SetNames(fw)))
<1> DEFINE elems == fw.zones[z].elems
           n == Len(elems)
           T == Ts(SetNames(fw))
           seqs == [i \in DOMAIN elems |-> ZoneElem(fw, elems[i])]
<1>1. elems \in Seq(FwElems)
  BY DEF FwZones
<1>2. \A i \in DOMAIN elems : ElemFits(fw, elems[i])
  BY Zenon DEF ZoneFits
<1>3. Templates(fw, z) = FlattenSeq(seqs)
  BY DEF Templates
<1> HIDE DEF elems
<1>4. n \in Nat /\ DOMAIN elems = 1 .. n /\ \A i \in 1 .. n : elems[i] \in FwElems
  BY <1>1
<1>5. ASSUME NEW i \in 1 .. n PROVE seqs[i] \in Seq(T)
  <2> DEFINE e == elems[i]
  <2>1. e \in FwElems /\ ElemFits(fw, e)
    BY <1>2, <1>4
  <2>2. seqs[i] = ZoneElem(fw, e)
    BY <1>4
  <2> HIDE DEF e, seqs
  <2> QED
    BY <2>1, <2>2, ZoneElemType
<1>6. seqs = [i \in 1 .. n |-> seqs[i]]
  BY <1>4
<1> HIDE DEF seqs, T, n
<1> QED
  BY <1>3, <1>4, <1>5, <1>6, PickedType DEF T

\* What a binding is.
FwBindings == [iface : Texts, src : FwEnds]

LEMMA BindingsType ==
  ASSUME NEW fw, NEW z, fw.zones[z] \in FwZones, ParsesZone(fw, fw.zones[z])
  PROVE  /\ Bindings(fw, z) \in Seq(FwBindings)
         /\ \A j \in DOMAIN Bindings(fw, z) : EndFits(fw, Bindings(fw, z)[j].src)
<1>1. CASE z \in BoundZones(fw)
  BY <1>1 DEF Bindings, ParsesZone, FwZones, FwBindings
<1>2. CASE z \notin BoundZones(fw)
  <2>1. Bindings(fw, z) = <<Unbound>>
    BY <1>2 DEF Bindings
  <2>2. AnyIface \in Texts /\ NoSet \in Texts
    BY TextsAssumption
  <2>3. Unbound \in FwBindings /\ EndFits(fw, Unbound.src)
    BY <2>2 DEF Unbound, FwBindings, AnyEnd, FwEnds, EndFits
  <2> QED
    BY <2>1, <2>3
<1> QED
  BY <1>1, <1>2

\* A template for a binding.
LEMMA EmitForType ==
  ASSUME NEW fw, NEW b \in FwBindings, EndFits(fw, b.src), NEW t \in Ts(SetNames(fw))
  PROVE  EmitFor(fw, b, t) \in Seq(Ts(SetNames(fw)))
<1> DEFINE N == SetNames(fw)
           own == SrcOf(t)
           src == Meet(b.src, own)
           r == RSrcSet(RSrcNet(RIif(t.rule, b.iface), src.net), src.set)
           families == t.families \cap EndFamilies(fw, b.src)
<1>1. t.rule \in InRules(N) /\ t.families \in SUBSET Both
  BY TsParts
<1>2. b.iface \in Texts /\ b.src \in FwEnds /\ b.src.set \in N \cup {NoSet}
  BY EndParts DEF FwBindings
<1>3. own \in [net : Nets \cup {NoNet}, set : Texts] /\ own.set \in N \cup {NoSet}
  <2>1. t.rule.src \in Ends /\ t.rule.src.set \in N \cup {NoSet}
    BY <1>1 DEF InRules, Naming, Listed
  <2> QED
    BY <2>1 DEF SrcOf, Ends
<1>4. src \in [net : Nets \cup {NoNet}, set : Texts] /\ src.set \in N \cup {NoSet}
  <2> HIDE DEF own, N
  <2>1. src \in {b.src, own}
    BY DEF Meet
  <2> QED
    BY <1>2, <1>3, <2>1 DEF FwEnds
<1>5. src.net \in Nets \cup {NoNet} /\ src.set \in Texts
  <2> HIDE DEF src
  <2> QED
    BY <1>4
<1>6. EmitFor(fw, b, t) = <<>> \/ EmitFor(fw, b, t) = <<[rule |-> r, families |-> families]>>
  BY DEF EmitFor, RSrcSet, RSrcNet, RIif
<1>7. r \in InRules(N)
  <2> HIDE DEF N, src
  <2>1. RIif(t.rule, b.iface) \in InRules(N)
    BY <1>1, <1>2, RIifType
  <2>2. RSrcNet(RIif(t.rule, b.iface), src.net) \in InRules(N)
    BY <1>5, <2>1, RSrcNetType
  <2> QED
    BY <1>4, <1>5, <2>2, RSrcSetType
<1>8. families \in SUBSET Both
  BY <1>1
<1> HIDE DEF N, r, families
<1> DEFINE x == [rule |-> r, families |-> families]
<1>9. x \in Ts(N)
  BY <1>7, <1>8 DEF Ts
<1> HIDE DEF x
<1>10. <<x>> \in Seq(Ts(N)) /\ <<>> \in Seq(Ts(N))
  BY <1>9
<1> QED
  BY <1>6, <1>10, Zenon DEF N, x

\* The rules of a zone that packets come to.
LEMMA EmitZoneType ==
  ASSUME NEW fw, IsConfig(fw), ~FwRefused(fw), NEW z \in ActiveZones(fw)
  PROVE  EmitZone(fw, z) \in Seq(Ts(SetNames(fw)))
<1> DEFINE T == Ts(SetNames(fw))
           templates == Templates(fw, z)
           bindings == Bindings(fw, z)
           n == Len(templates)
           m == Len(bindings)
           row(i) == [j \in DOMAIN bindings |-> EmitFor(fw, bindings[j], templates[i])]
           seqs == [i \in DOMAIN templates |-> FlattenSeq(row(i))]
<1>1. /\ ZoneFits(fw, z)
      /\ \A y \in DOMAIN fw.zones : ParsesZone(fw, fw.zones[y])
  BY Zenon DEF FwRefused, ZonesFit
<1>2. z \in DOMAIN fw.zones /\ fw.zones[z] \in FwZones /\ IsDir(fw.services, FwServices)
  <2>1. z \in DOMAIN fw.zones
    BY DEF ActiveZones, BoundZones
  <2>2. fw.zones[z] \in Range(fw.zones)
    BY <2>1 DEF Range
  <2> QED
    BY <2>1, <2>2 DEF IsConfig, IsDir
<1>3. templates \in Seq(T)
  BY <1>1, <1>2, TemplatesType
<1>4. bindings \in Seq(FwBindings) /\ \A j \in DOMAIN bindings : EndFits(fw, bindings[j].src)
  BY <1>1, <1>2, BindingsType
<1>5. EmitZone(fw, z) = FlattenSeq(seqs)
  BY DEF EmitZone
<1> HIDE DEF templates, bindings
<1>6. /\ n \in Nat /\ DOMAIN templates = 1 .. n /\ \A i \in 1 .. n : templates[i] \in T
      /\ m \in Nat /\ DOMAIN bindings = 1 .. m /\ \A j \in 1 .. m : bindings[j] \in FwBindings
  <2> HIDE DEF T
  <2> QED
    BY <1>3, <1>4
<1>7. ASSUME NEW i \in 1 .. n PROVE FlattenSeq(row(i)) \in Seq(T)
  <2> DEFINE t == templates[i]
             r == [j \in DOMAIN bindings |-> EmitFor(fw, bindings[j], t)]
  <2>1. t \in T
    BY <1>6
  <2> HIDE DEF t
  <2>2. ASSUME NEW j \in 1 .. m PROVE r[j] \in Seq(T)
    <3> DEFINE b == bindings[j]
    <3>1. b \in FwBindings /\ EndFits(fw, b.src)
      BY <1>4, <1>6
    <3>2. r[j] = EmitFor(fw, b, t)
      BY <1>6
    <3> HIDE DEF b, r
    <3> QED
      BY <2>1, <3>1, <3>2, EmitForType
  <2>3. r = [j \in 1 .. m |-> r[j]]
    BY <1>6
  <2>4. r = row(i)
    BY DEF t
  <2> HIDE DEF r, T, m, row
  <2>5. FlattenSeq(r) \in Seq(T)
    BY <1>6, <2>2, <2>3, PickedType
  <2> QED
    BY <2>4, <2>5
<1>8. ASSUME NEW i \in 1 .. n PROVE seqs[i] \in Seq(T)
  <2>1. seqs[i] = FlattenSeq(row(i))
    <3> HIDE DEF row
    <3> QED
      BY <1>6
  <2> HIDE DEF seqs, row, T
  <2> QED
    BY <1>7, <2>1
<1>9. seqs = [i \in 1 .. n |-> seqs[i]]
  <2> HIDE DEF row
  <2> QED
    BY <1>6
<1> HIDE DEF seqs, T, n
<1> QED
  BY <1>5, <1>6, <1>8, <1>9, PickedType DEF T

LEMMA EmitZonesType ==
  ASSUME NEW fw, IsConfig(fw), ~FwRefused(fw)
  PROVE  EmitZones(fw) \in Seq(Ts(SetNames(fw)))
<1> DEFINE T == Ts(SetNames(fw))
           n == Len(ZoneOrder)
           seqs == [i \in DOMAIN ZoneOrder |->
                      IF ZoneOrder[i] \in ActiveZones(fw) THEN EmitZone(fw, ZoneOrder[i]) ELSE <<>>]
<1>1. n \in Nat /\ DOMAIN ZoneOrder = 1 .. n
  BY ImportersAssumption
<1>2. EmitZones(fw) = FlattenSeq(seqs)
  BY DEF EmitZones
<1>3. ASSUME NEW i \in 1 .. n PROVE seqs[i] \in Seq(T)
  <2> DEFINE z == ZoneOrder[i]
  <2>1. seqs[i] = IF z \in ActiveZones(fw) THEN EmitZone(fw, z) ELSE <<>>
    BY <1>1
  <2>2. z \in ActiveZones(fw) => EmitZone(fw, z) \in Seq(T)
    <3> HIDE DEF z
    <3> QED
      BY EmitZoneType
  <2>3. <<>> \in Seq(T)
    <3> HIDE DEF T
    <3> QED
      OBVIOUS
  <2> HIDE DEF seqs, z, T
  <2> QED
    BY <2>1, <2>2, <2>3
<1>4. seqs = [i \in 1 .. n |-> seqs[i]]
  BY <1>1
<1> HIDE DEF seqs, T, n
<1> QED
  BY <1>1, <1>2, <1>3, <1>4, PickedType DEF T

\* The rules of a policy.
LEMMA PolicyRulesType ==
  ASSUME NEW N, NEW pol \in FwPolicies
  PROVE  PolicyRules(pol) \in Seq(InRules(N))
<1> DEFINE rules == pol.rules
           n == Len(rules)
           plain == PlainRule("allow", "in")
<1>1. n \in Nat /\ DOMAIN rules = 1 .. n /\ \A i \in 1 .. n : rules[i].icmp \in Int
  <2> DEFINE D == [v6 : BOOLEAN, icmp : Int, verdict : Texts]
  <2>1. rules \in Seq(D)
    BY DEF FwPolicies
  <2> HIDE DEF rules, D
  <2>2. n \in Nat /\ DOMAIN rules = 1 .. n /\ \A i \in 1 .. n : rules[i] \in D
    BY <2>1
  <2> QED
    BY <2>2 DEF D
<1>2. PolicyRules(pol) = [i \in DOMAIN rules |-> RIcmp(RProto(plain, "icmpv6"), rules[i].icmp)]
  BY DEF PolicyRules, RIcmp, RProto
<1>3. RProto(plain, "icmpv6") \in InRules(N)
  <2>1. "allow" \in Texts /\ "icmpv6" \in Texts /\ {} \in SUBSET Both
    BY TextsAssumption
  <2>2. plain \in InRules(N)
    BY <2>1, TemplateType
  <2> HIDE DEF plain
  <2> QED
    BY <2>1, <2>2, RProtoType
<1> HIDE DEF rules, plain
<1>4. ASSUME NEW i \in 1 .. n PROVE RIcmp(RProto(plain, "icmpv6"), rules[i].icmp) \in InRules(N)
  BY <1>1, <1>3, RIcmpType
<1> HIDE DEF n
<1> QED
  BY <1>1, <1>2, <1>4

\* The elements of a finite set in a sequence.
LEMMA SetToSeqType ==
  ASSUME NEW S, IsFiniteSet(S)
  PROVE  SetToSeq(S) \in Seq(S)
<1>1. Cardinality(S) \in Nat
  BY FS_CardinalityType
<1>2. PICK n \in Nat : ExistsBijection(1 .. n, S)
  BY FS_NatBijection
<1>3. Cardinality(S) = n
  BY <1>2, FS_CountingElements
<1>4. \E f \in [1 .. n -> S] : IsInjective(f)
  BY <1>2 DEF ExistsBijection, Bijection, Injection
<1>5. SetToSeq(S) \in [1 .. n -> S]
  BY <1>3, <1>4 DEF SetToSeq
<1> QED
  BY <1>5

LEMMA EmitPoliciesType ==
  ASSUME NEW N, NEW fw, IsConfig(fw)
  PROVE  EmitPolicies(fw) \in Seq(InRules(N))
<1> DEFINE D == DOMAIN fw.policies
           S == {PolicyRules(pol) : pol \in Range(fw.policies)}
           f == [k \in D |-> PolicyRules(fw.policies[k])]
           seqs == SetToSeq(S)
           n == Len(seqs)
<1>1. IsFiniteSet(D) /\ Range(fw.policies) \subseteq FwPolicies
  BY DEF IsConfig, IsDir
<1>2. f \in Surjection(D, S)
  <2>1. \A k \in D : fw.policies[k] \in Range(fw.policies)
    BY DEF Range
  <2>2. f \in [D -> S]
    BY <2>1
  <2>3. ASSUME NEW s \in S PROVE \E k \in D : f[k] = s
    BY DEF Range
  <2> QED
    BY <2>2, <2>3 DEF Surjection
<1>3. IsFiniteSet(S)
  <2> HIDE DEF f, S, D
  <2> QED
    BY <1>1, <1>2, FS_Surjection
<1>4. \A s \in S : s \in Seq(InRules(N))
  BY <1>1, PolicyRulesType
<1>5. EmitPolicies(fw) = FlattenSeq(seqs)
  BY DEF EmitPolicies
<1> HIDE DEF S
<1>6. seqs \in Seq(S)
  BY <1>3, SetToSeqType
<1> HIDE DEF seqs
<1>7. n \in Nat /\ seqs = [i \in 1 .. n |-> seqs[i]] /\ \A i \in 1 .. n : seqs[i] \in S
  BY <1>6
<1> HIDE DEF n
<1> QED
  BY <1>4, <1>5, <1>7, PickedType

\* All of them.
LEMMA FwRulesType ==
  ASSUME NEW fw, IsConfig(fw), ~FwRefused(fw), NEW v6
  PROVE  FwRules(fw, v6) \in Seq(InRules(SetNames(fw)))
<1> DEFINE R == InRules(SetNames(fw))
           all == EmitZones(fw)
           n == Len(all)
           seqs == [i \in DOMAIN all |-> IF v6 \in all[i].families THEN <<all[i].rule>> ELSE <<>>]
           first == IF v6 THEN EmitPolicies(fw) ELSE <<>>
<1>1. FwRules(fw, v6) = first \o FlattenSeq(seqs)
  BY DEF FwRules
<1>2. first \in Seq(R)
  <2> HIDE DEF R
  <2>1. EmitPolicies(fw) \in Seq(R)
    BY EmitPoliciesType DEF R
  <2> QED
    BY <2>1
<1>3. all \in Seq(Ts(SetNames(fw)))
  BY EmitZonesType
<1> HIDE DEF all
<1>4. n \in Nat /\ DOMAIN all = 1 .. n /\ \A i \in 1 .. n : all[i] \in Ts(SetNames(fw))
  BY <1>3
<1>5. ASSUME NEW i \in 1 .. n PROVE seqs[i] \in Seq(R)
  <2> DEFINE t == all[i]
  <2>1. t.rule \in R
    BY <1>4, TsParts
  <2>2. seqs[i] = IF v6 \in t.families THEN <<t.rule>> ELSE <<>>
    BY <1>4
  <2> HIDE DEF seqs, t, R
  <2> QED
    BY <2>1, <2>2
<1>6. seqs = [i \in 1 .. n |-> seqs[i]]
  BY <1>4
<1> HIDE DEF seqs, R, n, first
<1>7. FlattenSeq(seqs) \in Seq(R)
  BY <1>4, <1>5, <1>6, PickedType
<1> QED
  BY <1>1, <1>2, <1>7 DEF R

-----------------------------------------------------------------------------
(* What the other two importers make of a state.                           *)

LEMMA OverType ==
  ASSUME NEW Files, NEW etc, NEW vendor, IsDir(etc, Files), IsDir(vendor, Files)
  PROVE  IsDir(Over(etc, vendor), Files)
<1> DEFINE o == Over(etc, vendor)
           D == DOMAIN etc \cup DOMAIN vendor
<1>1. o = [n \in D |-> IF n \in DOMAIN etc THEN etc[n] ELSE vendor[n]]
  BY DEF Over
<1>2. IsFiniteSet(D) /\ D \subseteq Texts
  BY FS_Union DEF IsDir
<1>3. ASSUME NEW n \in D PROVE o[n] \in Files
  <2>1. n \in DOMAIN etc => etc[n] \in Files
    BY DEF IsDir, Range
  <2>2. n \notin DOMAIN etc => vendor[n] \in Files
    BY DEF IsDir, Range
  <2> QED
    BY <1>1, <2>1, <2>2
<1>4. DOMAIN o = D
  BY <1>1
<1> HIDE DEF o, D
<1> QED
  BY <1>2, <1>3, <1>4 DEF IsDir, Range, o

LEMMA EffectiveType ==
  ASSUME NEW tree \in Trees
  PROVE  IsConfig(Effective(tree)) /\ DOMAIN Effective(tree).zones \subseteq ToSet(ZoneOrder)
<1>1. /\ IsConfig(tree.vendor) /\ IsConfig(tree.etc)
      /\ DOMAIN tree.vendor.zones \cup DOMAIN tree.etc.zones \subseteq ToSet(ZoneOrder)
  BY ImportersAssumption
<1>2. /\ IsDir(Effective(tree).policies, FwPolicies) /\ IsDir(Effective(tree).services, FwServices)
      /\ IsDir(Effective(tree).ipsets, FwIpsets) /\ IsDir(Effective(tree).zones, FwZones)
  BY <1>1, OverType DEF IsConfig, Effective
<1>3. DOMAIN Effective(tree).zones = DOMAIN tree.etc.zones \cup DOMAIN tree.vendor.zones
  BY DEF Effective, Over
<1> QED
  BY <1>1, <1>2, <1>3 DEF IsConfig

(* A merge of nft's ruleset keeps a state one, and each of its rules where *)
(* it was (ImportNFTables).                                                *)
LEMMA NftMergedKeeps ==
  ASSUME NEW s, IsState(s), NEW doc \in Docs, ~NftRefused(doc)
  PROVE  LET u == NftMerged(s, doc) IN
         /\ IsState(u) /\ u.sets = s.sets
         /\ u.policies = [d \in Directions |-> HookPolicy(doc, HookOf(d))]
         /\ u.rules4 = MergeRules(s.rules4, NftRules(doc, FALSE))
         /\ u.rules6 = MergeRules(s.rules6, NftRules(doc, TRUE))
         /\ Stands(s.rules4, u.rules4, KeysOf(NftRules(doc, FALSE)))
         /\ Stands(s.rules6, u.rules6, KeysOf(NftRules(doc, TRUE)))
<1> DEFINE u == NftMerged(s, doc)
           N == DOMAIN s.sets
           four == NftRules(doc, FALSE)
           six == NftRules(doc, TRUE)
           a == MergeRules(s.rules4, four)
           b == MergeRules(s.rules6, six)
           pol == [d \in Directions |-> HookPolicy(doc, HookOf(d))]
<1>1. /\ s = [f \in StateFields |-> s[f]] /\ s.policies \in [Directions -> Texts]
      /\ s.ipv6 \in BOOLEAN /\ s.rules4 \in Seq(Naming(N)) /\ s.rules6 \in Seq(Naming(N))
  BY DEF IsState
<1>2. four \in Seq(Naming(N)) /\ six \in Seq(Naming(N))
  <2> HIDE DEF N
  <2>1. four \in Seq(Naming({})) /\ six \in Seq(Naming({}))
    BY NftRulesType
  <2> QED
    BY <2>1, NamingGrows
<1>3. u = [s EXCEPT !.policies = pol, !.ipv6 = TRUE, !.rules4 = a, !.rules6 = b]
  BY DEF NftMerged
<1> HIDE DEF four, six
<1>4. /\ a \in Seq(Naming(N)) /\ Stands(s.rules4, a, KeysOf(four))
      /\ b \in Seq(Naming(N)) /\ Stands(s.rules6, b, KeysOf(six))
  <2> HIDE DEF N
  <2> QED
    BY <1>1, <1>2, FileKeepsPlaces, NamingAre
<1>5. pol \in [Directions -> Texts]
  <2>1. \A w : PolicyMap(w) \in Texts
    BY TextsAssumption DEF PolicyMap
  <2>2. \A h : HookPolicy(doc, h) \in Texts
    BY <2>1, TextsAssumption DEF HookPolicy
  <2> QED
    BY <2>2
<1> HIDE DEF u, a, b, pol
<1>6. /\ u = [f \in StateFields |-> u[f]] /\ u.policies = pol /\ u.rules4 = a /\ u.rules6 = b
      /\ u.sets = s.sets /\ u.ipv6 = TRUE
  BY <1>1, <1>3 DEF StateFields
<1>7. IsState(u)
  BY <1>1, <1>4, <1>5, <1>6 DEF IsState
<1> QED
  BY <1>4, <1>6, <1>7 DEF u, a, b, pol, four, six

\* Sets that are joined by firewalld's.
LEMMA MergeSetsIs ==
  ASSUME NEW sets, NEW new
  PROVE  /\ DOMAIN MergeSets(sets, new) = DOMAIN sets \cup DOMAIN new
         /\ DOMAIN sets \cap DOMAIN new = {} => \A n \in DOMAIN sets : MergeSets(sets, new)[n] = sets[n]
<1>1. ASSUME DOMAIN sets \cap DOMAIN new = {}, NEW n \in DOMAIN sets
      PROVE  MergeSets(sets, new)[n] = sets[n]
  <2>1. n \notin DOMAIN new /\ n \in DOMAIN sets \cup DOMAIN new
    BY <1>1
  <2>2. MergeSets(sets, new)[n] = sets[n] \cup {}
    BY <2>1 DEF MergeSets
  <2> DEFINE e == sets[n]
  <2>3. e \cup {} = e
    OBVIOUS
  <2> QED
    BY <2>2, <2>3
<1>2. DOMAIN MergeSets(sets, new) = DOMAIN sets \cup DOMAIN new
  BY DEF MergeSets
<1> QED
  BY <1>1, <1>2

(* A merge of firewalld's configuration keeps a state one, and each of its *)
(* rules where it was (importFirewalld).                                   *)
LEMMA FwMergedKeeps ==
  ASSUME NEW s, IsState(s), NEW fw, IsConfig(fw), ~FwRefused(fw)
  PROVE  LET u == FwMerged(s, fw) IN
         /\ IsState(u) /\ u.sets = MergeSets(s.sets, FwSets(fw)) /\ u.policies = s.policies
         /\ u.rules4 = MergeRules(s.rules4, FwRules(fw, FALSE))
         /\ u.rules6 = MergeRules(s.rules6, FwRules(fw, TRUE))
         /\ Stands(s.rules4, u.rules4, KeysOf(FwRules(fw, FALSE)))
         /\ Stands(s.rules6, u.rules6, KeysOf(FwRules(fw, TRUE)))
<1> DEFINE u == FwMerged(s, fw)
           sets == MergeSets(s.sets, FwSets(fw))
           N == DOMAIN sets
           four == FwRules(fw, FALSE)
           six == FwRules(fw, TRUE)
           a == MergeRules(s.rules4, four)
           b == MergeRules(s.rules6, six)
<1>1. /\ s = [f \in StateFields |-> s[f]] /\ s.policies \in [Directions -> Texts]
      /\ s.rules4 \in Seq(Naming(DOMAIN s.sets)) /\ s.rules6 \in Seq(Naming(DOMAIN s.sets))
  BY DEF IsState
<1>0. DOMAIN s.sets \subseteq N /\ SetNames(fw) \subseteq N
  <2>1. N = DOMAIN s.sets \cup SetNames(fw)
    BY MergeSetsIs, Zenon DEF SetNames
  <2> HIDE DEF N
  <2> QED
    BY <2>1
<1>2. four \in Seq(Naming(N)) /\ six \in Seq(Naming(N))
  <2> DEFINE M == SetNames(fw)
  <2>1. four \in Seq(InRules(M)) /\ six \in Seq(InRules(M))
    BY FwRulesType
  <2>2. InRules(M) \subseteq Naming(N)
    <3> HIDE DEF M, N
    <3>1. InRules(M) \subseteq Naming(M)
      BY DEF InRules
    <3>2. Naming(M) \subseteq Naming(N)
      BY <1>0, NamingGrows DEF M
    <3> QED
      BY <3>1, <3>2
  <2> DEFINE A == InRules(M)  B == Naming(N)
  <2> HIDE DEF M, N, four, six, A, B
  <2>3. four \in Seq(B) /\ six \in Seq(B)
    <3>1. four \in Seq(A) /\ six \in Seq(A) /\ A \subseteq B
      BY <2>1, <2>2 DEF A, B
    <3> QED
      BY <3>1
  <2> QED
    BY <2>3 DEF B
<1>3. u = [s EXCEPT !.rules4 = a, !.rules6 = b, !.sets = sets, !.ipv6 = TRUE]
  BY DEF FwMerged
<1> HIDE DEF four, six, sets
<1>8. s.rules4 \in Seq(Naming(N)) /\ s.rules6 \in Seq(Naming(N))
  <2> HIDE DEF N
  <2> QED
    BY <1>0, <1>1, NamingGrows
<1>4. /\ a \in Seq(Naming(N)) /\ Stands(s.rules4, a, KeysOf(four))
      /\ b \in Seq(Naming(N)) /\ Stands(s.rules6, b, KeysOf(six))
  <2> HIDE DEF N
  <2> QED
    BY <1>2, <1>8, FileKeepsPlaces, NamingAre
<1> HIDE DEF u, a, b
<1>6. /\ u = [f \in StateFields |-> u[f]] /\ u.policies = s.policies /\ u.rules4 = a /\ u.rules6 = b
      /\ u.sets = sets /\ u.ipv6 = TRUE
  BY <1>1, <1>3 DEF StateFields
<1>7. IsState(u)
  BY <1>1, <1>4, <1>6 DEF IsState
<1> QED
  BY <1>4, <1>6, <1>7 DEF u, a, b, four, six, sets

-----------------------------------------------------------------------------
(* The invariant: the state is one, and was made by the last import.       *)

\* The state s is what an accepted source made of the state before it.
MadeFrom(i, s) ==
  \/ /\ i.kind = "iptables"
     /\ i.source.v4 \in Dumps \cup {NoDump} /\ i.source.v6 \in Dumps \cup {NoDump}
     /\ ~Refused(i.source.v4, i.source.v6)
     /\ s = Merged(i.before, i.source.v4, i.source.v6)
  \/ /\ i.kind = "nftables"
     /\ i.source \in Docs /\ ~NftRefused(i.source)
     /\ s = NftMerged(i.before, i.source)
  \/ /\ i.kind = "firewalld"
     /\ IsConfig(i.source) /\ ~FwRefused(i.source)
     /\ DOMAIN i.source.zones \subseteq ToSet(ZoneOrder)
     /\ s = FwMerged(i.before, i.source)

Made ==
  /\ IsState(st)
  /\ imported \in Seq(Range(imported))
  /\ \A i \in LastImport : IsState(i.before) /\ MadeFrom(i, st)

\* The last of a list that something is appended to.
LEMMA LastOfAppend ==
  ASSUME NEW q, q \in Seq(Range(q)), NEW x
  PROVE  /\ Append(q, x) \in Seq(Range(Append(q, x)))
         /\ {Append(q, x)[k] : k \in {Len(Append(q, x))} \ {0}} = {x}
<1> DEFINE S == Range(q) \cup {x}  l == Append(q, x)
<1>1. q \in Seq(S) /\ x \in S
  <2> DEFINE R == Range(q)
  <2>1. q \in Seq(R)
    OBVIOUS
  <2> HIDE DEF R
  <2> QED
    BY <2>1 DEF R
<1> HIDE DEF S
<1>2. l \in Seq(S) /\ Len(l) = Len(q) + 1 /\ Len(q) \in Nat /\ l[Len(q) + 1] = x
  BY <1>1
<1> HIDE DEF l
<1>3. l \in Seq(Range(l))
  BY <1>2 DEF Range
<1> QED
  BY <1>2, <1>3 DEF l

LEMMA MadeInit == Init => Made
<1> SUFFICES ASSUME Init PROVE Made
  OBVIOUS
<1>1. IsState(st) /\ imported = <<>>
  BY ImportersAssumption DEF Init
<1>2. LastImport = {}
  BY <1>1 DEF LastImport
<1>3. imported \in Seq(Range(imported))
  BY <1>1
<1> QED
  BY <1>1, <1>2, <1>3 DEF Made

\* An accepted import is the last one then.
LEMMA MadeImport ==
  ASSUME Made, NEW i, IsState(i.before), IsState(st'), MadeFrom(i, st'),
         imported' = Append(imported, i)
  PROVE  Made'
<1>1. /\ imported' \in Seq(Range(imported'))
      /\ {imported'[k] : k \in {Len(imported')} \ {0}} = {i}
  BY LastOfAppend DEF Made
<1>2. LastImport' = {i}
  BY <1>1 DEF LastImport
<1> QED
  BY <1>1, <1>2 DEF Made

\* Nothing that happens to other variables is of a concern.
LEMMA MadeStays ==
  ASSUME Made, UNCHANGED vars
  PROVE  Made'
<1>1. st' = st /\ imported' = imported
  BY DEF vars
<1> QED
  BY <1>1 DEF Made, LastImport

\* Every action keeps it.
LEMMA MadeNext ==
  ASSUME Made, Next
  PROVE  Made'
<1>0. IsState(st) /\ IsState(Defaults) /\ \A replace : IsState(Onto(replace))
  BY ImportersAssumption DEF Made, Onto
<1>1. ASSUME NEW d4 \in Dumps4, NEW d6 \in Dumps6, NEW replace \in BOOLEAN,
             ImportIPTables(d4, d6, replace)
      PROVE  Made'
  <2>1. d4 \in Dumps \cup {NoDump} /\ d6 \in Dumps \cup {NoDump}
    BY ImportersAssumption
  <2>2. PICK base : base = Onto(replace)
    OBVIOUS
  <2>3. IsState(base)
    BY <1>0, <2>2
  <2> DEFINE i == [before |-> base, kind |-> "iptables", source |-> [v4 |-> d4, v6 |-> d6]]
             merged == Merged(base, d4, d6)
  <2>4. Import("iptables", [v4 |-> d4, v6 |-> d6], Refused(d4, d6), base, merged)
    BY <1>1, <2>2 DEF ImportIPTables
  <2>5. CASE Refused(d4, d6)
    <3>1. UNCHANGED vars
      BY <2>4, <2>5 DEF Import
    <3> QED
      BY <3>1, MadeStays
  <2>6. CASE ~Refused(d4, d6)
    <3>1. st' = merged /\ imported' = Append(imported, i)
      BY <2>4, <2>6 DEF Import
    <3>2. IsState(merged)
      <4>1. /\ IsState(merged) /\ merged.sets = base.sets /\ merged.panic = base.panic
            /\ Stands(base.rules4, merged.rules4, KeysOf(Read(d4, FALSE).rules))
            /\ Stands(base.rules6, merged.rules6, KeysOf(Read(d6, TRUE).rules))
        BY <2>1, <2>3, MergedKeeps, Zenon
      <4> QED
        BY <4>1
    <3>3. i.before = base /\ MadeFrom(i, merged)
      BY <2>1, <2>6 DEF MadeFrom
    <3> HIDE DEF i, merged
    <3> QED
      BY <2>3, <3>1, <3>2, <3>3, MadeImport
  <2> QED
    BY <2>5, <2>6
<1>2. ASSUME NEW doc \in Rulesets, NEW replace \in BOOLEAN,
             ImportNFTables(doc, replace)
      PROVE  Made'
  <2>1. doc \in Docs
    BY ImportersAssumption
  <2>2. PICK base : base = Onto(replace)
    OBVIOUS
  <2>3. IsState(base)
    BY <1>0, <2>2
  <2> DEFINE i == [before |-> base, kind |-> "nftables", source |-> doc]
             merged == NftMerged(base, doc)
  <2>4. Import("nftables", doc, NftRefused(doc), base, merged)
    BY <1>2, <2>2 DEF ImportNFTables
  <2>5. CASE NftRefused(doc)
    <3>1. UNCHANGED vars
      BY <2>4, <2>5 DEF Import
    <3> QED
      BY <3>1, MadeStays
  <2>6. CASE ~NftRefused(doc)
    <3>1. st' = merged /\ imported' = Append(imported, i)
      BY <2>4, <2>6 DEF Import
    <3>2. IsState(merged)
      BY <2>1, <2>3, <2>6, NftMergedKeeps
    <3>3. i.before = base /\ MadeFrom(i, merged)
      BY <2>1, <2>6 DEF MadeFrom
    <3> HIDE DEF i, merged
    <3> QED
      BY <2>3, <3>1, <3>2, <3>3, MadeImport
  <2> QED
    BY <2>5, <2>6
<1>3. ASSUME NEW tree \in Trees, NEW replace \in BOOLEAN,
             ImportFirewalld(tree, replace)
      PROVE  Made'
  <2>0. PICK fw : fw = Effective(tree)
    OBVIOUS
  <2>1. IsConfig(fw) /\ DOMAIN fw.zones \subseteq ToSet(ZoneOrder)
    BY <2>0, EffectiveType
  <2>2. PICK base : base = Onto(replace)
    OBVIOUS
  <2>3. IsState(base)
    BY <1>0, <2>2
  <2> DEFINE i == [before |-> base, kind |-> "firewalld", source |-> fw]
             merged == FwMerged(base, fw)
  <2>4. Import("firewalld", fw, FwRefused(fw), base, merged)
    BY <1>3, <2>0, <2>2 DEF ImportFirewalld
  <2>5. CASE FwRefused(fw)
    <3>1. UNCHANGED vars
      BY <2>4, <2>5 DEF Import
    <3> QED
      BY <3>1, MadeStays
  <2>6. CASE ~FwRefused(fw)
    <3>1. st' = merged /\ imported' = Append(imported, i)
      BY <2>4, <2>6 DEF Import
    <3>2. IsState(merged)
      BY <2>1, <2>3, <2>6, FwMergedKeeps
    <3>3. i.before = base /\ MadeFrom(i, merged)
      BY <2>1, <2>6 DEF MadeFrom
    <3> HIDE DEF i, merged
    <3> QED
      BY <2>3, <3>1, <3>2, <3>3, MadeImport
  <2> QED
    BY <2>5, <2>6
<1>4. CASE Reset
  <2>1. st' = Defaults /\ imported' = <<>>
    BY <1>4 DEF Reset
  <2>2. IsState(st')
    BY <1>0, <2>1
  <2>3. LastImport' = {}
    BY <2>1 DEF LastImport
  <2>4. imported' \in Seq(Range(imported'))
    BY <2>1
  <2> QED
    BY <2>2, <2>3, <2>4 DEF Made
<1> QED
  BY <1>1, <1>2, <1>3, <1>4 DEF Next

(* Whatever is imported, in whatever order and with or without --replace,  *)
(* the state is one whose rules name sets that are there, and is what the  *)
(* last import made of the one before it.                                  *)
THEOREM StateIsMade == Spec => []Made
<1> QED
  BY MadeInit, MadeNext, MadeStays, PTL DEF Spec

-----------------------------------------------------------------------------
(* The rules that were there.                                              *)

\* An import leaves the rules where they were, and the sets that they name.
LEMMA ImportStands ==
  ASSUME NEW i, NEW s, IsState(i.before), MadeFrom(i, s), ~Grows(i)
  PROVE  /\ IsState(s)
         /\ \A n \in DOMAIN i.before.sets : i.before.sets[n] = s.sets[n]
         /\ Stands(i.before.rules4, s.rules4, KeysOf(Incoming(i, FALSE)))
         /\ Stands(i.before.rules6, s.rules6, KeysOf(Incoming(i, TRUE)))
<1> DEFINE b == i.before
           c == i.source
<1>1. CASE i.kind = "iptables"
  <2> DEFINE e == c.v4  f == c.v6
  <2>1. e \in Dumps \cup {NoDump} /\ f \in Dumps \cup {NoDump} /\ s = Merged(b, e, f)
    BY <1>1 DEF MadeFrom
  <2>2. Incoming(i, FALSE) = Read(e, FALSE).rules /\ Incoming(i, TRUE) = Read(f, TRUE).rules
    BY <1>1 DEF Incoming
  <2> DEFINE u == Merged(b, e, f)
  <2> HIDE DEF b, c, e, f
  <2>3. /\ IsState(u) /\ u.sets = b.sets /\ u.panic = b.panic
        /\ Stands(b.rules4, u.rules4, KeysOf(Read(e, FALSE).rules))
        /\ Stands(b.rules6, u.rules6, KeysOf(Read(f, TRUE).rules))
    BY <2>1, MergedKeeps, Zenon DEF b
  <2> HIDE DEF u
  <2> QED
    BY <2>1, <2>2, <2>3 DEF b, u
<1>2. CASE i.kind = "nftables"
  <2>1. c \in Docs /\ ~NftRefused(c) /\ s = NftMerged(b, c)
    BY <1>2 DEF MadeFrom
  <2>2. Incoming(i, FALSE) = NftRules(c, FALSE) /\ Incoming(i, TRUE) = NftRules(c, TRUE)
    BY <1>2 DEF Incoming
  <2> DEFINE u == NftMerged(b, c)
  <2> HIDE DEF b, c
  <2>3. /\ IsState(u) /\ u.sets = b.sets
        /\ Stands(b.rules4, u.rules4, KeysOf(NftRules(c, FALSE)))
        /\ Stands(b.rules6, u.rules6, KeysOf(NftRules(c, TRUE)))
    BY <2>1, NftMergedKeeps DEF b
  <2> HIDE DEF u
  <2> QED
    BY <2>1, <2>2, <2>3 DEF b, u
<1>3. CASE i.kind = "firewalld"
  <2>1. IsConfig(c) /\ ~FwRefused(c) /\ s = FwMerged(b, c)
    BY <1>3 DEF MadeFrom
  <2>2. Incoming(i, FALSE) = FwRules(c, FALSE) /\ Incoming(i, TRUE) = FwRules(c, TRUE)
    BY <1>3 DEF Incoming
  <2>4. DOMAIN b.sets \cap DOMAIN FwSets(c) = {}
    BY <1>3 DEF Grows
  <2> DEFINE u == FwMerged(b, c)
  <2> HIDE DEF b, c
  <2>3. /\ IsState(u) /\ u.sets = MergeSets(b.sets, FwSets(c))
        /\ Stands(b.rules4, u.rules4, KeysOf(FwRules(c, FALSE)))
        /\ Stands(b.rules6, u.rules6, KeysOf(FwRules(c, TRUE)))
    BY <2>1, FwMergedKeeps DEF b
  <2>5. \A n \in DOMAIN b.sets : MergeSets(b.sets, FwSets(c))[n] = b.sets[n]
    BY <2>4, MergeSetsIs
  <2> HIDE DEF u
  <2> QED
    BY <2>1, <2>2, <2>3, <2>5 DEF b, u
<1> QED
  BY <1>1, <1>2, <1>3 DEF MadeFrom

\* The list of a packet's family.
LEMMA ListOf ==
  ASSUME NEW s, IsState(s), NEW p
  PROVE  RulesFor(s, p) \in Seq(Naming(DOMAIN s.sets))
BY DEF IsState, RulesFor

\* What decides a packet decides it still, unless the source has a rule of its key.
LEMMA DecidesStill ==
  ASSUME NEW i, NEW s, IsState(i.before), MadeFrom(i, s), ~Grows(i),
         NEW p, p.v6 \in BOOLEAN, FirstMatch(i.before, p) # 0,
         TupleKey(RulesFor(i.before, p)[FirstMatch(i.before, p)]) \notin KeysOf(Incoming(i, p.v6))
  PROVE  StateVerdict(s, p) = StateVerdict(i.before, p)
<1> DEFINE b == i.before
           N == DOMAIN b.sets
           M == DOMAIN s.sets
           K == KeysOf(Incoming(i, p.v6))
<1>1. /\ IsState(s) /\ \A n \in N : b.sets[n] = s.sets[n]
      /\ Stands(b.rules4, s.rules4, KeysOf(Incoming(i, FALSE)))
      /\ Stands(b.rules6, s.rules6, KeysOf(Incoming(i, TRUE)))
  BY ImportStands
<1>2. RulesFor(b, p) \in Seq(Naming(N)) /\ RulesFor(s, p) \in Seq(Naming(M))
  BY <1>1, ListOf
<1>3. Stands(RulesFor(b, p), RulesFor(s, p), K)
  <2>1. CASE p.v6 = TRUE
    BY <1>1, <2>1 DEF RulesFor
  <2>2. CASE p.v6 = FALSE
    BY <1>1, <2>2 DEF RulesFor
  <2> QED
    BY <2>1, <2>2
<1>4. FirstMatch(b, p) # 0 /\ TupleKey(RulesFor(b, p)[FirstMatch(b, p)]) \notin K
  OBVIOUS
<1> HIDE DEF K, N, M, b
<1>5. /\ FirstMatch(s, p) = FirstMatch(b, p)
      /\ RulesFor(s, p)[FirstMatch(s, p)] = RulesFor(b, p)[FirstMatch(b, p)]
  BY <1>1, <1>2, <1>3, <1>4, StandsFirst
<1>6. StateVerdict(s, p) = StateVerdict(b, p)
  BY <1>4, <1>5, Zenon DEF StateVerdict
<1> QED
  BY <1>6 DEF b

(* A rule that decided before an import decides after it as it did, unless *)
(* the source has a rule of its key: none of what comes in, from whichever *)
(* of the three sources, goes before it or takes its place (mergeRules).   *)
THEOREM EarlierRulesDecide == Spec => []EarlierRulesStand
<1>1. ASSUME Made PROVE EarlierRulesStand
  <2> SUFFICES ASSUME NEW i \in LastImport, ~Grows(i), NEW v6 \in Both,
                      NEW p \in New, p.v6 = v6, FirstMatch(i.before, p) # 0,
                      TupleKey(RulesFor(i.before, p)[FirstMatch(i.before, p)])
                        \notin {TupleKey(r) : r \in ToSet(Incoming(i, v6))}
               PROVE  StateVerdict(st, p) = StateVerdict(i.before, p)
    BY Zenon DEF EarlierRulesStand
  <2>1. IsState(i.before) /\ MadeFrom(i, st)
    BY <1>1 DEF Made
  <2>2. p.v6 \in BOOLEAN
    BY DEF Both
  <2>3. TupleKey(RulesFor(i.before, p)[FirstMatch(i.before, p)]) \notin KeysOf(Incoming(i, p.v6))
    BY DEF KeysOf
  <2> QED
    BY <2>1, <2>2, <2>3, DecidesStill
<1> QED
  BY <1>1, StateIsMade, PTL

-----------------------------------------------------------------------------
(* What is read of a dump is what iptables-restore makes of it.            *)

LEMMA RestoreType ==
  ASSUME NEW c, NEW done \in Seq(Specs), NEW line \in Lines
  PROVE  Restore(done, line, c) \in Seq(Specs)
<1>1. line.spec \in Specs
  BY DEF Lines
<1>2. Append(done, line.spec) \in Seq(Specs)
  BY <1>1
<1>3. line.pos \in 1 .. Len(done) + 1 => InsertAt(done, line.pos, line.spec) \in Seq(Specs)
  BY <1>1, InsertType
<1> QED
  BY <1>2, <1>3 DEF Restore

\* What fails nowhere at first and fails at no place after one where it holds
\* fails nowhere.
LEMMA NoneFails ==
  ASSUME NEW n \in Nat, NEW T \in SUBSET (0 .. n), 0 \notin T,
         \A i \in 1 .. n : i - 1 \notin T => i \notin T
  PROVE  T = {}
<1> SUFFICES ASSUME T # {} PROVE FALSE
  OBVIOUS
<1>1. T \in SUBSET Nat
  OBVIOUS
<1>2. PICK i \in T : \A k \in T : i <= k
  BY <1>1, Smallest
<1>3. i \in 1 .. n /\ i - 1 \in 0 .. n /\ ~(i <= i - 1)
  OBVIOUS
<1> QED
  BY <1>2, <1>3

LEMMA EmptyType == <<>> \in Seq(Specs)
  OBVIOUS

\* iptables-restore goes along the lines, too.
LEMMA RestoreTrace ==
  ASSUME NEW c, NEW lines \in Seq(Lines)
  PROVE  \E t \in [0 .. Len(lines) -> Seq(Specs)] :
            /\ t[0] = <<>>
            /\ \A i \in 1 .. Len(lines) : t[i] = Restore(t[i - 1], lines[i], c)
            /\ Restored(lines, c) = t[Len(lines)]
<1> DEFINE n == Len(lines)
           A == Seq(Specs)
           first == <<>>
           o == [p \in A \X (1 .. n) |-> Restore(p[1], lines[p[2]], c)]
           R(h) == h = [x \in SUBSET DOMAIN lines |->
                          IF x = {} THEN <<>> ELSE Restore(h[x \ {Max(x)}], lines[Max(x)], c)]
           h == CHOOSE h : R(h)
<1>1. n \in Nat /\ DOMAIN lines = 1 .. n /\ \A i \in 1 .. n : lines[i] \in Lines
  OBVIOUS
<1>2. first \in A
  BY EmptyType, RestoreType
<1>20. \A a \in A, r \in Lines : Restore(a, r, c) \in A
  BY EmptyType, RestoreType
<1>7. Restored(lines, c) = h[DOMAIN lines]
  BY DEF Restored, FoldLeft, MapThenFoldSet, Max
<1> HIDE DEF A
<1>3. o \in [A \X (1 .. n) -> A]
  <2>1. DOMAIN o = A \X (1 .. n)
    OBVIOUS
  <2>2. ASSUME NEW p \in A \X (1 .. n) PROVE o[p] \in A
    <3>1. p[1] \in A /\ lines[p[2]] \in Lines
      BY <1>1
    <3>2. Restore(p[1], lines[p[2]], c) \in A
      <4> DEFINE a == p[1]  r == lines[p[2]]
      <4> HIDE DEF a, r, n
      <4>1. Restore(a, r, c) \in A
        BY <1>20, <3>1 DEF a, r
      <4> QED
        BY <4>1 DEF a, r
    <3>3. o[p] = Restore(p[1], lines[p[2]], c)
      BY Zenon
    <3> HIDE DEF o
    <3> QED
      BY <3>2, <3>3
  <2>3. o = [p \in A \X (1 .. n) |-> o[p]]
    BY <2>1
  <2> HIDE DEF o, n
  <2> QED
    BY <2>2, <2>3
<1> HIDE DEF first
<1>4. PICK g \in [SUBSET (1 .. n) -> A] : Folds(g, first, o, n)
  <2> HIDE DEF o, n
  <2> QED
    BY <1>1, <1>2, <1>3, FoldExists
<1>5. R(g)
  <2>1. ASSUME NEW x \in SUBSET (1 .. n), x # {}
        PROVE  g[x] = Restore(g[x \ {Max(x)}], lines[Max(x)], c)
    <3>1. g[x] = o[<<g[x \ {Max(x)}], Max(x)>>]
      <4> HIDE DEF o, n
      <4> QED
        BY <1>4, <2>1 DEF Folds
    <3>2. Max(x) \in 1 .. n
      BY <1>1, <2>1, MaxIn
    <3>3. g[x \ {Max(x)}] \in A
      <4> HIDE DEF o, n
      <4> QED
        OBVIOUS
    <3> DEFINE y == g[x \ {Max(x)}]  m == Max(x)
    <3>4. <<y, m>> \in A \X (1 .. n) /\ <<y, m>>[1] = y /\ <<y, m>>[2] = m
      <4> HIDE DEF y, m, n
      <4>1. y \in A /\ m \in 1 .. n
        BY <3>2, <3>3 DEF y, m
      <4> QED
        BY <4>1
    <3>5. o[<<y, m>>] = Restore(y, lines[m], c)
      <4> HIDE DEF y, m, n
      <4>1. o[<<y, m>>] = Restore(<<y, m>>[1], lines[<<y, m>>[2]], c)
        BY <3>4, Zenon
      <4> HIDE DEF o
      <4> QED
        BY <3>4, <4>1, Zenon
    <3> HIDE DEF o
    <3> QED
      BY <3>1, <3>5
  <2>2. g[{}] = <<>>
    BY <1>4 DEF Folds, first
  <2>3. g = [x \in SUBSET (1 .. n) |-> g[x]]
    OBVIOUS
  <2> HIDE DEF o
  <2>4. \A x \in SUBSET (1 .. n) :
          g[x] = IF x = {} THEN <<>> ELSE Restore(g[x \ {Max(x)}], lines[Max(x)], c)
    BY <2>1, <2>2, Zenon
  <2> HIDE DEF n
  <2> QED
    BY <1>1, <2>3, <2>4, Zenon
<1>6. R(h)
  <2>1. \E f : R(f)
    BY <1>5, Zenon
  <2> QED
    BY <2>1, Zenon
<1> HIDE DEF h
<1>8. \A x \in SUBSET (1 .. n) :
        h[x] = IF x = {} THEN <<>> ELSE Restore(h[x \ {Max(x)}], lines[Max(x)], c)
  <2>1. DOMAIN lines = 1 .. n
    BY <1>1
  <2>2. \A x \in SUBSET DOMAIN lines :
        h[x] = IF x = {} THEN <<>> ELSE Restore(h[x \ {Max(x)}], lines[Max(x)], c)
    <3> HIDE DEF n, o
    <3> QED
      BY <1>6, Zenon
  <2> QED
    BY <2>1, <2>2, Zenon
<1>9. h[{}] = first
  BY <1>8, Zenon DEF first
<1>10. Follows(h, o, A, n)
  <2> SUFFICES ASSUME NEW i \in 1 .. n, h[1 .. i - 1] \in A
               PROVE  h[1 .. i] = o[<<h[1 .. i - 1], i>>]
    <3> HIDE DEF o, n
    <3> QED
      BY DEF Follows
  <2>1. /\ 1 .. i \in SUBSET (1 .. n) /\ 1 .. i # {}
        /\ (1 .. i) \ {i} = 1 .. i - 1 /\ Max(1 .. i) = i
    <3> HIDE DEF o, n
    <3> QED
      BY <1>1, UpTo
  <2>2. h[1 .. i] = Restore(h[(1 .. i) \ {Max(1 .. i)}], lines[Max(1 .. i)], c)
    <3> HIDE DEF o, n
    <3> QED
      BY <1>8, <2>1, Zenon
  <2> DEFINE y == h[1 .. i - 1]
  <2>3. h[1 .. i] = Restore(y, lines[i], c)
    <3> HIDE DEF o, n
    <3>1. (1 .. i) \ {Max(1 .. i)} = 1 .. i - 1
      BY <2>1
    <3> QED
      BY <2>1, <2>2, <3>1, Zenon
  <2>4. <<y, i>> \in A \X (1 .. n) /\ <<y, i>>[1] = y /\ <<y, i>>[2] = i
    <3> HIDE DEF y, n, o
    <3>1. y \in A
      BY DEF y
    <3> QED
      BY <3>1
  <2>5. o[<<y, i>>] = Restore(y, lines[i], c)
    <3> HIDE DEF y, n
    <3>1. o[<<y, i>>] = Restore(<<y, i>>[1], lines[<<y, i>>[2]], c)
      BY <2>4, Zenon
    <3> HIDE DEF o
    <3> QED
      BY <2>4, <3>1, Zenon
  <2> HIDE DEF o
  <2> QED
    BY <2>3, <2>5
<1>11. Runs(h, first, o, A, n)
  <2> HIDE DEF o, n
  <2> QED
    BY <1>1, <1>2, <1>3, <1>9, <1>10, FoldFollows
<1>12. PICK t \in [0 .. n -> A] :
         /\ t[0] = first
         /\ \A i \in 1 .. n : t[i] = o[<<t[i - 1], i>>]
         /\ h[1 .. n] = t[n]
  <2> HIDE DEF o, n
  <2> QED
    BY <1>11 DEF Runs
<1>13. ASSUME NEW i \in 1 .. n
       PROVE  t[i] = Restore(t[i - 1], lines[i], c)
  <2> DEFINE y == t[i - 1]
  <2>1. y \in A
    <3> HIDE DEF n, o
    <3> QED
      BY <1>1
  <2>2. <<y, i>> \in A \X (1 .. n) /\ <<y, i>>[1] = y /\ <<y, i>>[2] = i
    <3> HIDE DEF y, n, o
    <3> QED
      BY <2>1
  <2>3. o[<<y, i>>] = Restore(y, lines[i], c)
    <3> HIDE DEF y, n
    <3>1. o[<<y, i>>] = Restore(<<y, i>>[1], lines[<<y, i>>[2]], c)
      BY <2>2, Zenon
    <3> HIDE DEF o
    <3> QED
      BY <2>2, <3>1, Zenon
  <2> HIDE DEF o
  <2> QED
    BY <1>12, <2>3
<1>14. Restored(lines, c) = t[n]
  <2> HIDE DEF n, o
  <2> QED
    BY <1>1, <1>7, <1>12
<1> HIDE DEF n, o
<1>15. t[0] = <<>>
  BY <1>12 DEF first
<1>16. \A i \in 1 .. n : t[i] = Restore(t[i - 1], lines[i], c)
  BY <1>13
<1> QED
  BY <1>14, <1>15, <1>16 DEF n, A

\* Inserting after the last rule is appending.
LEMMA InsertLast ==
  ASSUME NEW S, NEW s \in Seq(S), NEW e \in S
  PROVE  InsertAt(s, Len(s) + 1, e) = Append(s, e)
<1> DEFINE k == Len(s) + 1
           a == SubSeq(s, 1, k - 1)
           b == SubSeq(s, k, Len(s))
<1>1. a = s /\ b = <<>>
  OBVIOUS
<1>2. (s \o <<e>>) \o <<>> = Append(s, e)
  OBVIOUS
<1>3. InsertAt(s, k, e) = (a \o <<e>>) \o b
  BY Zenon DEF InsertAt
<1> HIDE DEF a, b, k
<1>4. InsertAt(s, k, e) = Append(s, e)
  BY <1>1, <1>2, <1>3, Zenon
<1> QED
  BY <1>4 DEF k

\* Each chain with rules has its place in the order, and no chain has two.
Ordered(t) ==
  /\ \A c \in ChainNames : t.rules[c] # <<>> => c \in ToSet(t.order)
  /\ \A i, j \in 1 .. Len(t.order) : t.order[i] = t.order[j] => i = j

\* A line that is read without an error.
LEMMA ParseLineIs ==
  ASSUME NEW t \in Tables, NEW line \in Lines, ParseLine(t, line).ok
  PROVE  LET u == ParseLine(t, line) IN
         /\ t.ok
         /\ \A c \in ChainNames : u.rules[c] = Restore(t.rules[c], line, c)
         /\ \A c \in ChainNames : u.policy[c] =
              IF line.op = ":" /\ line.chain = c THEN line.policy ELSE t.policy[c]
         /\ line.op = ":" => t.policy[line.chain] = None
         /\ Ordered(t) => Ordered(u)
<1> DEFINE b == line.chain
           u == ParseLine(t, line)
           order == IF b \in ToSet(t.order) THEN t.order ELSE Append(t.order, b)
           rules == t.rules[b]
           pos == IF line.op = "A" THEN Len(rules) + 1 ELSE line.pos
           policy == [t.policy EXCEPT ![b] = line.policy]
           inserted == [t.rules EXCEPT ![b] = InsertAt(rules, pos, line.spec)]
<1>1. /\ b \in ChainNames /\ line.pos \in Nat /\ line.spec \in Specs /\ line.policy \in Texts
      /\ line.op \in {":", "A", "I"}
      /\ rules \in Seq(Specs) /\ t.order \in Seq(ChainNames) /\ t.ok \in BOOLEAN
      /\ t.policy \in [ChainNames -> Texts] /\ t.rules \in [ChainNames -> Seq(Specs)]
      /\ t = [ok |-> t.ok, order |-> t.order, policy |-> t.policy, rules |-> t.rules]
  BY DEF Lines, Tables
<1>2. u =
        IF line.op = ":"
        THEN [t EXCEPT !.order = order, !.ok = @ /\ t.policy[b] = None, !.policy = policy]
        ELSE IF pos \in 1 .. Len(rules) + 1
        THEN [t EXCEPT !.order = order, !.rules = inserted]
        ELSE [t EXCEPT !.order = order, !.ok = FALSE]
  BY <1>1 DEF ParseLine
<1>3. order \in Seq(ChainNames) /\ b \in ToSet(order)
      /\ \A c \in ChainNames : c \in ToSet(t.order) => c \in ToSet(order)
  <2>1. CASE b \in ToSet(t.order)
    BY <1>1, <2>1
  <2>2. CASE b \notin ToSet(t.order)
    <3>1. order = Append(t.order, b)
      BY <2>2
    <3>2. /\ Len(order) = Len(t.order) + 1 /\ order[Len(t.order) + 1] = b
          /\ \A k \in 1 .. Len(t.order) : k \in 1 .. Len(order) /\ order[k] = t.order[k]
          /\ DOMAIN order = 1 .. Len(order) /\ DOMAIN t.order = 1 .. Len(t.order)
          /\ order \in Seq(ChainNames) /\ Len(t.order) \in Nat
      BY <1>1, <3>1
    <3> HIDE DEF order, b
    <3>3. Len(t.order) + 1 \in 1 .. Len(order)
      BY <3>2
    <3> QED
      BY <3>2, <3>3 DEF ToSet
  <2> QED
    BY <2>1, <2>2
<1>4. (\A i, j \in 1 .. Len(t.order) : t.order[i] = t.order[j] => i = j) =>
         \A i, j \in 1 .. Len(order) : order[i] = order[j] => i = j
  <2>1. CASE b \in ToSet(t.order)
    BY <2>1
  <2>2. CASE b \notin ToSet(t.order)
    <3>1. order = Append(t.order, b)
      BY <2>2
    <3>2. /\ Len(order) = Len(t.order) + 1 /\ order[Len(t.order) + 1] = b
          /\ \A k \in 1 .. Len(t.order) : order[k] = t.order[k] /\ t.order[k] # b
          /\ Len(t.order) \in Nat
      BY <1>1, <2>2, <3>1 DEF ToSet
    <3> HIDE DEF order, b
    <3>3. \A k \in 1 .. Len(order) : k \in 1 .. Len(t.order) \/ k = Len(t.order) + 1
      BY <3>2
    <3> QED
      BY <3>2, <3>3
  <2> QED
    BY <2>1, <2>2
<1>5. CASE line.op = ":"
  <2> DEFINE ok == t.ok /\ t.policy[b] = None
  <2>1. u = [t EXCEPT !.order = order, !.ok = ok, !.policy = policy]
    BY <1>2, <1>5
  <2> HIDE DEF order, policy, inserted, ok, u
  <2>2. u.ok = ok /\ u.rules = t.rules /\ u.policy = policy /\ u.order = order
    BY <1>1, <2>1
  <2>3. \A c \in ChainNames : u.policy[c] =
              IF line.op = ":" /\ line.chain = c THEN line.policy ELSE t.policy[c]
    BY <1>1, <1>5, <2>2 DEF policy
  <2>4. \A c \in ChainNames : u.rules[c] = Restore(t.rules[c], line, c)
    BY <1>5, <2>2 DEF Restore
  <2>5. ok
    BY <2>2 DEF u
  <2>6. Ordered(t) => Ordered(u)
    BY <1>3, <1>4, <2>2 DEF Ordered
  <2> QED
    BY <2>3, <2>4, <2>5, <2>6 DEF ok, u
<1>6. CASE line.op # ":" /\ pos \in 1 .. Len(rules) + 1
  <2>1. u = [t EXCEPT !.order = order, !.rules = inserted]
    BY <1>2, <1>6
  <2> HIDE DEF order, inserted, u
  <2>2. u.ok = t.ok /\ u.rules = inserted /\ u.policy = t.policy /\ u.order = order
    BY <1>1, <2>1
  <2>3. InsertAt(rules, pos, line.spec) = Restore(rules, line, b)
    <3>1. CASE line.op = "A"
      <4>1. InsertAt(rules, Len(rules) + 1, line.spec) = Append(rules, line.spec)
        BY <1>1, InsertLast
      <4> QED
        BY <3>1, <4>1 DEF Restore
    <3>2. CASE line.op # "A"
      BY <1>6, <3>2 DEF Restore
    <3> QED
      BY <3>1, <3>2
  <2>4. \A c \in ChainNames : u.rules[c] = Restore(t.rules[c], line, c)
    <3> SUFFICES ASSUME NEW c \in ChainNames PROVE u.rules[c] = Restore(t.rules[c], line, c)
      OBVIOUS
    <3> DEFINE x == InsertAt(rules, pos, line.spec)
    <3>1. u.rules[c] = IF c = b THEN x ELSE t.rules[c]
      <4> HIDE DEF x
      <4>1. inserted = [t.rules EXCEPT ![b] = x]
        BY DEF x, inserted
      <4> QED
        BY <1>1, <2>2, <4>1
    <3> HIDE DEF x
    <3>2. CASE c = b
      BY <2>3, <3>1, <3>2 DEF x
    <3>3. CASE c # b
      BY <3>1, <3>3 DEF Restore
    <3> QED
      BY <3>2, <3>3
  <2>5. t.ok
    BY <2>2 DEF u
  <2>6. Ordered(t) => Ordered(u)
    <3>1. \A c \in ChainNames : c # b => u.rules[c] = t.rules[c]
      BY <1>1, <2>2 DEF inserted
    <3> HIDE DEF b
    <3> QED
      BY <1>3, <1>4, <2>2, <3>1 DEF Ordered
  <2> QED
    BY <1>6, <2>2, <2>4, <2>5, <2>6 DEF u
<1>7. CASE line.op # ":" /\ pos \notin 1 .. Len(rules) + 1
  <2>1. u = [t EXCEPT !.order = order, !.ok = FALSE]
    BY <1>2, <1>7
  <2>2. u.ok = FALSE
    <3> HIDE DEF order, u
    <3> QED
      BY <1>1, <2>1
  <2> QED
    BY <2>2
<1> QED
  BY <1>5, <1>6, <1>7

\* The words of the policies that are declared for a chain by the first n lines.
DeclaredBy(lines, n, c) == {lines[k].policy : k \in {m \in 1 .. n : lines[m].op = ":" /\ lines[m].chain = c}}

LEMMA DeclaredMore ==
  ASSUME NEW lines \in Seq(Lines), NEW n \in 1 .. Len(lines), NEW c
  PROVE  DeclaredBy(lines, n, c) = DeclaredBy(lines, n - 1, c) \cup
           IF lines[n].op = ":" /\ lines[n].chain = c THEN {lines[n].policy} ELSE {}
<1>1. 1 .. n = 1 .. (n - 1) \cup {n}
  OBVIOUS
<1> QED
  BY <1>1 DEF DeclaredBy

(* Of a dump that is read without an error, the rules of each chain are in *)
(* the order in which iptables-restore leaves them, through appends and    *)
(* insertions, and its policy is the one that is declared (parseIPTSave).  *)
THEOREM ParsedAsRestored ==
  ASSUME NEW dump \in Dumps, ParseSave(dump).ok
  PROVE  LET t == ParseSave(dump) IN
         /\ t \in Tables /\ Ordered(t)
         /\ \A c \in ChainNames : /\ t.rules[c] = Restored(dump.filter, c)
                                  /\ Declared(dump, c) = {t.policy[c]} \cap DOMAIN Words
<1> DEFINE lines == dump.filter
           n == Len(lines)
<1>1. lines \in Seq(Lines) /\ n \in Nat
  BY DEF Dumps
<1>2. PICK t \in [0 .. n -> Tables] :
        /\ t[0] = NoTable
        /\ \A i \in 1 .. n : t[i] = ParseLine(t[i - 1], lines[i])
        /\ FoldLeft(ParseLine, NoTable, lines) = t[n]
  BY <1>1, ParseTrace, Zenon
<1>3. ParseSave(dump) = t[n] /\ t[n].ok
  BY <1>2 DEF ParseSave
<1> DEFINE Good(i) ==
     t[i].ok => /\ Ordered(t[i])
                /\ \A c \in ChainNames :
                     /\ DeclaredBy(lines, i, c) \subseteq {t[i].policy[c], None}
                     /\ t[i].policy[c] \in DeclaredBy(lines, i, c) \cup {None}
<1>4. Good(0)
  <2>1. \A c \in ChainNames : /\ NoTable.policy[c] = None /\ NoTable.rules[c] = <<>>
                              /\ DeclaredBy(lines, 0, c) = {}
    BY DEF NoTable, DeclaredBy
  <2>2. NoTable.order = <<>>
    BY DEF NoTable
  <2> HIDE DEF n, lines
  <2> QED
    BY <1>2, <2>1, <2>2 DEF Ordered
<1>5. ASSUME NEW i \in 1 .. n, Good(i - 1) PROVE Good(i)
  <2> SUFFICES ASSUME t[i].ok
               PROVE  /\ Ordered(t[i])
                      /\ \A c \in ChainNames :
                           /\ DeclaredBy(lines, i, c) \subseteq {t[i].policy[c], None}
                           /\ t[i].policy[c] \in DeclaredBy(lines, i, c) \cup {None}
    OBVIOUS
  <2>1. i - 1 \in 0 .. n /\ lines[i] \in Lines
    BY <1>1
  <2> DEFINE a == t[i - 1]  line == lines[i]  u == t[i]
  <2>2. a \in Tables /\ line \in Lines /\ u = ParseLine(a, line) /\ u.ok
    BY <1>2, <2>1
  <2>3. \A c \in ChainNames : DeclaredBy(lines, i, c) = DeclaredBy(lines, i - 1, c) \cup
           IF line.op = ":" /\ line.chain = c THEN {line.policy} ELSE {}
    BY <1>1, DeclaredMore
  <2>4. a.ok => /\ Ordered(a)
                /\ \A c \in ChainNames :
                     /\ DeclaredBy(lines, i - 1, c) \subseteq {a.policy[c], None}
                     /\ a.policy[c] \in DeclaredBy(lines, i - 1, c) \cup {None}
    BY <1>5
  <2> HIDE DEF a, line, u, n, lines, Good
  <2>5. /\ a.ok
        /\ \A c \in ChainNames : u.policy[c] =
              IF line.op = ":" /\ line.chain = c THEN line.policy ELSE a.policy[c]
        /\ line.op = ":" => a.policy[line.chain] = None
        /\ Ordered(a) => Ordered(u)
    BY <2>2, ParseLineIs
  <2>6. Ordered(u)
    BY <2>4, <2>5
  <2>7. \A c \in ChainNames :
          /\ DeclaredBy(lines, i, c) \subseteq {u.policy[c], None}
          /\ u.policy[c] \in DeclaredBy(lines, i, c) \cup {None}
    BY <2>3, <2>4, <2>5
  <2> QED
    BY <2>6, <2>7 DEF u
<1>6. ASSUME NEW c \in ChainNames PROVE t[n].rules[c] = Restored(lines, c)
  <2>1. PICK q \in [0 .. n -> Seq(Specs)] :
          /\ q[0] = <<>>
          /\ \A i \in 1 .. n : q[i] = Restore(q[i - 1], lines[i], c)
          /\ Restored(lines, c) = q[n]
    BY <1>1, RestoreTrace, Zenon
  <2> DEFINE Like(i) == t[i].ok => t[i].rules[c] = q[i]
  <2>2. Like(0)
    BY <1>2, <2>1 DEF NoTable
  <2>3. ASSUME NEW i \in 1 .. n, Like(i - 1) PROVE Like(i)
    <3>1. i - 1 \in 0 .. n /\ lines[i] \in Lines
      BY <1>1
    <3> DEFINE a == t[i - 1]  line == lines[i]  u == t[i]
    <3>2. a \in Tables /\ line \in Lines /\ u = ParseLine(a, line)
      BY <1>2, <3>1
    <3>3. q[i] = Restore(q[i - 1], line, c)
      BY <2>1
    <3>4. a.ok => a.rules[c] = q[i - 1]
      BY <2>3
    <3> HIDE DEF a, line, u, n, lines, Like
    <3>5. u.ok => a.ok /\ u.rules[c] = Restore(a.rules[c], line, c)
      BY <3>2, ParseLineIs
    <3>6. u.ok => u.rules[c] = q[i]
      BY <3>3, <3>4, <3>5
    <3> QED
      BY <3>6 DEF Like, u
  <2> DEFINE T == {i \in 0 .. n : ~Like(i)}
  <2>4. T = {}
    <3> HIDE DEF Like, n, lines
    <3>1. 0 \notin T /\ \A i \in 1 .. n : i - 1 \notin T => i \notin T
      BY <1>1, <2>2, <2>3
    <3>2. T \in SUBSET (0 .. n)
      OBVIOUS
    <3> HIDE DEF T
    <3> QED
      BY <1>1, <3>1, <3>2, NoneFails
  <2> HIDE DEF Like, n, lines
  <2>5. Like(n)
    <3>1. n \in 0 .. n
      BY <1>1
    <3> QED
      BY <2>4, <3>1
  <2> QED
    BY <1>3, <2>1, <2>5 DEF Like
<1> HIDE DEF Good
<1>7. Good(n)
  <2> HIDE DEF n, lines
  <2> DEFINE T == {i \in 0 .. n : ~Good(i)}
  <2>1. T = {}
    <3>1. 0 \notin T /\ \A i \in 1 .. n : i - 1 \notin T => i \notin T
      BY <1>1, <1>4, <1>5
    <3>2. T \in SUBSET (0 .. n)
      OBVIOUS
    <3> HIDE DEF T
    <3> QED
      BY <1>1, <3>1, <3>2, NoneFails
  <2> QED
    BY <1>1, <2>1
<1>8. ASSUME NEW c \in ChainNames PROVE Declared(dump, c) = {t[n].policy[c]} \cap DOMAIN Words
  <2>1. Declared(dump, c) = DeclaredBy(lines, n, c) \cap DOMAIN Words
    <3>1. DOMAIN dump.filter = 1 .. n
      BY <1>1
    <3> QED
      BY <3>1 DEF Declared, DeclaredBy
  <2>2. None \notin DOMAIN Words
    BY DEF Words, None
  <2>3. /\ DeclaredBy(lines, n, c) \subseteq {t[n].policy[c], None}
        /\ t[n].policy[c] \in DeclaredBy(lines, n, c) \cup {None}
    BY <1>3, <1>7 DEF Good
  <2> HIDE DEF n, lines
  <2> QED
    BY <2>1, <2>2, <2>3
<1> DEFINE w == t[n]
<1>9. /\ w \in Tables /\ Ordered(w)
      /\ \A c \in ChainNames : /\ w.rules[c] = Restored(lines, c)
                               /\ Declared(dump, c) = {w.policy[c]} \cap DOMAIN Words
  <2>1. n \in 0 .. n
    BY <1>1
  <2>2. w \in Tables
    BY <1>2, <2>1
  <2> QED
    BY <1>3, <1>6, <1>7, <1>8, <2>2 DEF Good
<1> HIDE DEF w, n
<1> QED
  BY <1>3, <1>9 DEF w

-----------------------------------------------------------------------------
(* One direction of a list, which the others say nothing to.               *)

\* The rules of a direction are the same in two lists, at the same places.
Alike(a, b, d) ==
  /\ \A k \in 1 .. Len(a) : a[k].dir = d => k \in 1 .. Len(b) /\ b[k] = a[k]
  /\ \A k \in 1 .. Len(b) : b[k].dir = d => k \in 1 .. Len(a) /\ b[k] = a[k]

LEMMA AlikeSame == ASSUME NEW a, NEW d PROVE Alike(a, a, d)
BY DEF Alike

LEMMA AlikeTrans ==
  ASSUME NEW a, NEW b, NEW c, NEW d, Alike(a, b, d), Alike(b, c, d)
  PROVE  Alike(a, c, d)
BY Zenon DEF Alike

\* A rule of another direction at the end.
LEMMA AlikeAppend ==
  ASSUME NEW S, NEW a \in Seq(S), NEW r \in S, NEW d, r.dir # d
  PROVE  Alike(a, Append(a, r), d)
<1> DEFINE b == Append(a, r)
<1>1. /\ Len(b) = Len(a) + 1 /\ b[Len(a) + 1] = r /\ Len(a) \in Nat
      /\ \A k \in 1 .. Len(a) : k \in 1 .. Len(b) /\ b[k] = a[k]
  OBVIOUS
<1> HIDE DEF b
<1>2. \A k \in 1 .. Len(b) : k \in 1 .. Len(a) \/ k = Len(a) + 1
  BY <1>1
<1> QED
  BY <1>1, <1>2 DEF Alike, b

\* A rule of another direction that is merged.
LEMMA AlikeRule ==
  ASSUME NEW N, NEW a \in Seq(Naming(N)), NEW r \in Naming(N), NEW d, r.dir # d
  PROVE  Alike(a, MergeRule(a, r), d)
<1> DEFINE b == MergeRule(a, r)
<1>1. CASE b = Append(a, r)
  BY <1>1, AlikeAppend
<1>2. CASE b = a
  BY <1>2, AlikeSame
<1>3. ASSUME NEW j \in Same(a, r), b = [a EXCEPT ![j] = Replaced(a[j], r)]
      PROVE  Alike(a, b, d)
  <2>1. j \in 1 .. Len(a) /\ TupleKey(a[j]) = TupleKey(r) /\ a[j] \in Naming(N)
    BY DEF Same
  <2> DEFINE o == a[j]  n == Replaced(o, r)
  <2>2. o \in Naming(N) /\ n \in Naming(N) /\ TupleKey(o) = TupleKey(r)
    BY <2>1, NamingAre DEF AreRules
  <2> HIDE DEF o, n
  <2>3. /\ IsRule(r) /\ IsRule(o) /\ IsRule(n) /\ Conditions \subseteq DOMAIN r
        /\ Conditions \subseteq DOMAIN o /\ Conditions \subseteq DOMAIN n
    BY <2>2, NamingAre DEF AreRules
  <2>4. TupleKey(n) = TupleKey(r)
    BY <2>3, ReplacedKeeps DEF n
  <2>5. o.dir = r.dir /\ n.dir = r.dir
    BY <2>2, <2>3, <2>4, KeyConditions
  <2>6. b = [a EXCEPT ![j] = n]
    BY <1>3 DEF n, o
  <2> HIDE DEF b
  <2>7. Len(b) = Len(a) /\ \A k \in 1 .. Len(a) : b[k] = IF k = j THEN n ELSE a[k]
    BY <2>1, <2>6
  <2> QED
    BY <2>1, <2>5, <2>7 DEF Alike, o
<1> QED
  BY <1>1, <1>2, <1>3, Outcomes

\* A file without a rule of the direction.
LEMMA AlikeFile ==
  ASSUME NEW N, NEW rules \in Seq(Naming(N)), NEW src \in Seq(Naming(N)), NEW d,
         \A k \in 1 .. Len(src) : src[k].dir # d
  PROVE  Alike(rules, MergeRules(rules, src), d)
<1> DEFINE n == Len(src)  S == Naming(N)
<1>0. AreRules(S) /\ rules \in Seq(S) /\ src \in Seq(S)
  BY NamingAre
<1>1. PICK t \in [0 .. n -> Seq(S)] :
        /\ t[0] = rules
        /\ \A i \in 1 .. n : t[i] = MergeRule(t[i - 1], src[i])
        /\ MergeRules(rules, src) = t[n]
  <2> HIDE DEF S
  <2> QED
    BY <1>0, FileTrace
<1>2. n \in Nat /\ \A i \in 1 .. n : src[i] \in S /\ src[i].dir # d
  OBVIOUS
<1> DEFINE Fine(i) == Alike(rules, t[i], d)
           T == {i \in 0 .. n : ~Fine(i)}
<1>3. Fine(0)
  BY <1>1, AlikeSame
<1>4. ASSUME NEW i \in 1 .. n, Fine(i - 1) PROVE Fine(i)
  <2> DEFINE a == t[i - 1]  r == src[i]
  <2>1. i - 1 \in 0 .. n
    BY <1>2
  <2>2. a \in Seq(S) /\ r \in S /\ r.dir # d /\ t[i] = MergeRule(a, r) /\ Alike(rules, a, d)
    BY <1>1, <1>2, <1>4, <2>1
  <2> HIDE DEF a, r, n
  <2>3. Alike(a, MergeRule(a, r), d)
    BY <2>2, AlikeRule DEF S
  <2> QED
    BY <2>2, <2>3, AlikeTrans
<1> HIDE DEF Fine, n
<1>5. T = {}
  <2>1. 0 \notin T /\ \A i \in 1 .. n : i - 1 \notin T => i \notin T
    BY <1>2, <1>3, <1>4
  <2>2. T \in SUBSET (0 .. n)
    OBVIOUS
  <2> HIDE DEF T
  <2> QED
    BY <1>2, <2>1, <2>2, NoneFails
<1>6. n \in 0 .. n
  BY <1>2
<1>7. Fine(n)
  BY <1>5, <1>6
<1> QED
  BY <1>1, <1>7 DEF Fine

\* A catchall of another direction.
LEMMA AlikeCatchall ==
  ASSUME NEW N, NEW rules \in Seq(Naming(N)), NEW pol \in Texts, NEW e \in Directions, NEW d, e # d
  PROVE  Alike(rules, PolicyCatchall(rules, e, pol), d)
<1> DEFINE c == Catchall(e, pol)
<1>1. c \in Naming(N)
  BY CatchallIs, NamingGrows
<1>2. c.dir = e
  BY CatchallIs
<1>3. PolicyCatchall(rules, e, pol) \in {rules, Append(rules, c)}
  BY DEF PolicyCatchall
<1> HIDE DEF c
<1>4. Alike(rules, Append(rules, c), d)
  BY <1>1, <1>2, AlikeAppend
<1> QED
  BY <1>3, <1>4, AlikeSame

\* A packet of the direction meets the same rules.
LEMMA AlikeFirst ==
  ASSUME NEW N, NEW M, NEW s, NEW u, NEW p,
         RulesFor(s, p) \in Seq(Naming(N)), RulesFor(u, p) \in Seq(Naming(M)),
         \A n \in N : s.sets[n] = u.sets[n], Alike(RulesFor(s, p), RulesFor(u, p), p.dir)
  PROVE  /\ FirstMatch(u, p) = FirstMatch(s, p)
         /\ FirstMatch(s, p) # 0 =>
              RulesFor(u, p)[FirstMatch(s, p)] = RulesFor(s, p)[FirstMatch(s, p)]
<1> DEFINE old == RulesFor(s, p)
           new == RulesFor(u, p)
           m == FirstMatch(s, p)
           w == FirstMatch(u, p)
           I == {i \in 1 .. Len(old) : Matches(s, old[i], p.v6, p)}
           J == {i \in 1 .. Len(new) : Matches(u, new[i], p.v6, p)}
<1>1. old \in Seq(Naming(N)) /\ new \in Seq(Naming(M)) /\ Alike(old, new, p.dir)
  OBVIOUS
<1>2. /\ m # 0 => m \in I /\ \A k \in I : m <= k
      /\ \A i \in I : (\A k \in I : i <= k) => m = i
  BY <1>1, FirstIs
<1>3. /\ w # 0 => w \in J /\ \A k \in J : w <= k
      /\ \A i \in J : (\A k \in J : i <= k) => w = i
  BY <1>1, FirstIs
<1>9. 0 \notin I /\ 0 \notin J
  OBVIOUS
<1> HIDE DEF old, new, m, w
<1>4. ASSUME NEW r \in Naming(N)
      PROVE  Matches(s, r, p.v6, p) <=> Matches(u, r, p.v6, p)
  <2>1. IsRule(r) /\ Conditions \subseteq DOMAIN r
    BY NamingAre DEF AreRules
  <2>2. /\ r.src.set # NoSet => s.sets[r.src.set] = u.sets[r.src.set]
        /\ r.dst.set # NoSet => s.sets[r.dst.set] = u.sets[r.dst.set]
    BY DEF Naming
  <2> QED
    BY <2>1, <2>2, KeyMatches
<1>5. ASSUME NEW k PROVE k \in I <=> k \in J
  <2>1. ASSUME k \in I PROVE k \in J
    <3>1. k \in 1 .. Len(old) /\ old[k].dir = p.dir /\ Matches(s, old[k], p.v6, p)
      BY <2>1 DEF Matches
    <3>2. k \in 1 .. Len(new) /\ new[k] = old[k] /\ old[k] \in Naming(N)
      BY <1>1, <3>1 DEF Alike
    <3> QED
      BY <1>4, <3>1, <3>2
  <2>2. ASSUME k \in J PROVE k \in I
    <3>1. k \in 1 .. Len(new) /\ new[k].dir = p.dir /\ Matches(u, new[k], p.v6, p)
      BY <2>2 DEF Matches
    <3>2. k \in 1 .. Len(old) /\ new[k] = old[k]
      BY <1>1, <3>1 DEF Alike
    <3>3. old[k] \in Naming(N)
      BY <1>1, <3>2
    <3> QED
      BY <1>4, <3>1, <3>2, <3>3
  <2> QED
    BY <2>1, <2>2
<1>6. m # 0 => old[m].dir = p.dir /\ m \in 1 .. Len(old)
  BY <1>2 DEF Matches
<1> HIDE DEF I, J
<1>10. I = J
  BY <1>5
<1>7. w = m
  BY <1>2, <1>3, <1>9, <1>10
<1>8. m # 0 => new[m] = old[m]
  BY <1>1, <1>6 DEF Alike
<1> QED
  BY <1>7, <1>8 DEF old, new, m, w

\* The last rule of a direction.
LEMMA LastIs ==
  ASSUME NEW S, NEW l \in Seq(S), NEW d
  PROVE  LastOf(l, d) # 0 => LastOf(l, d) \in 1 .. Len(l) /\ l[LastOf(l, d)].dir = d
<1> DEFINE I == {i \in 1 .. Len(l) : l[i].dir = d}
<1>1. LastOf(l, d) = IF I # {} THEN Max(I) ELSE 0
  BY DEF LastOf, SelectLastInSeq
<1>2. I \in SUBSET (1 .. Len(l)) /\ Len(l) \in Nat
  OBVIOUS
<1>3. I # {} => Max(I) \in I
  BY <1>2, MaxIn
<1> QED
  BY <1>1, <1>3

LEMMA AlikeLast ==
  ASSUME NEW S, NEW R, NEW a \in Seq(S), NEW b \in Seq(R), NEW d, Alike(a, b, d)
  PROVE  /\ LastOf(b, d) = LastOf(a, d)
         /\ LastOf(a, d) # 0 => b[LastOf(a, d)] = a[LastOf(a, d)]
<1> DEFINE I == {i \in 1 .. Len(a) : a[i].dir = d}
           J == {i \in 1 .. Len(b) : b[i].dir = d}
<1>1. /\ LastOf(a, d) = IF I # {} THEN Max(I) ELSE 0
      /\ LastOf(b, d) = IF J # {} THEN Max(J) ELSE 0
  BY DEF LastOf, SelectLastInSeq
<1>2. \A k : k \in I <=> k \in J
  BY DEF Alike
<1> HIDE DEF I, J
<1>3. I = J
  BY <1>2
<1>4. LastOf(a, d) # 0 => LastOf(a, d) \in 1 .. Len(a) /\ a[LastOf(a, d)].dir = d
  BY LastIs
<1>5. LastOf(b, d) = LastOf(a, d)
  BY <1>1, <1>3
<1> QED
  BY <1>4, <1>5 DEF Alike

-----------------------------------------------------------------------------
(* The verdict of a state on packets of one direction.                     *)

\* What a policy says.
Says(w) == CASE w = "allow" -> "accept" [] w = "reject" -> "reject" [] OTHER -> "drop"

LEMMA SaysEffective == ASSUME NEW w PROVE Says(EffPol(w)) = Says(w)
BY DEF Says, EffPol

LEMMA PolicyIs ==
  ASSUME NEW s, IsState(s), NEW p \in Packets
  PROVE  PolicyDecides([s EXCEPT !.panic = FALSE, !.etc = [d \in Directions |-> Unset]], p)
           = Says(s.policies[p.dir])
<1> DEFINE n == [d \in Directions |-> Unset]
           u == [s EXCEPT !.panic = FALSE, !.etc = n]
<1>1. s = [f \in StateFields |-> s[f]] /\ p.dir \in Directions
  BY ChainsAssumption DEF IsState
<1>2. n[p.dir] = Unset
  BY <1>1
<1> HIDE DEF n
<1>3. u.panic = FALSE /\ u.etc = n /\ u.policies = s.policies
  BY <1>1 DEF StateFields
<1> HIDE DEF u
<1>4. Policy(u, p.dir) = s.policies[p.dir]
  BY <1>2, <1>3 DEF Policy
<1>5. PolicyDecides(u, p) = Says(s.policies[p.dir])
  BY <1>4, Zenon DEF PolicyDecides, Says
<1> QED
  BY <1>5 DEF u, n

LEMMA VerdictIs ==
  ASSUME NEW s, IsState(s), NEW p \in Packets
  PROVE  StateVerdict(s, p) =
           IF FirstMatch(s, p) # 0 THEN RuleDecides(RulesFor(s, p)[FirstMatch(s, p)], p)
           ELSE Says(s.policies[p.dir])
BY PolicyIs, Zenon DEF StateVerdict

\* States with the same rules for a direction and policies that say the same.
LEMMA AlikeVerdict ==
  ASSUME NEW s, IsState(s), NEW u, IsState(u), NEW p \in Packets,
         \A n \in DOMAIN s.sets : s.sets[n] = u.sets[n],
         Alike(RulesFor(s, p), RulesFor(u, p), p.dir),
         Says(u.policies[p.dir]) = Says(s.policies[p.dir])
  PROVE  StateVerdict(u, p) = StateVerdict(s, p)
<1> DEFINE N == DOMAIN s.sets  M == DOMAIN u.sets
<1>1. RulesFor(s, p) \in Seq(Naming(N)) /\ RulesFor(u, p) \in Seq(Naming(M))
  BY ListOf
<1>2. \A n \in N : s.sets[n] = u.sets[n]
  OBVIOUS
<1> HIDE DEF N, M
<1>3. /\ FirstMatch(u, p) = FirstMatch(s, p)
      /\ FirstMatch(s, p) # 0 =>
           RulesFor(u, p)[FirstMatch(s, p)] = RulesFor(s, p)[FirstMatch(s, p)]
  BY <1>1, <1>2, AlikeFirst
<1> QED
  BY <1>3, VerdictIs

\* A catchall matches every packet of its direction, as does any rule of its
\* key that is in force.
LEMMA CatchallMatches ==
  ASSUME NEW N, NEW r \in Naming(N), NEW pol \in Texts, NEW p \in Packets,
         TupleKey(r) = TupleKey(Catchall(p.dir, pol)), ~r.disabled, ~r.expired, NEW s
  PROVE  Matches(s, r, p.v6, p)
<1> DEFINE c == Catchall(p.dir, pol)  e == Endpoint(NoNet, {}, "any")  any == "any"
<1>1. p.dir \in Directions
  BY ChainsAssumption
<1>2. /\ c \in Naming({})
      /\ c = [action |-> pol, dir |-> p.dir, iif |-> AnyIface, oif |-> AnyIface, proto |-> any,
              icmp |-> AnyType, src |-> e, dst |-> e,
              log |-> None, dapp |-> None, sapp |-> None, comment |-> pol,
              disabled |-> FALSE, expired |-> FALSE]
  BY <1>1, CatchallIs
<1>3. e.set = NoSet /\ e.net = NoNet /\ e.ports = {}
  BY DEF Endpoint
<1>4. any = "any"
  OBVIOUS
<1>5. TupleKey(r) = TupleKey(c)
  OBVIOUS
<1> HIDE DEF c, e, any
<1>6. /\ IsRule(r) /\ IsRule(c) /\ Conditions \subseteq DOMAIN r /\ Conditions \subseteq DOMAIN c
  BY <1>2, NamingAre DEF AreRules
<1>7. /\ c.dir = p.dir /\ c.iif = AnyIface /\ c.oif = AnyIface /\ c.proto = any /\ c.icmp = AnyType
      /\ c.src = e /\ c.dst = e
  BY <1>2
<1>8. /\ r.dir = p.dir /\ r.iif = AnyIface /\ r.oif = AnyIface /\ r.proto = any /\ r.icmp = AnyType
      /\ r.src = e /\ r.dst = e
  BY <1>5, <1>6, <1>7, KeyConditions
<1>9. \A x : InEndpoint(s, e, x, p.v6)
  BY <1>3 DEF InEndpoint
<1>10. \A x, y : InPorts(e.ports, x, y)
  BY <1>3 DEF InPorts
<1>11. r.src.ports \cup r.dst.ports = {}
  BY <1>3, <1>8
<1> QED
  BY <1>4, <1>8, <1>9, <1>10, <1>11 DEF Matches

\* A packet that some rule matches is decided by one.
LEMMA SomeMatch ==
  ASSUME NEW S, NEW s, NEW p, RulesFor(s, p) \in Seq(S), NEW k \in 1 .. Len(RulesFor(s, p)),
         Matches(s, RulesFor(s, p)[k], p.v6, p)
  PROVE  FirstMatch(s, p) # 0
<1> DEFINE l == RulesFor(s, p)
           I == {i \in 1 .. Len(l) : Matches(s, l[i], p.v6, p)}
<1>1. \A i \in I : (\A j \in I : i <= j) => FirstMatch(s, p) = i
  BY FirstIs
<1>2. I \in SUBSET Nat /\ I # {} /\ 0 \notin I
  OBVIOUS
<1> HIDE DEF I
<1>3. PICK i \in I : \A j \in I : i <= j
  BY <1>2, Smallest
<1> QED
  BY <1>1, <1>2, <1>3

\* A catchall at the end of a list decides what no rule of the list does.
LEMMA CatchallDecides ==
  ASSUME NEW s, IsState(s), NEW u, IsState(u), u.sets = s.sets, NEW p \in Packets,
         NEW pol \in {"allow", "deny", "reject"},
         RulesFor(u, p) = Append(RulesFor(s, p), Catchall(p.dir, pol)), FirstMatch(s, p) = 0
  PROVE  StateVerdict(u, p) = Says(pol)
<1> DEFINE l == RulesFor(s, p)  new == RulesFor(u, p)  c == Catchall(p.dir, pol)  N == DOMAIN s.sets
           k == Len(l) + 1
<1>1. l \in Seq(Naming(N)) /\ new \in Seq(Naming(N)) /\ new = Append(l, c)
  BY ListOf
<1>2. p.dir \in Directions /\ pol \in Texts
  BY ChainsAssumption, TextsAssumption
<1>3. c \in Naming({}) /\ ~c.disabled /\ ~c.expired /\ c.action = pol
  BY <1>2, CatchallIs
<1>4. Matches(u, c, p.v6, p)
  BY <1>2, <1>3, CatchallMatches
<1> HIDE DEF N, l, new, c
<1>5. /\ Len(new) = k /\ new[k] = c /\ k \in 1 .. Len(new) /\ Len(l) \in Nat
      /\ \A j \in 1 .. Len(l) : new[j] = l[j] /\ l[j] \in Naming(N)
  BY <1>1
<1>6. FirstMatch(u, p) = k
  <2> DEFINE J == {i \in 1 .. Len(new) : Matches(u, new[i], p.v6, p)}
  <2>1. \A i \in J : (\A j \in J : i <= j) => FirstMatch(u, p) = i
    BY <1>1, FirstIs DEF new
  <2>2. k \in J
    BY <1>4, <1>5
  <2>3. ASSUME NEW j \in J, ~(k <= j) PROVE FALSE
    <3>1. j \in 1 .. Len(l)
      BY <1>5, <2>3
    <3>2. Matches(u, l[j], p.v6, p) /\ l[j] \in Naming(N)
      BY <1>5, <3>1
    <3>3. IsRule(l[j]) /\ Conditions \subseteq DOMAIN l[j]
      BY <3>2, NamingAre DEF AreRules
    <3>4. Matches(s, l[j], p.v6, p)
      BY <3>2, <3>3, KeyMatches
    <3> QED
      BY <1>1, <3>1, <3>4, SomeMatch DEF l
  <2> HIDE DEF J
  <2> QED
    BY <2>1, <2>2, <2>3
<1>7. k # 0
  BY <1>5
<1>8. StateVerdict(u, p) = RuleDecides(c, p)
  BY <1>5, <1>6, <1>7, VerdictIs DEF new
<1>9. RuleDecides(c, p) = Says(pol)
  BY <1>3 DEF RuleDecides, Says
<1> QED
  BY <1>8, <1>9

\* A rule that decides does so before a list that goes on after it.
LEMMA DecidesBefore ==
  ASSUME NEW s, IsState(s), NEW u, IsState(u), u.sets = s.sets, NEW p \in Packets,
         Stands(RulesFor(s, p), RulesFor(u, p), {}), FirstMatch(s, p) # 0
  PROVE  StateVerdict(u, p) = StateVerdict(s, p)
<1> DEFINE N == DOMAIN s.sets  K == {}
<1>1. RulesFor(s, p) \in Seq(Naming(N)) /\ RulesFor(u, p) \in Seq(Naming(N))
  BY ListOf
<1>2. /\ \A n \in N : s.sets[n] = u.sets[n]
      /\ Stands(RulesFor(s, p), RulesFor(u, p), K)
      /\ TupleKey(RulesFor(s, p)[FirstMatch(s, p)]) \notin K
  OBVIOUS
<1> HIDE DEF N, K
<1>3. /\ FirstMatch(u, p) = FirstMatch(s, p)
      /\ RulesFor(u, p)[FirstMatch(u, p)] = RulesFor(s, p)[FirstMatch(s, p)]
  BY <1>1, <1>2, StandsFirst
<1> QED
  BY <1>3, VerdictIs

-----------------------------------------------------------------------------
(* Directions and families that a source says nothing of.                  *)

\* The catchall of a policy that is idle is so in a state that is alike.
LEMMA AlikeIdle ==
  ASSUME NEW s, IsState(s), NEW u, IsState(u), NEW p,
         Alike(RulesFor(s, p), RulesFor(u, p), p.dir), u.policies[p.dir] = s.policies[p.dir]
  PROVE  IdleCatchall(u, p) <=> IdleCatchall(s, p)
<1> DEFINE a == RulesFor(s, p)  b == RulesFor(u, p)  S == Naming(DOMAIN s.sets)  R == Naming(DOMAIN u.sets)
<1>1. a \in Seq(S) /\ b \in Seq(R) /\ Alike(a, b, p.dir)
  BY ListOf
<1> HIDE DEF a, b, S, R
<1>2. LastOf(b, p.dir) = LastOf(a, p.dir) /\ (LastOf(a, p.dir) # 0 => b[LastOf(a, p.dir)] = a[LastOf(a, p.dir)])
  BY <1>1, AlikeLast
<1>3. /\ IdleCatchall(s, p) <=> /\ LastOf(a, p.dir) # 0
                                /\ MatchExact(a[LastOf(a, p.dir)], Catchall(p.dir, EffPol(s.policies[p.dir])))
                                /\ ~Active(a[LastOf(a, p.dir)])
      /\ IdleCatchall(u, p) <=> /\ LastOf(b, p.dir) # 0
                                /\ MatchExact(b[LastOf(b, p.dir)], Catchall(p.dir, EffPol(u.policies[p.dir])))
                                /\ ~Active(b[LastOf(b, p.dir)])
  BY Zenon DEF IdleCatchall, a, b
<1> QED
  BY <1>2, <1>3

\* The stream of a packet's family.
StreamOf(four, six, p) == IF p.v6 THEN six ELSE four

\* The policies of another chain say nothing to a packet.
LEMMA OtherChain ==
  ASSUME NEW s, IsState(s), NEW chain \in ChainNames, NEW four \in Streams, NEW six \in Streams,
         NEW p \in Packets, Direction(chain) # p.dir, NEW u, u = WithPolicy(s, chain, four, six)
  PROVE  /\ IsState(u) /\ u.sets = s.sets /\ u.ipv6 = s.ipv6
         /\ Alike(RulesFor(s, p), RulesFor(u, p), p.dir) /\ u.policies[p.dir] = s.policies[p.dir]
         /\ StateVerdict(u, p) = StateVerdict(s, p) /\ (IdleCatchall(u, p) <=> IdleCatchall(s, p))
<1> DEFINE w    == WithPolicy(s, chain, four, six)
           d    == Direction(chain)
           eff4 == Effect(s, chain, four)
           eff6 == Effect(s, chain, six)
           base == BaseOf(s, chain, four, six)
           N    == DOMAIN s.sets
<1>1. /\ IsState(w) /\ w.sets = s.sets /\ w.ipv6 = s.ipv6 /\ w.panic = s.panic
      /\ w.policies = [s.policies EXCEPT ![d] = base]
      /\ w.rules4 = IF eff4 # base THEN PolicyCatchall(s.rules4, d, eff4) ELSE s.rules4
      /\ w.rules6 = IF s.ipv6 /\ eff6 # base THEN PolicyCatchall(s.rules6, d, eff6) ELSE s.rules6
      /\ Stands(s.rules4, w.rules4, {}) /\ Stands(s.rules6, w.rules6, {})
  BY WithPolicyIs, Zenon
<1>2. /\ s.policies \in [Directions -> Texts]
      /\ s.rules4 \in Seq(Naming(N)) /\ s.rules6 \in Seq(Naming(N))
  BY DEF IsState
<1>3. d \in Directions /\ p.dir \in Directions /\ d # p.dir
  BY DirectionType, ChainsAssumption
<1>4. eff4 \in Texts /\ eff6 \in Texts
  <2>1. eff4 \in {"allow", "deny", "reject"} /\ eff6 \in {"allow", "deny", "reject"}
    BY EffectType
  <2> HIDE DEF eff4, eff6
  <2> QED
    BY <2>1, TextsAssumption
<1> HIDE DEF eff4, eff6, base, d, N
<1>5. Alike(s.rules4, w.rules4, p.dir) /\ Alike(s.rules6, w.rules6, p.dir)
  BY <1>1, <1>2, <1>3, <1>4, AlikeCatchall, AlikeSame
<1>6. w.policies[p.dir] = s.policies[p.dir]
  BY <1>1, <1>2, <1>3
<1>7. Alike(RulesFor(s, p), RulesFor(w, p), p.dir)
  BY <1>5 DEF RulesFor
<1>8. u = w
  OBVIOUS
<1> HIDE DEF w
<1>9. /\ IsState(u) /\ u.sets = s.sets /\ u.ipv6 = s.ipv6
      /\ Alike(RulesFor(s, p), RulesFor(u, p), p.dir) /\ u.policies[p.dir] = s.policies[p.dir]
  BY <1>1, <1>6, <1>7, <1>8
<1>10. StateVerdict(u, p) = StateVerdict(s, p)
  BY <1>9, AlikeVerdict
<1>11. IdleCatchall(u, p) <=> IdleCatchall(s, p)
  BY <1>9, AlikeIdle
<1> QED
  BY <1>9, <1>10, <1>11

\* Nor those of its own chain that its family's dump does not declare: what
\* the state's policy says a catchall says, when the other family's is stored.
LEMMA OwnChain ==
  ASSUME NEW s, IsState(s), NEW chain \in ChainNames, NEW four \in Streams, NEW six \in Streams,
         NEW p \in Packets, Direction(chain) = p.dir, p.v6 => s.ipv6, ~IdleCatchall(s, p),
         chain \notin DOMAIN StreamOf(four, six, p).policies,
         NEW u, u = WithPolicy(s, chain, four, six)
  PROVE  /\ IsState(u) /\ u.sets = s.sets /\ u.ipv6 = s.ipv6
         /\ StateVerdict(u, p) = StateVerdict(s, p)
<1> DEFINE w    == WithPolicy(s, chain, four, six)
           d    == Direction(chain)
           eff4 == Effect(s, chain, four)
           eff6 == Effect(s, chain, six)
           base == BaseOf(s, chain, four, six)
           N    == DOMAIN s.sets
           eff  == EffPol(s.policies[p.dir])
           l    == RulesFor(s, p)
<1>1. /\ IsState(w) /\ w.sets = s.sets /\ w.ipv6 = s.ipv6 /\ w.panic = s.panic
      /\ w.policies = [s.policies EXCEPT ![d] = base]
      /\ w.rules4 = IF eff4 # base THEN PolicyCatchall(s.rules4, d, eff4) ELSE s.rules4
      /\ w.rules6 = IF s.ipv6 /\ eff6 # base THEN PolicyCatchall(s.rules6, d, eff6) ELSE s.rules6
      /\ Stands(s.rules4, w.rules4, {}) /\ Stands(s.rules6, w.rules6, {})
  BY WithPolicyIs, Zenon
<1>2. s.policies \in [Directions -> Texts] /\ p.dir \in Directions /\ p.v6 \in BOOLEAN
  BY ChainsAssumption DEF IsState, Both
<1>3. IF p.v6 THEN eff6 = eff ELSE eff4 = eff
  BY DEF Effect, StreamOf
<1>4. eff \in {"allow", "deny", "reject"} /\ Says(eff) = Says(s.policies[p.dir])
  BY SaysEffective DEF EffPol
<1>5. l \in Seq(Naming(N))
  BY ListOf
<1>6. IdleCatchall(s, p) <=> /\ LastOf(l, p.dir) # 0 /\ MatchExact(l[LastOf(l, p.dir)], Catchall(p.dir, eff))
                             /\ ~Active(l[LastOf(l, p.dir)])
  BY Zenon DEF IdleCatchall
<1>7. d = p.dir /\ w = u
  OBVIOUS
<1> HIDE DEF eff4, eff6, eff, base, d, w
<1>8. /\ IsState(u) /\ u.sets = s.sets /\ u.ipv6 = s.ipv6 /\ u.policies[p.dir] = base
      /\ RulesFor(u, p) = IF eff # base THEN PolicyCatchall(l, p.dir, eff) ELSE l
      /\ Stands(l, RulesFor(u, p), {})
  <2>1. CASE p.v6
    BY <1>1, <1>2, <1>3, <1>7, <2>1 DEF RulesFor
  <2>2. CASE ~p.v6
    BY <1>1, <1>2, <1>3, <1>7, <2>2 DEF RulesFor
  <2> QED
    BY <2>1, <2>2
<1>9. CASE FirstMatch(s, p) # 0
  BY <1>8, <1>9, DecidesBefore
<1>10. CASE FirstMatch(s, p) = 0
  <2>1. StateVerdict(s, p) = Says(eff)
    BY <1>4, <1>10, VerdictIs
  <2>2. CASE eff = base
    <3>1. Alike(RulesFor(s, p), RulesFor(u, p), p.dir)
      BY <1>8, <2>2, AlikeSame
    <3>2. Says(u.policies[p.dir]) = Says(s.policies[p.dir])
      BY <1>4, <1>8, <2>2
    <3> QED
      BY <1>8, <3>1, <3>2, AlikeVerdict
  <2>3. CASE eff # base /\ RulesFor(u, p) = Append(l, Catchall(p.dir, eff))
    BY <1>4, <1>8, <1>10, <2>1, <2>3, CatchallDecides
  <2>4. CASE eff # base /\ LastOf(l, p.dir) # 0 /\ MatchExact(l[LastOf(l, p.dir)], Catchall(p.dir, eff))
    <3> DEFINE k == LastOf(l, p.dir)  r == l[k]
    <3>1. k \in 1 .. Len(l) /\ r \in Naming(N) /\ Active(r)
      <4>1. k \in 1 .. Len(l)
        <5> DEFINE S == Naming(N)
        <5>1. l \in Seq(S)
          BY <1>5
        <5> HIDE DEF S, l, N
        <5> QED
          BY <2>4, <5>1, LastIs
      <4>2. Active(r)
        BY <1>6, <2>4
      <4> HIDE DEF k, l, N
      <4> QED
        BY <1>5, <4>1, <4>2
    <3>2. TupleKey(r) = TupleKey(Catchall(p.dir, eff))
      BY <2>4 DEF MatchExact
    <3>3. eff \in Texts
      BY <1>4, TextsAssumption
    <3> HIDE DEF r, k
    <3>4. Matches(s, r, p.v6, p)
      BY <3>1, <3>2, <3>3, CatchallMatches DEF Active
    <3>5. FirstMatch(s, p) # 0
      BY <1>5, <3>1, <3>4, SomeMatch DEF r
    <3> QED
      BY <1>10, <3>5
  <2>5. eff # base => \/ RulesFor(u, p) = Append(l, Catchall(p.dir, eff))
                      \/ LastOf(l, p.dir) # 0 /\ MatchExact(l[LastOf(l, p.dir)], Catchall(p.dir, eff))
    <3> HIDE DEF l
    <3> QED
      BY <1>8, Zenon DEF PolicyCatchall
  <2> QED
    BY <1>8, <2>2, <2>3, <2>4, <2>5
<1> QED
  BY <1>8, <1>9, <1>10

\* The three chains, for a packet whose chain the dump of its family does not
\* declare a policy for.
LEMMA QuietChains ==
  ASSUME NEW s, IsState(s), NEW four \in Streams, NEW six \in Streams, NEW p \in Packets,
         p.v6 => s.ipv6, ~IdleCatchall(s, p),
         \A c \in ChainNames : Direction(c) = p.dir => c \notin DOMAIN StreamOf(four, six, p).policies
  PROVE  LET input  == WithPolicy(s, "INPUT", four, six)
             output == WithPolicy(input, "OUTPUT", four, six) IN
         StateVerdict(WithPolicy(output, "FORWARD", four, six), p) = StateVerdict(s, p)
<1> DEFINE input  == WithPolicy(s, "INPUT", four, six)
           output == WithPolicy(input, "OUTPUT", four, six)
           last   == WithPolicy(output, "FORWARD", four, six)
<1>1. /\ "INPUT" \in ChainNames /\ "OUTPUT" \in ChainNames /\ "FORWARD" \in ChainNames
      /\ Direction("INPUT") = "in" /\ Direction("OUTPUT") = "out" /\ Direction("FORWARD") = "routed"
      /\ p.dir \in {"in", "out", "routed"}
  BY ChainsAssumption DEF ChainNames, Direction, Directions
<1> HIDE DEF input, output, last
<1>2. CASE p.dir = "in"
  <2>1. /\ IsState(input) /\ input.sets = s.sets /\ input.ipv6 = s.ipv6
        /\ StateVerdict(input, p) = StateVerdict(s, p)
    BY <1>1, <1>2, OwnChain DEF input
  <2>2. IsState(output) /\ StateVerdict(output, p) = StateVerdict(input, p)
    BY <1>1, <1>2, <2>1, OtherChain DEF output
  <2>3. StateVerdict(last, p) = StateVerdict(output, p)
    BY <1>1, <1>2, <2>2, OtherChain DEF last
  <2> QED
    BY <2>1, <2>2, <2>3 DEF last, output, input
<1>3. CASE p.dir = "out"
  <2>1. /\ IsState(input) /\ input.sets = s.sets /\ input.ipv6 = s.ipv6
        /\ StateVerdict(input, p) = StateVerdict(s, p) /\ ~IdleCatchall(input, p)
    BY <1>1, <1>3, OtherChain DEF input
  <2>2. IsState(output) /\ StateVerdict(output, p) = StateVerdict(input, p)
    BY <1>1, <1>3, <2>1, OwnChain DEF output
  <2>3. StateVerdict(last, p) = StateVerdict(output, p)
    BY <1>1, <1>3, <2>2, OtherChain DEF last
  <2> QED
    BY <2>1, <2>2, <2>3 DEF last, output, input
<1>4. CASE p.dir = "routed"
  <2>1. /\ IsState(input) /\ input.sets = s.sets /\ input.ipv6 = s.ipv6
        /\ StateVerdict(input, p) = StateVerdict(s, p) /\ ~IdleCatchall(input, p)
    BY <1>1, <1>4, OtherChain DEF input
  <2>2. /\ IsState(output) /\ StateVerdict(output, p) = StateVerdict(input, p)
        /\ output.ipv6 = input.ipv6 /\ ~IdleCatchall(output, p)
    BY <1>1, <1>4, <2>1, OtherChain DEF output
  <2>3. StateVerdict(last, p) = StateVerdict(output, p)
    BY <1>1, <1>4, <2>1, <2>2, OwnChain DEF last
  <2> QED
    BY <2>1, <2>2, <2>3 DEF last, output, input
<1> QED
  BY <1>1, <1>2, <1>3, <1>4

-----------------------------------------------------------------------------
(* A dump that says nothing of a chain.                                    *)

\* The rules of a chain are of its direction; of no specs there are none.
LEMMA ChainDirs ==
  ASSUME NEW specs \in Seq(Specs), NEW dir \in Directions, NEW v6
  PROVE  LET rules == ChainRules(specs, dir, v6).rules IN
         /\ \A k \in 1 .. Len(rules) : rules[k].dir = dir
         /\ specs = <<>> => rules = <<>>
<1> DEFINE n == Len(specs)
<1>1. n \in Nat /\ \A i \in 1 .. n : specs[i] \in Specs
  OBVIOUS
<1>2. PICK t \in [0 .. n -> Heads] :
        /\ t[0] = NoHead
        /\ \A i \in 1 .. n : t[i] = NextRule(t[i - 1], specs[i], dir, v6)
        /\ ChainRules(specs, dir, v6) = t[n]
  BY ChainTrace, Zenon
<1> DEFINE Fine(i) == \A k \in 1 .. Len(t[i].rules) : t[i].rules[k].dir = dir
           T == {i \in 0 .. n : ~Fine(i)}
<1>3. NoHead.rules = <<>>
  BY DEF NoHead
<1>4. Fine(0)
  BY <1>2, <1>3
<1>5. ASSUME NEW i \in 1 .. n, Fine(i - 1) PROVE Fine(i)
  <2> DEFINE a == t[i - 1]  spec == specs[i]
             outcome == Outcome(spec, v6, a.rules = <<>>)
             r == RuleFrom(spec, dir)
  <2>1. i - 1 \in 0 .. n
    BY <1>1
  <2>2. a \in Heads /\ spec \in Specs /\ t[i] = NextRule(a, spec, dir, v6)
    BY <1>1, <1>2, <2>1
  <2>3. \A k \in 1 .. Len(a.rules) : a.rules[k].dir = dir
    BY <1>5
  <2>4. outcome = "rule" => r \in Naming({}) /\ r.dir = dir
    <3>1. outcome = "rule" => spec.target \in {"ACCEPT", "DROP", "REJECT"}
      BY RuleOutcome
    <3> HIDE DEF outcome, spec
    <3> QED
      BY <2>2, <3>1, RuleFromIs
  <2>5. NextRule(a, spec, dir, v6).rules \in {a.rules, Append(a.rules, r)}
        /\ (NextRule(a, spec, dir, v6).rules # a.rules => outcome = "rule")
    BY DEF NextRule
  <2> DEFINE b == t[i].rules
  <2>6. a.rules \in Seq(Naming({}))
    BY <2>2 DEF Heads
  <2>7. b = a.rules \/ (b = Append(a.rules, r) /\ outcome = "rule")
    BY <2>2, <2>5
  <2> DEFINE q == a.rules  S == Naming({})
  <2> HIDE DEF outcome, r, b, q, S
  <2>8. CASE b = q
    BY <2>3, <2>8 DEF b, q
  <2>9. CASE b = Append(q, r) /\ outcome = "rule"
    <3>1. q \in Seq(S) /\ r \in S /\ r.dir = dir
      BY <2>4, <2>6, <2>9 DEF q, S
    <3>2. /\ Len(b) = Len(q) + 1 /\ b[Len(q) + 1] = r /\ Len(q) \in Nat
          /\ \A k \in 1 .. Len(q) : b[k] = q[k]
      BY <2>9, <3>1
    <3>3. \A k \in 1 .. Len(b) : k \in 1 .. Len(q) \/ k = Len(q) + 1
      BY <3>2
    <3>4. \A k \in 1 .. Len(q) : q[k].dir = dir
      BY <2>3 DEF q
    <3>5. \A k \in 1 .. Len(b) : b[k].dir = dir
      BY <3>1, <3>2, <3>3, <3>4
    <3> QED
      BY <3>5 DEF b
  <2> QED
    BY <2>7, <2>8, <2>9 DEF q
<1> HIDE DEF Fine
<1>6. T = {}
  <2> HIDE DEF n
  <2>1. 0 \notin T /\ \A i \in 1 .. n : i - 1 \notin T => i \notin T
    BY <1>1, <1>4, <1>5
  <2>2. T \in SUBSET (0 .. n)
    OBVIOUS
  <2> HIDE DEF T
  <2> QED
    BY <1>1, <2>1, <2>2, NoneFails
<1>7. n \in 0 .. n
  BY <1>1
<1>8. Fine(n)
  BY <1>6, <1>7
<1>9. specs = <<>> => n = 0
  OBVIOUS
<1> QED
  BY <1>2, <1>3, <1>8, <1>9 DEF Fine

\* The chain of a packet is the one of its direction.
LEMMA ChainOfIs ==
  ASSUME NEW p \in Packets
  PROVE  /\ ChainOf(p) \in ChainNames /\ Direction(ChainOf(p)) = p.dir
         /\ \A c \in ChainNames : Direction(c) = p.dir => c = ChainOf(p)
<1>1. p.dir \in {"in", "out", "routed"}
  BY ChainsAssumption DEF Directions
<1>2. \E c \in ChainNames : Direction(c) = p.dir
  BY <1>1 DEF ChainNames, Direction
<1>3. \A b, c \in ChainNames : Direction(b) = Direction(c) => b = c
  BY DEF ChainNames, Direction
<1> QED
  BY <1>2, <1>3 DEF ChainOf

\* A dump that says nothing of a packet's chain brings neither a rule for it
\* nor a policy.
LEMMA SilentRead ==
  ASSUME NEW dump \in Dumps \cup {NoDump}, NEW p \in Packets, NEW v6,
         Silent(dump, p), Read(dump, v6).ok
  PROVE  LET s == Read(dump, v6) IN
         /\ \A c \in ChainNames : Direction(c) = p.dir => c \notin DOMAIN s.policies
         /\ \A k \in 1 .. Len(s.rules) : s.rules[k].dir # p.dir
<1>1. CASE dump = NoDump
  BY <1>1 DEF Read, NoStream
<1>2. CASE dump # NoDump
  <2> DEFINE t == ParseSave(dump)
             b == ChainOf(p)
             seqs == [i \in DOMAIN t.order |-> ChainRules(t.rules[t.order[i]], Direction(t.order[i]), v6).rules]
             C == {d \in ChainNames : t.policy[d] \in DOMAIN PolicyWords}
             policies == [c \in C |-> PolicyWords[t.policy[c]]]
             ok == /\ t.ok /\ ~dump.othertables
                   /\ \A c \in ChainNames : /\ ChainRules(t.rules[c], Direction(c), v6).ok
                                            /\ t.policy[c] \in {None, "-"} \cup DOMAIN PolicyWords
  <2>1. Read(dump, v6) = [ok |-> ok, rules |-> FlattenSeq(seqs), policies |-> policies]
    BY <1>2 DEF Read, Stream
  <2>2. t.ok
    BY <2>1
  <2>3. /\ t \in Tables
        /\ \A c \in ChainNames : /\ t.rules[c] = Restored(dump.filter, c)
                                 /\ Declared(dump, c) = {t.policy[c]} \cap DOMAIN Words
    BY <1>2, <2>2, ParsedAsRestored
  <2>4. b \in ChainNames /\ Direction(b) = p.dir /\ \A c \in ChainNames : Direction(c) = p.dir => c = b
    BY ChainOfIs
  <2>5. t.rules[b] = <<>> /\ t.policy[b] \notin DOMAIN Words
    BY <1>2, <2>3, <2>4 DEF Silent
  <2> HIDE DEF t, b
  <2>6. b \notin DOMAIN policies
    BY <2>5 DEF Words, PolicyWords
  <2> HIDE DEF policies, C, ok
  <2>7. /\ t.order \in Seq(ChainNames) /\ t.rules \in [ChainNames -> Seq(Specs)]
        /\ DOMAIN t.order = 1 .. Len(t.order) /\ Len(t.order) \in Nat
    BY <2>3 DEF Tables
  <2>8. ASSUME NEW i \in DOMAIN t.order
        PROVE  /\ seqs[i] \in Seq(Naming({}))
               /\ \A k \in 1 .. Len(seqs[i]) : seqs[i][k].dir # p.dir
    <3> DEFINE c == t.order[i]  specs == t.rules[c]  dir == Direction(c)  q == ChainRules(specs, dir, v6).rules
    <3>1. c \in ChainNames /\ specs \in Seq(Specs) /\ dir \in Directions /\ seqs[i] = q
      BY <2>7, DirectionType
    <3>2. c = b => specs = <<>>
      BY <2>5
    <3>3. c # b => dir # p.dir
      BY <2>4, <3>1
    <3> HIDE DEF c, specs, dir
    <3>4. q \in Seq(Naming({}))
      BY <3>1, ChainType DEF Heads
    <3>5. (\A k \in 1 .. Len(q) : q[k].dir = dir) /\ (specs = <<>> => q = <<>>)
      BY <3>1, ChainDirs
    <3> HIDE DEF q, seqs
    <3> QED
      BY <3>1, <3>2, <3>3, <3>4, <3>5
  <2> DEFINE S == Naming({})
  <2>9. seqs \in Seq(Seq(S)) /\ Len(seqs) = Len(t.order) /\ DOMAIN seqs = DOMAIN t.order
    <3>1. \A i \in 1 .. Len(t.order) : seqs[i] \in Seq(S)
      BY <2>7, <2>8
    <3>2. seqs = [i \in 1 .. Len(t.order) |-> seqs[i]]
      BY <2>7
    <3> DEFINE m == Len(t.order)  A == Seq(S)
    <3>3. m \in Nat /\ DOMAIN t.order = 1 .. m
      BY <2>7
    <3> HIDE DEF seqs, S, m, A
    <3>4. seqs = [i \in 1 .. m |-> seqs[i]] /\ \A i \in 1 .. m : seqs[i] \in A
      BY <3>1, <3>2 DEF m, A
    <3>5. seqs \in Seq(A) /\ Len(seqs) = m /\ DOMAIN seqs = 1 .. m
      BY <3>3, <3>4
    <3> QED
      BY <3>3, <3>5 DEF m, A
  <2> HIDE DEF seqs, S
  <2> DEFINE flat == FlattenSeq(seqs)  n == Len(seqs)
  <2>10. PICK own, pos : Comes(flat, seqs, n, own, pos)
    BY <2>9, FlattenIndex
  <2>11. \A k \in 1 .. Len(flat) : flat[k].dir # p.dir
    <3> SUFFICES ASSUME NEW k \in 1 .. Len(flat) PROVE flat[k].dir # p.dir
      OBVIOUS
    <3> HIDE DEF flat, n
    <3>1. own[k] \in 1 .. n /\ pos[k] \in 1 .. Len(seqs[own[k]]) /\ flat[k] = seqs[own[k]][pos[k]]
      BY <2>10 DEF Comes
    <3>2. own[k] \in DOMAIN t.order
      BY <2>7, <2>9, <3>1 DEF n
    <3> QED
      BY <2>8, <3>1, <3>2
  <2> HIDE DEF flat
  <2>12. Read(dump, v6).rules = flat /\ Read(dump, v6).policies = policies
    BY <2>1 DEF flat
  <2> QED
    BY <2>4, <2>6, <2>11, <2>12
<1> QED
  BY <1>1, <1>2

\* What an accepted import of dumps makes of the verdict on a packet whose
\* chain its family's dump says nothing of.
LEMMA SilentDumps ==
  ASSUME NEW s, IsState(s), NEW d4 \in Dumps \cup {NoDump}, NEW d6 \in Dumps \cup {NoDump},
         ~Refused(d4, d6), NEW p \in Packets, Silent(IF p.v6 THEN d6 ELSE d4, p),
         p.v6 => s.ipv6, ~IdleCatchall(s, p)
  PROVE  StateVerdict(Merged(s, d4, d6), p) = StateVerdict(s, p)
<1> DEFINE four   == Read(d4, FALSE)
           six    == Read(d6, TRUE)
           j      == Joined(s, d4, d6)
           input  == WithPolicy(j, "INPUT", four, six)
           output == WithPolicy(input, "OUTPUT", four, six)
           N      == DOMAIN s.sets
           own    == StreamOf(four, six, p)
           dump   == IF p.v6 THEN d6 ELSE d4
           v6     == IF p.v6 THEN TRUE ELSE FALSE
<1>1. Merged(s, d4, d6) = WithPolicy(output, "FORWARD", four, six)
  BY MergedSteps, Zenon
<1>2. four \in Streams /\ six \in Streams /\ four.ok /\ six.ok
  BY ReadRules DEF Refused
<1>3. /\ IsState(j) /\ j.sets = s.sets /\ j.policies = s.policies /\ j.panic = s.panic
      /\ j.ipv6 = (s.ipv6 \/ d6 # NoDump)
      /\ j.rules4 = MergeRules(s.rules4, four.rules)
      /\ j.rules6 = MergeRules(s.rules6, six.rules)
      /\ Stands(s.rules4, j.rules4, KeysOf(four.rules))
      /\ Stands(s.rules6, j.rules6, KeysOf(six.rules))
  BY JoinedIs
<1>4. own = Read(dump, v6) /\ dump \in Dumps \cup {NoDump} /\ own.ok
  BY <1>2 DEF StreamOf
<1>5. /\ \A c \in ChainNames : Direction(c) = p.dir => c \notin DOMAIN own.policies
      /\ \A k \in 1 .. Len(own.rules) : own.rules[k].dir # p.dir
  <2> HIDE DEF own, dump, v6, four, six
  <2>1. Silent(dump, p) /\ Read(dump, v6).ok
    BY <1>4 DEF dump
  <2> QED
    BY <1>4, <2>1, SilentRead
<1>6. own.rules \in Seq(Naming(N)) /\ RulesFor(s, p) \in Seq(Naming(N))
  <2>1. four.rules \in Seq(Naming(N)) /\ six.rules \in Seq(Naming(N))
    BY ReadRules
  <2> QED
    BY <2>1, ListOf DEF StreamOf
<1>7. RulesFor(j, p) = MergeRules(RulesFor(s, p), own.rules)
  BY <1>3 DEF RulesFor, StreamOf
<1> HIDE DEF four, six, j, own, N
<1>8. Alike(RulesFor(s, p), RulesFor(j, p), p.dir)
  BY <1>5, <1>6, <1>7, AlikeFile
<1>9. StateVerdict(j, p) = StateVerdict(s, p)
  BY <1>3, <1>8, AlikeVerdict
<1>10. ~IdleCatchall(j, p)
  BY <1>3, <1>8, AlikeIdle
<1>11. p.v6 => j.ipv6
  BY <1>3
<1>12. StateVerdict(WithPolicy(output, "FORWARD", four, six), p) = StateVerdict(j, p)
  BY <1>2, <1>3, <1>5, <1>10, <1>11, QuietChains DEF own
<1> QED
  BY <1>1, <1>9, <1>12

\* What an accepted import of firewalld's makes of the verdict on a packet that
\* does not come in.
LEMMA ZonesAreIn ==
  ASSUME NEW s, IsState(s), NEW fw, IsConfig(fw), ~FwRefused(fw), NEW p \in Packets,
         p.dir # "in", DOMAIN s.sets \cap DOMAIN FwSets(fw) = {}
  PROVE  StateVerdict(FwMerged(s, fw), p) = StateVerdict(s, p)
<1> DEFINE u == FwMerged(s, fw)
           N == DOMAIN u.sets
           src == IF p.v6 THEN FwRules(fw, TRUE) ELSE FwRules(fw, FALSE)
           I == InRules(SetNames(fw))
<1>1. /\ IsState(u) /\ u.sets = MergeSets(s.sets, FwSets(fw)) /\ u.policies = s.policies
      /\ u.rules4 = MergeRules(s.rules4, FwRules(fw, FALSE))
      /\ u.rules6 = MergeRules(s.rules6, FwRules(fw, TRUE))
  BY FwMergedKeeps
<1>2. /\ DOMAIN u.sets = DOMAIN s.sets \cup SetNames(fw)
      /\ \A n \in DOMAIN s.sets : u.sets[n] = s.sets[n]
  <2> DEFINE a == s.sets  b == FwSets(fw)  c == u.sets
  <2>1. c = MergeSets(a, b) /\ DOMAIN a \cap DOMAIN b = {}
    BY <1>1
  <2> HIDE DEF a, b, c
  <2>2. DOMAIN c = DOMAIN a \cup DOMAIN b /\ \A n \in DOMAIN a : c[n] = a[n]
    BY <2>1, MergeSetsIs
  <2> QED
    BY <2>2 DEF a, b, c, SetNames
<1>3. src \in Seq(I)
  BY FwRulesType
<1>4. RulesFor(u, p) = MergeRules(RulesFor(s, p), src)
  BY <1>1 DEF RulesFor
<1>5. RulesFor(s, p) \in Seq(Naming(DOMAIN s.sets))
  BY ListOf
<1> HIDE DEF u, src
<1>6. I \subseteq Naming(N) /\ \A r \in I : r.dir = "in"
  <2>1. I \subseteq Naming(SetNames(fw)) /\ \A r \in I : r.dir = "in"
    BY DEF InRules
  <2>2. Naming(SetNames(fw)) \subseteq Naming(N)
    BY <1>2, NamingGrows
  <2> QED
    BY <2>1, <2>2
<1>7. RulesFor(s, p) \in Seq(Naming(N))
  BY <1>2, <1>5, NamingGrows
<1> HIDE DEF I, N
<1>8. \A k \in 1 .. Len(src) : src[k] \in I
  <2> HIDE DEF src
  <2> QED
    BY <1>3
<1>9. src \in Seq(Naming(N)) /\ \A k \in 1 .. Len(src) : src[k].dir # p.dir
  <2> DEFINE B == Naming(N)
  <2> HIDE DEF B
  <2>1. src \in Seq(B)
    BY <1>3, <1>6 DEF B
  <2> QED
    BY <1>6, <1>8, <2>1 DEF B
<1>10. Alike(RulesFor(s, p), RulesFor(u, p), p.dir)
  BY <1>4, <1>7, <1>9, AlikeFile
<1>11. StateVerdict(u, p) = StateVerdict(s, p)
  BY <1>1, <1>2, <1>10, AlikeVerdict
<1> QED
  BY <1>11 DEF u

(* An import widens and narrows nothing for a family or a direction that   *)
(* its source says nothing of (iptAppendPolicyCatchall, emit): the rules   *)
(* that come in are of other directions, and where the policy of the other *)
(* family is stored a catchall says what the one before it said.           *)
THEOREM OthersAreLeft == Spec => []OthersStand
<1>1. ASSUME Made PROVE OthersStand
  <2>1. ASSUME NEW i \in LastFrom("iptables"), NEW p \in New, Silent(DumpFor(i, p), p),
               p.v6 => i.before.ipv6, ~IdleCatchall(i.before, p)
        PROVE  StateVerdict(st, p) = StateVerdict(i.before, p)
    <3>1. i \in LastImport /\ i.kind = "iptables" /\ p \in Packets
      BY DEF LastFrom, New
    <3>2. IsState(i.before) /\ MadeFrom(i, st)
      BY <1>1, <3>1 DEF Made
    <3> DEFINE d4 == i.source.v4  d6 == i.source.v6  b == i.before
    <3>3. /\ d4 \in Dumps \cup {NoDump} /\ d6 \in Dumps \cup {NoDump} /\ ~Refused(d4, d6)
          /\ st = Merged(b, d4, d6) /\ IsState(b)
      BY <3>1, <3>2 DEF MadeFrom
    <3>4. Silent(IF p.v6 THEN d6 ELSE d4, p) /\ (p.v6 => b.ipv6) /\ ~IdleCatchall(b, p)
      BY <2>1 DEF DumpFor
    <3> HIDE DEF d4, d6, b
    <3>5. StateVerdict(st, p) = StateVerdict(b, p)
      BY <3>1, <3>3, <3>4, SilentDumps
    <3> QED
      BY <3>5 DEF b
  <2>2. ASSUME NEW i \in LastFrom("firewalld"), NEW p \in New \ Opening("in"), ~Grows(i)
        PROVE  StateVerdict(st, p) = StateVerdict(i.before, p)
    <3>1. i \in LastImport /\ i.kind = "firewalld" /\ p \in Packets /\ p.dir # "in"
      BY DEF LastFrom, New, Opening
    <3>2. IsState(i.before) /\ MadeFrom(i, st)
      BY <1>1, <3>1 DEF Made
    <3> DEFINE b == i.before  fw == i.source
    <3>3. IsConfig(fw) /\ ~FwRefused(fw) /\ st = FwMerged(b, fw) /\ IsState(b)
      BY <3>1, <3>2 DEF MadeFrom
    <3>4. DOMAIN b.sets \cap DOMAIN FwSets(fw) = {}
      BY <2>2, <3>1 DEF Grows
    <3> HIDE DEF b, fw
    <3>5. StateVerdict(st, p) = StateVerdict(b, p)
      BY <3>1, <3>3, <3>4, ZonesAreIn
    <3> QED
      BY <3>5 DEF b
  <2> QED
    BY <2>1, <2>2 DEF OthersStand
<1> QED
  BY <1>1, StateIsMade, PTL

-----------------------------------------------------------------------------
(* The first rule of a list that matches a packet, through a merge.        *)

\* The first of the rules before the n-th, or it, that matches has an action.
FirstIn(l, n, s, p, w) ==
  \E k \in 1 .. n : /\ Matches(s, l[k], p.v6, p) /\ l[k].action = w
                    /\ \A j \in 1 .. n : j < k => ~Matches(s, l[j], p.v6, p)
NoneIn(l, n, s, p) == \A k \in 1 .. n : ~Matches(s, l[k], p.v6, p)

\* Rules of one key that match the packet have one action.
AgreeOn(src, s, p) ==
  \A a, b \in 1 .. Len(src) :
      Matches(s, src[a], p.v6, p) /\ TupleKey(src[a]) = TupleKey(src[b]) => src[a].action = src[b].action

Enabled(l) == \A k \in 1 .. Len(l) : ~l[k].disabled /\ ~l[k].expired

\* A list that a merge made of the first n rules of a file, out of nothing.
MadeOf(l, src, n) ==
  \A k \in 1 .. Len(l) :
      \E m \in 1 .. n : TupleKey(l[k]) = TupleKey(src[m]) /\ l[k].action = src[m].action

LEMMA FirstPrefix ==
  ASSUME NEW l, NEW n \in Nat, NEW s, NEW p, NEW w
  PROVE  /\ NoneIn(l, n + 1, s, p) <=> NoneIn(l, n, s, p) /\ ~Matches(s, l[n + 1], p.v6, p)
         /\ FirstIn(l, n + 1, s, p, w) <=>
              \/ FirstIn(l, n, s, p, w)
              \/ NoneIn(l, n, s, p) /\ Matches(s, l[n + 1], p.v6, p) /\ l[n + 1].action = w
<1>1. \A k \in 1 .. n + 1 : k \in 1 .. n \/ k = n + 1
  OBVIOUS
<1>2. n + 1 \in 1 .. n + 1 /\ \A k \in 1 .. n : k \in 1 .. n + 1 /\ k < n + 1 /\ ~(n + 1 < k)
  OBVIOUS
<1>3. NoneIn(l, n + 1, s, p) <=> NoneIn(l, n, s, p) /\ ~Matches(s, l[n + 1], p.v6, p)
  BY <1>1, <1>2 DEF NoneIn
<1>4. FirstIn(l, n, s, p, w) => FirstIn(l, n + 1, s, p, w)
  BY <1>1, <1>2 DEF FirstIn
<1>5. NoneIn(l, n, s, p) /\ Matches(s, l[n + 1], p.v6, p) /\ l[n + 1].action = w =>
        FirstIn(l, n + 1, s, p, w)
  BY <1>1, <1>2 DEF FirstIn, NoneIn
<1>6. FirstIn(l, n + 1, s, p, w) =>
        \/ FirstIn(l, n, s, p, w)
        \/ NoneIn(l, n, s, p) /\ Matches(s, l[n + 1], p.v6, p) /\ l[n + 1].action = w
  BY <1>1, <1>2 DEF FirstIn, NoneIn
<1> QED
  BY <1>3, <1>4, <1>5, <1>6

\* Only what is before the end counts.
LEMMA FirstSame ==
  ASSUME NEW a, NEW b, NEW n \in Nat, \A k \in 1 .. n : b[k] = a[k], NEW s, NEW p, NEW w
  PROVE  /\ NoneIn(a, n, s, p) <=> NoneIn(b, n, s, p)
         /\ FirstIn(a, n, s, p, w) <=> FirstIn(b, n, s, p, w)
BY DEF NoneIn, FirstIn

\* One more rule appended.
LEMMA FirstAppend ==
  ASSUME NEW S, NEW l \in Seq(S), NEW r \in S, NEW s, NEW p, NEW w
  PROVE  LET a == Append(l, r) IN
         /\ NoneIn(a, Len(a), s, p) <=> NoneIn(l, Len(l), s, p) /\ ~Matches(s, r, p.v6, p)
         /\ FirstIn(a, Len(a), s, p, w) <=>
              \/ FirstIn(l, Len(l), s, p, w)
              \/ NoneIn(l, Len(l), s, p) /\ Matches(s, r, p.v6, p) /\ r.action = w
<1> DEFINE a == Append(l, r)  n == Len(l)
<1>1. n \in Nat /\ Len(a) = n + 1 /\ a[n + 1] = r /\ \A k \in 1 .. n : a[k] = l[k]
  OBVIOUS
<1> HIDE DEF a, n
<1>2. /\ NoneIn(a, n + 1, s, p) <=> NoneIn(a, n, s, p) /\ ~Matches(s, a[n + 1], p.v6, p)
      /\ FirstIn(a, n + 1, s, p, w) <=>
           \/ FirstIn(a, n, s, p, w)
           \/ NoneIn(a, n, s, p) /\ Matches(s, a[n + 1], p.v6, p) /\ a[n + 1].action = w
  BY <1>1, FirstPrefix
<1>3. /\ NoneIn(l, n, s, p) <=> NoneIn(a, n, s, p)
      /\ FirstIn(l, n, s, p, w) <=> FirstIn(a, n, s, p, w)
  BY <1>1, FirstSame
<1> QED
  BY <1>1, <1>2, <1>3 DEF a, n

\* Rules with the fields that the lists have.
LEMMA ListedRule ==
  ASSUME NEW N, NEW r \in Naming(N)
  PROVE  IsRule(r) /\ Conditions \subseteq DOMAIN r
BY NamingAre DEF AreRules

\* Enabled rules of one key match the same packets, and name the same sets.
LEMMA KeyAlike ==
  ASSUME NEW N, NEW M, NEW a \in Naming(N), NEW b \in Naming(M), TupleKey(a) = TupleKey(b),
         ~a.disabled, ~a.expired, ~b.disabled, ~b.expired, NEW s, NEW p
  PROVE  Matches(s, a, p.v6, p) <=> Matches(s, b, p.v6, p)
<1>1. /\ IsRule(a) /\ IsRule(b) /\ Conditions \subseteq DOMAIN a /\ Conditions \subseteq DOMAIN b
  BY ListedRule
<1>2. a.disabled = b.disabled /\ a.expired = b.expired
  <2>1. /\ a.disabled \in BOOLEAN /\ b.disabled \in BOOLEAN
        /\ a.expired \in BOOLEAN /\ b.expired \in BOOLEAN
    BY DEF Naming, Listed
  <2> QED
    BY <2>1
<1> QED
  BY <1>1, <1>2, KeyMatches

(* A step of the merge: what decides so far decides as in the file so far. *)
LEMMA MergeDecides ==
  ASSUME NEW N, NEW src \in Seq(Naming(N)), Enabled(src), NEW s, NEW p, AgreeOn(src, s, p),
         NEW i \in 1 .. Len(src), NEW a \in Seq(Naming(N)),
         MadeOf(a, src, i - 1), Enabled(a),
         NoneIn(src, i - 1, s, p) => NoneIn(a, Len(a), s, p),
         \A w : FirstIn(src, i - 1, s, p, w) => FirstIn(a, Len(a), s, p, w)
  PROVE  LET b == MergeRule(a, src[i]) IN
         /\ b \in Seq(Naming(N)) /\ MadeOf(b, src, i) /\ Enabled(b)
         /\ NoneIn(src, i, s, p) => NoneIn(b, Len(b), s, p)
         /\ \A w : FirstIn(src, i, s, p, w) => FirstIn(b, Len(b), s, p, w)
<1> DEFINE r == src[i]  b == MergeRule(a, r)  S == Naming(N)  m == i - 1
<1>1. /\ r \in S /\ ~r.disabled /\ ~r.expired /\ m \in Nat /\ i = m + 1 /\ m + 1 \in 1 .. Len(src)
      /\ \A k \in 1 .. m : k \in 1 .. m + 1 /\ k \in 1 .. Len(src)
      /\ a \in Seq(S) /\ Len(a) \in Nat /\ \A k \in 1 .. Len(a) : a[k] \in S
  BY DEF Enabled
<1>2. b \in Seq(S)
  BY <1>1, NamingAre, MergedType
<1>3. \A w : /\ NoneIn(src, m + 1, s, p) <=> NoneIn(src, m, s, p) /\ ~Matches(s, src[m + 1], p.v6, p)
             /\ FirstIn(src, m + 1, s, p, w) <=>
                  \/ FirstIn(src, m, s, p, w)
                  \/ NoneIn(src, m, s, p) /\ Matches(s, src[m + 1], p.v6, p) /\ src[m + 1].action = w
  BY <1>1, FirstPrefix
<1>4. \A k \in 1 .. Len(a) : \E q \in 1 .. m : TupleKey(a[k]) = TupleKey(src[q]) /\ a[k].action = src[q].action
  BY DEF MadeOf
<1>5. CASE Same(a, r) = {} /\ b = Append(a, r)
  <2>1. \A w : LET c == Append(a, r) IN
          /\ NoneIn(c, Len(c), s, p) <=> NoneIn(a, Len(a), s, p) /\ ~Matches(s, r, p.v6, p)
          /\ FirstIn(c, Len(c), s, p, w) <=>
               \/ FirstIn(a, Len(a), s, p, w)
               \/ NoneIn(a, Len(a), s, p) /\ Matches(s, r, p.v6, p) /\ r.action = w
    BY <1>1, FirstAppend
  <2>2. \A w : /\ NoneIn(b, Len(b), s, p) <=> NoneIn(a, Len(a), s, p) /\ ~Matches(s, r, p.v6, p)
               /\ FirstIn(b, Len(b), s, p, w) <=>
                    \/ FirstIn(a, Len(a), s, p, w)
                    \/ NoneIn(a, Len(a), s, p) /\ Matches(s, r, p.v6, p) /\ r.action = w
    BY <1>5, <2>1, Zenon
  <2>3. /\ Len(b) = Len(a) + 1 /\ b[Len(a) + 1] = r /\ \A k \in 1 .. Len(a) : b[k] = a[k]
        /\ \A k \in 1 .. Len(b) : k \in 1 .. Len(a) \/ k = Len(a) + 1
    BY <1>1, <1>5
  <2> HIDE DEF b, S, m
  <2>4. MadeOf(b, src, m + 1)
    <3> SUFFICES ASSUME NEW k \in 1 .. Len(b)
                 PROVE  \E q \in 1 .. m + 1 : TupleKey(b[k]) = TupleKey(src[q]) /\ b[k].action = src[q].action
      BY DEF MadeOf
    <3>1. CASE k = Len(a) + 1
      <4>1. m + 1 \in 1 .. m + 1 /\ b[k] = src[m + 1]
        BY <1>1, <2>3, <3>1 DEF r
      <4> QED
        BY <4>1
    <3>2. CASE k \in 1 .. Len(a)
      <4>1. PICK q \in 1 .. m : TupleKey(a[k]) = TupleKey(src[q]) /\ a[k].action = src[q].action
        BY <1>4, <3>2
      <4>2. q \in 1 .. m + 1 /\ b[k] = a[k]
        BY <1>1, <2>3, <3>2
      <4> QED
        BY <4>1, <4>2
    <3> QED
      BY <2>3, <3>1, <3>2
  <2>5. Enabled(b)
    BY <1>1, <2>3 DEF Enabled
  <2>6. NoneIn(src, m + 1, s, p) => NoneIn(b, Len(b), s, p)
    BY <1>1, <1>3, <2>2 DEF r, m
  <2>7. \A w : FirstIn(src, m + 1, s, p, w) => FirstIn(b, Len(b), s, p, w)
    BY <1>1, <1>3, <2>2 DEF r, m
  <2> QED
    BY <1>1, <1>2, <2>4, <2>5, <2>6, <2>7 DEF b, S, m
<1>6. ASSUME NEW j \in Same(a, r)
      PROVE  /\ j \in 1 .. Len(a) /\ a[j] \in S /\ TupleKey(a[j]) = TupleKey(r)
             /\ Matches(s, a[j], p.v6, p) <=> Matches(s, r, p.v6, p)
             /\ Matches(s, r, p.v6, p) => a[j].action = r.action
             /\ Matches(s, r, p.v6, p) => ~NoneIn(src, m, s, p)
  <2>1. j \in 1 .. Len(a) /\ a[j] \in S /\ TupleKey(a[j]) = TupleKey(r)
    BY <1>1 DEF Same
  <2>2. ~a[j].disabled /\ ~a[j].expired
    BY <2>1 DEF Enabled
  <2>3. Matches(s, a[j], p.v6, p) <=> Matches(s, r, p.v6, p)
    BY <1>1, <2>1, <2>2, KeyAlike
  <2>4. PICK q \in 1 .. m : TupleKey(a[j]) = TupleKey(src[q]) /\ a[j].action = src[q].action
    BY <1>4, <2>1
  <2>5. Matches(s, r, p.v6, p) => a[j].action = r.action
    <3>1. q \in 1 .. Len(src) /\ i \in 1 .. Len(src) /\ TupleKey(r) = TupleKey(src[q])
      BY <1>1, <2>1, <2>4
    <3> QED
      BY <2>4, <3>1 DEF AgreeOn
  <2>6. Matches(s, r, p.v6, p) => ~NoneIn(src, m, s, p)
    <3>1. q \in 1 .. Len(src) /\ src[q] \in S /\ ~src[q].disabled /\ ~src[q].expired
      BY <1>1, <2>4 DEF Enabled
    <3>2. Matches(s, r, p.v6, p) <=> Matches(s, src[q], p.v6, p)
      BY <1>1, <2>1, <2>4, <3>1, KeyAlike
    <3> QED
      BY <2>4, <3>2 DEF NoneIn
  <2> QED
    BY <2>1, <2>3, <2>5, <2>6
<1>7. Same(a, r) # {} => /\ NoneIn(src, m + 1, s, p) => NoneIn(src, m, s, p)
                         /\ \A w : FirstIn(src, m + 1, s, p, w) => FirstIn(src, m, s, p, w)
  BY <1>1, <1>3, <1>6
<1>8. \A k \in 1 .. Len(a) : \E q \in 1 .. m + 1 : TupleKey(a[k]) = TupleKey(src[q]) /\ a[k].action = src[q].action
  BY <1>1, <1>4
<1>9. CASE Same(a, r) # {} /\ b = a
  <2>1. MadeOf(b, src, m + 1)
    BY <1>8, <1>9 DEF MadeOf
  <2> HIDE DEF b, m
  <2>2. Enabled(b) /\ (NoneIn(src, m + 1, s, p) => NoneIn(b, Len(b), s, p))
    BY <1>7, <1>9 DEF m
  <2>3. \A w : FirstIn(src, m + 1, s, p, w) => FirstIn(b, Len(b), s, p, w)
    BY <1>7, <1>9 DEF m
  <2> QED
    BY <1>1, <1>2, <2>1, <2>2, <2>3 DEF b, m
<1>10. ASSUME NEW j \in Same(a, r), b = [a EXCEPT ![j] = Replaced(a[j], r)]
       PROVE  /\ MadeOf(b, src, m + 1) /\ Enabled(b)
              /\ NoneIn(src, m + 1, s, p) => NoneIn(b, Len(b), s, p)
              /\ \A w : FirstIn(src, m + 1, s, p, w) => FirstIn(b, Len(b), s, p, w)
  <2> DEFINE o == a[j]  n == Replaced(o, r)
  <2>1. /\ j \in 1 .. Len(a) /\ o \in S /\ TupleKey(o) = TupleKey(r)
        /\ Matches(s, o, p.v6, p) <=> Matches(s, r, p.v6, p)
        /\ Matches(s, r, p.v6, p) => o.action = r.action
    BY <1>6
  <2>2. Same(a, r) # {} /\ ~o.disabled /\ ~o.expired
    BY <2>1 DEF Enabled
  <2> HIDE DEF o
  <2>3. n \in S /\ TupleKey(n) = TupleKey(r) /\ n.disabled = o.disabled /\ n.expired = o.expired
    <3>1. n \in S
      BY <1>1, <2>1, NamingAre DEF AreRules
    <3>2. IsRule(r)
      BY <1>1, ListedRule
    <3> QED
      BY <3>1, <3>2, ReplacedKeeps
  <2>4. n.action = r.action
    BY <1>1 DEF Replaced, Naming, Listed
  <2> HIDE DEF n
  <2>5. Matches(s, n, p.v6, p) <=> Matches(s, r, p.v6, p)
    BY <1>1, <2>2, <2>3, KeyAlike
  <2>6. b = [a EXCEPT ![j] = n]
    BY <1>10 DEF n, o
  <2> HIDE DEF b, S, r, m
  <2>7. Len(b) = Len(a) /\ \A k \in 1 .. Len(a) : b[k] = IF k = j THEN n ELSE a[k]
    BY <1>1, <2>1, <2>6
  <2>8. \A k \in 1 .. Len(a) : /\ Matches(s, b[k], p.v6, p) <=> Matches(s, a[k], p.v6, p)
                               /\ Matches(s, a[k], p.v6, p) => b[k].action = a[k].action
    BY <2>1, <2>4, <2>5, <2>7 DEF o
  <2>9. MadeOf(b, src, m + 1)
    <3> SUFFICES ASSUME NEW k \in 1 .. Len(a)
                 PROVE  \E q \in 1 .. m + 1 : TupleKey(b[k]) = TupleKey(src[q]) /\ b[k].action = src[q].action
      BY <2>7 DEF MadeOf
    <3>1. CASE k = j
      <4>1. TupleKey(b[k]) = TupleKey(r) /\ b[k].action = r.action
        BY <2>3, <2>4, <2>7, <3>1
      <4>2. m + 1 \in 1 .. m + 1 /\ r = src[m + 1]
        BY <1>1 DEF r
      <4> QED
        BY <4>1, <4>2
    <3>2. CASE k # j
      BY <1>8, <2>7, <3>2
    <3> QED
      BY <3>1, <3>2
  <2>10. Enabled(b)
    BY <2>2, <2>3, <2>7 DEF Enabled
  <2>11. NoneIn(a, Len(a), s, p) => NoneIn(b, Len(b), s, p)
    BY <2>7, <2>8 DEF NoneIn
  <2>12. \A w : FirstIn(a, Len(a), s, p, w) => FirstIn(b, Len(b), s, p, w)
    BY <2>7, <2>8 DEF FirstIn
  <2> QED
    BY <1>7, <2>2, <2>9, <2>10, <2>11, <2>12 DEF m
<1>11. \/ Same(a, r) = {} /\ b = Append(a, r)
       \/ Same(a, r) # {} /\ b = a
       \/ \E j \in Same(a, r) : b = [a EXCEPT ![j] = Replaced(a[j], r)]
  BY Outcomes
<1>12. m + 1 = i
  BY <1>1
<1> HIDE DEF b, S, r, m
<1>13. CASE \E j \in Same(a, r) : b = [a EXCEPT ![j] = Replaced(a[j], r)]
  <2>1. /\ MadeOf(b, src, m + 1) /\ Enabled(b)
        /\ NoneIn(src, m + 1, s, p) => NoneIn(b, Len(b), s, p)
        /\ \A w : FirstIn(src, m + 1, s, p, w) => FirstIn(b, Len(b), s, p, w)
    BY <1>10, <1>13
  <2> QED
    BY <1>2, <1>12, <2>1 DEF b, S, r
<1> QED
  BY <1>5, <1>9, <1>11, <1>13 DEF b, S, r

\* The lists that a merge goes along.
MergedAlong(t, S, rules, src) ==
  /\ t \in [0 .. Len(src) -> Seq(S)]
  /\ t[0] = rules
  /\ \A i \in 1 .. Len(src) : t[i] = MergeRule(t[i - 1], src[i])
  /\ MergeRules(rules, src) = t[Len(src)]

LEMMA AlongFile ==
  ASSUME NEW S, AreRules(S), NEW rules \in Seq(S), NEW src \in Seq(S)
  PROVE  \E t : MergedAlong(t, S, rules, src)
<1>1. PICK t \in [0 .. Len(src) -> Seq(S)] :
        /\ t[0] = rules
        /\ \A i \in 1 .. Len(src) : t[i] = MergeRule(t[i - 1], src[i])
        /\ MergeRules(rules, src) = t[Len(src)]
  BY FileTrace
<1> QED
  BY <1>1, Zenon DEF MergedAlong

(* What decides in a file decides in the list that a merge makes of it,    *)
(* though later rules of one key take the place of earlier ones.           *)
LEMMA FileDecides ==
  ASSUME NEW N, NEW first \in Seq(Naming(N)), Len(first) = 0,
         NEW src \in Seq(Naming(N)), Enabled(src), NEW s, NEW p, AgreeOn(src, s, p)
  PROVE  LET l == MergeRules(first, src) IN
         /\ l \in Seq(Naming(N)) /\ Enabled(l)
         /\ NoneIn(src, Len(src), s, p) => NoneIn(l, Len(l), s, p)
         /\ \A w : FirstIn(src, Len(src), s, p, w) => FirstIn(l, Len(l), s, p, w)
<1> DEFINE n == Len(src)  S == Naming(N)
<1>0. AreRules(S) /\ src \in Seq(S) /\ n \in Nat /\ first \in Seq(S)
  BY NamingAre
<1>a. \E t : MergedAlong(t, S, first, src)
  <2> HIDE DEF S
  <2> QED
    BY <1>0, AlongFile
<1>b. PICK t : MergedAlong(t, S, first, src)
  BY <1>a
<1>1. /\ t \in [0 .. n -> Seq(S)]
      /\ t[0] = first
      /\ \A i \in 1 .. n : t[i] = MergeRule(t[i - 1], src[i])
      /\ MergeRules(first, src) = t[n]
  BY <1>b DEF MergedAlong
<1> DEFINE Fine(i) == /\ MadeOf(t[i], src, i) /\ Enabled(t[i])
                      /\ NoneIn(src, i, s, p) => NoneIn(t[i], Len(t[i]), s, p)
                      /\ \A w : FirstIn(src, i, s, p, w) => FirstIn(t[i], Len(t[i]), s, p, w)
           T == {i \in 0 .. n : ~Fine(i)}
<1>2. Fine(0)
  <2>1. MadeOf(first, src, 0) /\ Enabled(first) /\ NoneIn(first, Len(first), s, p)
    BY <1>0 DEF MadeOf, Enabled, NoneIn
  <2>2. \A w : ~FirstIn(src, 0, s, p, w)
    BY DEF FirstIn
  <2> QED
    BY <1>1, <2>1, <2>2
<1>3. ASSUME NEW i \in 1 .. n, Fine(i - 1) PROVE Fine(i)
  <2> DEFINE a == t[i - 1]
  <2>1. i - 1 \in 0 .. n
    BY <1>0
  <2>2. a \in Seq(S) /\ t[i] = MergeRule(a, src[i])
    BY <1>1, <2>1
  <2>3. /\ MadeOf(a, src, i - 1) /\ Enabled(a)
        /\ NoneIn(src, i - 1, s, p) => NoneIn(a, Len(a), s, p)
        /\ \A w : FirstIn(src, i - 1, s, p, w) => FirstIn(a, Len(a), s, p, w)
    BY <1>3
  <2> HIDE DEF a
  <2> DEFINE b == MergeRule(a, src[i])
  <2>4. /\ b \in Seq(Naming(N)) /\ MadeOf(b, src, i) /\ Enabled(b)
        /\ NoneIn(src, i, s, p) => NoneIn(b, Len(b), s, p)
        /\ \A w : FirstIn(src, i, s, p, w) => FirstIn(b, Len(b), s, p, w)
    BY <2>2, <2>3, MergeDecides
  <2>5. t[i] = b
    BY <2>2
  <2> HIDE DEF b
  <2> QED
    BY <2>4, <2>5
<1> HIDE DEF Fine
<1>4. T = {}
  <2> HIDE DEF n
  <2>1. 0 \notin T /\ \A i \in 1 .. n : i - 1 \notin T => i \notin T
    BY <1>0, <1>2, <1>3
  <2>2. T \in SUBSET (0 .. n)
    OBVIOUS
  <2> HIDE DEF T
  <2> QED
    BY <1>0, <2>1, <2>2, NoneFails
<1>5. n \in 0 .. n
  BY <1>0
<1>6. Fine(n) /\ t[n] \in Seq(S)
  BY <1>1, <1>4, <1>5
<1> QED
  BY <1>1, <1>6 DEF Fine

-----------------------------------------------------------------------------
(* What iptables says by a rule, and by a chain of them.                   *)

LEMMA TargetsAre ==
  /\ DOMAIN Words = {"ACCEPT", "DROP", "REJECT"} /\ DOMAIN PolicyWords = DOMAIN Words
  /\ \A w \in DOMAIN Words : /\ Verdicts4[w] \in {"allow", "deny", "reject"}
                             /\ Says(Verdicts4[w]) = Words[w] /\ PolicyWords[w] = Verdicts4[w]
BY DEF Words, Verdicts4, PolicyWords, Says

LEMMA ProtosAre ==
  None \notin Protos \cup {"all", "any", "tcp", "udp", "RETURN"} /\ "any" \notin Protos
BY DEF None, Protos

\* A rule that is made of options matches what they do.
LEMMA SpecIs ==
  ASSUME NEW spec \in Specs, NEW p \in New, NEW first, Outcome(spec, p.v6, first) = "rule", NEW s
  PROVE  LET r == RuleFrom(spec, p.dir) IN
         /\ r \in Naming({}) /\ ~r.disabled /\ ~r.expired
         /\ spec.target \in DOMAIN Words /\ r.action = Verdicts4[spec.target]
         /\ Matches(s, r, p.v6, p) <=> SpecMatches(spec, p)
<1> DEFINE r == RuleFrom(spec, p.dir)  proto == ProtoOf(spec)
           src == Endpoint(spec.src, spec.sports, proto)
           dst == Endpoint(spec.dst, spec.dports, proto)
           Fits == spec.p \in {None, "all", p.proto}
<1>1. /\ Supported(spec, p.v6) /\ spec.ct = None /\ spec.target \in {"ACCEPT", "DROP", "REJECT"}
  BY RuleOutcome
<1>2. p \in Packets /\ p.dir \in Directions
  BY ChainsAssumption DEF New
<1>3. /\ r \in Naming({})
      /\ r = [action |-> Verdicts4[spec.target], dir |-> p.dir, iif |-> Iface(spec.iif),
              oif |-> Iface(spec.oif), proto |-> proto, icmp |-> spec.icmp, src |-> src, dst |-> dst,
              log |-> None, dapp |-> None, sapp |-> None, comment |-> None,
              disabled |-> FALSE, expired |-> FALSE]
  BY <1>1, <1>2, RuleFromIs
<1>4. /\ spec.p \in {None, "all"} \cup Protos
      /\ spec.src # NoNet => spec.src.v6 = p.v6
      /\ spec.dst # NoNet => spec.dst.v6 = p.v6
      /\ spec.sports \cup spec.dports # {} => spec.p \in {"tcp", "udp"}
  BY <1>1 DEF Supported, OptionsFit, PortsFit, AddrFits
<1>5. proto \in {"any", p.proto} <=> Fits
  <2>1. CASE spec.p \in {None, "all"}
    BY <2>1 DEF ProtoOf
  <2>2. CASE spec.p \notin {None, "all"}
    BY <1>4, <2>2, ProtosAre DEF ProtoOf
  <2> QED
    BY <2>1, <2>2
<1>6. ASSUME NEW net, NEW ports, NEW x
      PROVE  InEndpoint(s, Endpoint(net, ports, proto), x, p.v6) <=>
               (net # NoNet => net.v6 = p.v6 /\ x \in Block(net))
  BY DEF InEndpoint, Endpoint
<1>7. ASSUME NEW net, NEW ports, NEW x, Fits
      PROVE  InPorts(Endpoint(net, ports, proto).ports, x, p.proto) <=> InRanges(ports, x)
  <2> DEFINE made == {[lo |-> q.lo, hi |-> q.hi, proto |-> proto] : q \in ports}
  <2>1. Endpoint(net, ports, proto).ports = made
    BY DEF Endpoint
  <2>2. made # {} <=> ports # {}
    OBVIOUS
  <2>3. (\E q \in made : q.proto \in {"any", p.proto} /\ x \in q.lo .. q.hi) <=>
          \E q \in ports : x \in q.lo .. q.hi
    <3> HIDE DEF proto, Fits
    <3>1. ASSUME NEW q \in made, x \in q.lo .. q.hi PROVE \E o \in ports : x \in o.lo .. o.hi
      BY <3>1
    <3>2. ASSUME NEW o \in ports, x \in o.lo .. o.hi
          PROVE  \E q \in made : q.proto \in {"any", p.proto} /\ x \in q.lo .. q.hi
      <4> DEFINE q == [lo |-> o.lo, hi |-> o.hi, proto |-> proto]
      <4>1. q \in made /\ q.proto = proto /\ q.lo = o.lo /\ q.hi = o.hi
        OBVIOUS
      <4> HIDE DEF q, made
      <4> QED
        BY <1>5, <1>7, <3>2, <4>1
    <3> HIDE DEF made
    <3> QED
      BY <3>1, <3>2, Zenon
  <2> HIDE DEF made
  <2> QED
    BY <2>1, <2>2, <2>3 DEF InPorts, InRanges
<1>8. src.ports \cup dst.ports # {} <=> spec.sports \cup spec.dports # {}
  BY DEF Endpoint
<1>9. Fits /\ spec.sports \cup spec.dports # {} => p.proto \in {"tcp", "udp"}
  BY <1>4, ProtosAre
<1>10. ASSUME NEW n, NEW x
       PROVE  (Iface(n) = AnyIface \/ x \in Ifaces[Iface(n)]) <=>
                (n \in {AnyIface, "+"} \/ x \in Ifaces[n])
  BY DEF Iface
<1> DEFINE sin == InEndpoint(s, src, p.src, p.v6)  din == InEndpoint(s, dst, p.dst, p.v6)
           sp  == InPorts(src.ports, p.sport, p.proto)  dp == InPorts(dst.ports, p.dport, p.proto)
           any == "any"  iif == Iface(spec.iif)  oif == Iface(spec.oif)
<1>11. /\ ~r.disabled /\ ~r.expired /\ r.action = Verdicts4[spec.target] /\ r.dir = p.dir
       /\ r.iif = iif /\ r.oif = oif /\ r.proto = proto
       /\ r.icmp = spec.icmp /\ r.src = src /\ r.dst = dst
  <2> DEFINE act == Verdicts4[spec.target]
  <2> HIDE DEF r, src, dst, proto, act, iif, oif
  <2>1. r = [action |-> act, dir |-> p.dir, iif |-> iif,
             oif |-> oif, proto |-> proto, icmp |-> spec.icmp, src |-> src, dst |-> dst,
             log |-> None, dapp |-> None, sapp |-> None, comment |-> None,
             disabled |-> FALSE, expired |-> FALSE]
    BY <1>3 DEF act, iif, oif
  <2>2. /\ ~r.disabled /\ ~r.expired /\ r.action = act /\ r.dir = p.dir
        /\ r.iif = iif /\ r.oif = oif /\ r.proto = proto
        /\ r.icmp = spec.icmp /\ r.src = src /\ r.dst = dst
    BY <2>1
  <2> QED
    BY <2>2 DEF act
<1> HIDE DEF r
<1>12. Matches(s, r, p.v6, p) <=>
         /\ iif = AnyIface \/ p.iif \in Ifaces[iif]
         /\ oif = AnyIface \/ p.oif \in Ifaces[oif]
         /\ proto \in {"any", p.proto}
         /\ spec.icmp \in {AnyType, p.icmp}
         /\ sin /\ din /\ sp /\ dp
         /\ src.ports \cup dst.ports # {} => p.proto \in {"tcp", "udp"}
  <2> HIDE DEF src, dst, proto, iif, oif
  <2> QED
    BY <1>11, Zenon DEF Matches
<1>13. SpecMatches(spec, p) <=>
         /\ Fits
         /\ spec.iif \in {AnyIface, "+"} \/ p.iif \in Ifaces[spec.iif]
         /\ spec.oif \in {AnyIface, "+"} \/ p.oif \in Ifaces[spec.oif]
         /\ spec.src # NoNet => p.src \in Block(spec.src)
         /\ spec.dst # NoNet => p.dst \in Block(spec.dst)
         /\ InRanges(spec.sports, p.sport) /\ InRanges(spec.dports, p.dport)
         /\ spec.icmp \in {AnyType, p.icmp}
  BY <1>1, Zenon DEF SpecMatches
<1>14. /\ sin <=> (spec.src # NoNet => p.src \in Block(spec.src))
       /\ din <=> (spec.dst # NoNet => p.dst \in Block(spec.dst))
  BY <1>4, <1>6
<1>15. Fits => /\ sp <=> InRanges(spec.sports, p.sport)
               /\ dp <=> InRanges(spec.dports, p.dport)
  BY <1>7
<1>16. /\ (iif = AnyIface \/ p.iif \in Ifaces[iif]) <=>
            (spec.iif \in {AnyIface, "+"} \/ p.iif \in Ifaces[spec.iif])
       /\ (oif = AnyIface \/ p.oif \in Ifaces[oif]) <=>
            (spec.oif \in {AnyIface, "+"} \/ p.oif \in Ifaces[spec.oif])
  BY <1>10
<1> HIDE DEF Fits, sin, din, sp, dp, src, dst, proto, iif, oif
<1>17. Matches(s, r, p.v6, p) <=> SpecMatches(spec, p)
  BY <1>5, <1>8, <1>9, <1>12, <1>13, <1>14, <1>15, <1>16
<1> QED
  BY <1>1, <1>3, <1>11, <1>17, TargetsAre DEF r

\* Options that no rule is made of, in a chain without an error.
LEMMA NoRuleOf ==
  ASSUME NEW spec, NEW p \in New, NEW first, Outcome(spec, p.v6, first) \notin {"rule", "error"}
  PROVE  \/ /\ Outcome(spec, p.v6, first) = "nothing"
            /\ spec.target = None \/ ~SpecMatches(spec, p)
         \/ /\ Outcome(spec, p.v6, first) = "return" /\ spec.target # None
            /\ spec.target \notin DOMAIN Words /\ SpecMatches(spec, p)
<1>1. Supported(spec, p.v6) /\ p.ct = "new"
  BY DEF Outcome, New
<1>2. CASE spec.ct # None
  <2>1. ~SpecMatches(spec, p)
    BY <1>1, <1>2 DEF SpecMatches
  <2>2. Outcome(spec, p.v6, first) = "nothing"
    BY <1>1, <1>2 DEF Outcome
  <2> QED
    BY <2>1, <2>2
<1>3. CASE spec.ct = None
  <2>1. CASE spec.target = None
    <3>1. spec.target # "RETURN"
      BY <2>1, ProtosAre
    <3>2. Outcome(spec, p.v6, first) = "nothing"
      <4> DEFINE in == CASE ~RejectFits(spec)      -> "error"
                         [] spec.target = None     -> "nothing"
                         [] spec.target = "RETURN" -> IF Matched(spec) THEN "error" ELSE "return"
                         [] OTHER                  -> "rule"
      <4>1. Outcome(spec, p.v6, first) = in
        BY <1>1, <1>3 DEF Outcome
      <4>2. CASE RejectFits(spec)
        BY <2>1, <3>1, <4>1, <4>2
      <4>3. CASE ~RejectFits(spec)
        BY <2>1, <3>1, <4>1, <4>3
      <4> QED
        BY <4>2, <4>3
    <3> QED
      BY <2>1, <3>2
  <2>2. CASE spec.target # None
    <3>1. /\ Outcome(spec, p.v6, first) = "return"
          /\ spec.target = "RETURN" /\ ~Matched(spec)
      BY <1>1, <1>3, <2>2 DEF Outcome
    <3>2. SpecMatches(spec, p)
      BY <1>3, <3>1 DEF Matched, SpecMatches, InRanges
    <3> QED
      BY <2>2, <3>1, <3>2, TargetsAre
  <2> QED
    BY <2>1, <2>2
<1> QED
  BY <1>2, <1>3

-----------------------------------------------------------------------------
(* A chain of iptables and the rules that are made of it.                  *)

\* A rule that goes on to the next, and those that one is the first not to.
Skips(spec, p) == spec.target = None \/ ~SpecMatches(spec, p)
AllSkip(specs, n, p) == \A j \in 1 .. n : Skips(specs[j], p)
Hits(specs, n, h, p) ==
  h \in 1 .. n /\ ~Skips(specs[h], p) /\ \A j \in 1 .. n : j < h => Skips(specs[j], p)

LEMMA HitPrefix ==
  ASSUME NEW specs, NEW n \in Nat, NEW p
  PROVE  /\ AllSkip(specs, n + 1, p) <=> AllSkip(specs, n, p) /\ Skips(specs[n + 1], p)
         /\ \A h : Hits(specs, n + 1, h, p) <=>
                    \/ Hits(specs, n, h, p)
                    \/ h = n + 1 /\ AllSkip(specs, n, p) /\ ~Skips(specs[n + 1], p)
<1>1. \A k \in 1 .. n + 1 : k \in 1 .. n \/ k = n + 1
  OBVIOUS
<1>2. n + 1 \in 1 .. n + 1 /\ \A k \in 1 .. n : k \in 1 .. n + 1 /\ k < n + 1 /\ ~(n + 1 < k)
  OBVIOUS
<1>3. AllSkip(specs, n + 1, p) <=> AllSkip(specs, n, p) /\ Skips(specs[n + 1], p)
  BY <1>1, <1>2 DEF AllSkip
<1>4. ASSUME NEW h
      PROVE  Hits(specs, n + 1, h, p) <=>
                    \/ Hits(specs, n, h, p)
                    \/ h = n + 1 /\ AllSkip(specs, n, p) /\ ~Skips(specs[n + 1], p)
  <2>1. Hits(specs, n, h, p) => Hits(specs, n + 1, h, p)
    BY <1>1, <1>2 DEF Hits
  <2>2. h = n + 1 /\ AllSkip(specs, n, p) /\ ~Skips(specs[n + 1], p) => Hits(specs, n + 1, h, p)
    BY <1>1, <1>2 DEF Hits, AllSkip
  <2>3. Hits(specs, n + 1, h, p) =>
          \/ Hits(specs, n, h, p)
          \/ h = n + 1 /\ AllSkip(specs, n, p) /\ ~Skips(specs[n + 1], p)
    BY <1>1, <1>2 DEF Hits, AllSkip
  <2> QED
    BY <2>1, <2>2, <2>3
<1> QED
  BY <1>3, <1>4

\* Rules that say what the first rules of a chain say, or that it is over.
Answers(rules, over, specs, n, s, p) ==
  /\ AllSkip(specs, n, p) => ~over /\ NoneIn(rules, Len(rules), s, p)
  /\ \A h : Hits(specs, n, h, p) =>
              IF specs[h].target \in DOMAIN Words
              THEN FirstIn(rules, Len(rules), s, p, Verdicts4[specs[h].target])
              ELSE over /\ NoneIn(rules, Len(rules), s, p)

\* What one more rule of a chain becomes, without an error.
LEMMA NextAnswers ==
  ASSUME NEW specs \in Seq(Specs), NEW i \in 1 .. Len(specs), NEW p \in New, NEW a \in Heads, NEW s,
         NextRule(a, specs[i], p.dir, p.v6).ok,
         a.ok => Answers(a.rules, a.over, specs, i - 1, s, p)
  PROVE  LET b == NextRule(a, specs[i], p.dir, p.v6) IN Answers(b.rules, b.over, specs, i, s, p)
<1> DEFINE spec == specs[i]  m == i - 1  first == a.rules = <<>>
           outcome == Outcome(spec, p.v6, first)
           r == RuleFrom(spec, p.dir)
           b == NextRule(a, spec, p.dir, p.v6)
           S == Naming({})
<1>1. /\ m \in Nat /\ i = m + 1 /\ spec \in Specs /\ spec = specs[m + 1]
      /\ a.ok \in BOOLEAN /\ a.over \in BOOLEAN /\ a.rules \in Seq(S) /\ b.ok
  BY DEF Heads
<1>2. b = IF a.over THEN a
          ELSE [ok    |-> a.ok /\ outcome # "error",
                over  |-> outcome = "return",
                rules |-> IF outcome = "rule" THEN Append(a.rules, r) ELSE a.rules]
  BY Zenon DEF NextRule
<1>3. /\ AllSkip(specs, m + 1, p) <=> AllSkip(specs, m, p) /\ Skips(spec, p)
      /\ \A h : Hits(specs, m + 1, h, p) <=>
                 \/ Hits(specs, m, h, p)
                 \/ h = m + 1 /\ AllSkip(specs, m, p) /\ ~Skips(spec, p)
  BY <1>1, HitPrefix
<1>4. outcome = "rule" =>
        /\ r \in S /\ spec.target \in DOMAIN Words /\ r.action = Verdicts4[spec.target]
        /\ Matches(s, r, p.v6, p) <=> SpecMatches(spec, p)
  <2>1. spec \in Specs
    BY <1>1
  <2> HIDE DEF spec, first
  <2> QED
    BY <2>1, SpecIs
<1>5. outcome \notin {"rule", "error"} =>
        \/ outcome = "nothing" /\ Skips(spec, p)
        \/ outcome = "return" /\ ~Skips(spec, p) /\ spec.target \notin DOMAIN Words
  <2> HIDE DEF spec, first
  <2> QED
    BY NoRuleOf DEF Skips
<1>6. a.ok
  <2> HIDE DEF b, outcome, r
  <2> QED
    BY <1>1, <1>2
<1>7. Answers(a.rules, a.over, specs, m, s, p)
  BY <1>6
<1> DEFINE q == a.rules  t == b.rules
<1>8. i = m + 1 /\ specs[m + 1] = spec
  BY <1>1
<1>9. /\ AllSkip(specs, m, p) => ~a.over /\ NoneIn(q, Len(q), s, p)
      /\ \A h : Hits(specs, m, h, p) =>
                  IF specs[h].target \in DOMAIN Words
                  THEN FirstIn(q, Len(q), s, p, Verdicts4[specs[h].target])
                  ELSE a.over /\ NoneIn(q, Len(q), s, p)
  BY <1>7, Zenon DEF Answers
<1> HIDE DEF m, spec, r, b, first, outcome, S, q, t
<1>10. CASE a.over
  <2>1. b.over = a.over /\ t = q
    BY <1>2, <1>10 DEF t, q
  <2>2. \A h : Hits(specs, m + 1, h, p) => Hits(specs, m, h, p)
    BY <1>3, <1>9, <1>10
  <2>3. ~AllSkip(specs, m + 1, p)
    BY <1>3, <1>9, <1>10
  <2> QED
    BY <1>8, <1>9, <2>1, <2>2, <2>3, Zenon DEF Answers, b, t, spec
<1>11. CASE ~a.over /\ outcome = "rule"
  <2>1. ~b.over /\ t = Append(q, r) /\ q \in Seq(S) /\ r \in S
    BY <1>1, <1>2, <1>4, <1>11 DEF t, q
  <2>2. \A w : /\ NoneIn(t, Len(t), s, p) <=> NoneIn(q, Len(q), s, p) /\ ~Matches(s, r, p.v6, p)
               /\ FirstIn(t, Len(t), s, p, w) <=>
                    \/ FirstIn(q, Len(q), s, p, w)
                    \/ NoneIn(q, Len(q), s, p) /\ Matches(s, r, p.v6, p) /\ r.action = w
    BY <2>1, FirstAppend
  <2>3. spec.target # None
    BY <1>4, <1>11, TargetsAre DEF None
  <2>4. Skips(spec, p) <=> ~Matches(s, r, p.v6, p)
    BY <1>4, <1>11, <2>3 DEF Skips
  <2>5. AllSkip(specs, m + 1, p) => ~b.over /\ NoneIn(t, Len(t), s, p)
    BY <1>3, <1>9, <2>1, <2>2, <2>4
  <2>6. ASSUME NEW h, Hits(specs, m + 1, h, p)
        PROVE  /\ specs[h].target \in DOMAIN Words
               /\ FirstIn(t, Len(t), s, p, Verdicts4[specs[h].target])
    <3>1. CASE Hits(specs, m, h, p)
      BY <1>9, <1>11, <2>2, <3>1
    <3>2. CASE h = m + 1 /\ AllSkip(specs, m, p) /\ ~Skips(spec, p)
      BY <1>4, <1>8, <1>9, <1>11, <2>2, <2>4, <3>2
    <3> QED
      BY <1>3, <2>6, <3>1, <3>2
  <2> QED
    BY <1>8, <2>5, <2>6, Zenon DEF Answers, b, t, spec
<1>12. CASE ~a.over /\ outcome \notin {"rule", "error"}
  <2>1. (b.over <=> outcome = "return") /\ t = q
    BY <1>2, <1>12 DEF t, q
  <2>2. CASE outcome = "nothing" /\ Skips(spec, p)
    <3>1. ~b.over /\ \A h : Hits(specs, m + 1, h, p) => Hits(specs, m, h, p)
      BY <1>3, <2>1, <2>2
    <3>2. AllSkip(specs, m + 1, p) => ~b.over /\ NoneIn(t, Len(t), s, p)
      BY <1>3, <1>9, <2>1, <3>1
    <3>3. ASSUME NEW h, Hits(specs, m + 1, h, p)
          PROVE  /\ specs[h].target \in DOMAIN Words
                 /\ FirstIn(t, Len(t), s, p, Verdicts4[specs[h].target])
      BY <1>9, <1>12, <2>1, <3>1, <3>3
    <3> QED
      BY <1>8, <3>2, <3>3, Zenon DEF Answers, b, t, spec
  <2>3. CASE outcome = "return" /\ ~Skips(spec, p) /\ spec.target \notin DOMAIN Words
    <3>1. b.over /\ ~AllSkip(specs, m + 1, p)
      BY <1>3, <2>1, <2>3
    <3>2. ASSUME NEW h, Hits(specs, m + 1, h, p)
          PROVE  IF specs[h].target \in DOMAIN Words
                 THEN FirstIn(t, Len(t), s, p, Verdicts4[specs[h].target])
                 ELSE b.over /\ NoneIn(t, Len(t), s, p)
      <4>1. CASE Hits(specs, m, h, p)
        BY <1>9, <2>1, <3>1, <4>1
      <4>2. CASE h = m + 1 /\ AllSkip(specs, m, p)
        BY <1>8, <1>9, <2>1, <2>3, <3>1, <4>2
      <4> QED
        BY <1>3, <3>2, <4>1, <4>2
    <3> QED
      BY <1>8, <3>1, <3>2, Zenon DEF Answers, b, t, spec
  <2> QED
    BY <1>5, <1>12, <2>2, <2>3
<1>13. CASE ~a.over /\ outcome = "error"
  BY <1>1, <1>2, <1>13
<1> QED
  BY <1>1, <1>10, <1>11, <1>12, <1>13

\* A rule of the list that a chain becomes.
OfChain(r, specs, dir) ==
  \E m \in 1 .. Len(specs) : specs[m].target \in DOMAIN Words /\ r = RuleFrom(specs[m], dir)

LEMMA ChainMade ==
  ASSUME NEW specs \in Seq(Specs), NEW dir \in Directions, NEW v6
  PROVE  LET rules == ChainRules(specs, dir, v6).rules IN
         \A k \in 1 .. Len(rules) : OfChain(rules[k], specs, dir)
<1> DEFINE n == Len(specs)
<1>1. n \in Nat /\ \A i \in 1 .. n : specs[i] \in Specs
  OBVIOUS
<1>2. PICK t \in [0 .. n -> Heads] :
        /\ t[0] = NoHead
        /\ \A i \in 1 .. n : t[i] = NextRule(t[i - 1], specs[i], dir, v6)
        /\ ChainRules(specs, dir, v6) = t[n]
  BY ChainTrace, Zenon
<1> DEFINE Fine(i) == \A k \in 1 .. Len(t[i].rules) : OfChain(t[i].rules[k], specs, dir)
           T == {i \in 0 .. n : ~Fine(i)}
<1>3. NoHead.rules = <<>>
  BY DEF NoHead
<1>4. Fine(0)
  BY <1>2, <1>3
<1>5. ASSUME NEW i \in 1 .. n, Fine(i - 1) PROVE Fine(i)
  <2> DEFINE a == t[i - 1]  spec == specs[i]
             outcome == Outcome(spec, v6, a.rules = <<>>)
             r == RuleFrom(spec, dir)
  <2>1. i - 1 \in 0 .. n
    BY <1>1
  <2>2. a \in Heads /\ spec \in Specs /\ t[i] = NextRule(a, spec, dir, v6)
    BY <1>1, <1>2, <2>1
  <2>3. \A k \in 1 .. Len(a.rules) : OfChain(a.rules[k], specs, dir)
    BY <1>5
  <2>4. outcome = "rule" => r \in Naming({}) /\ OfChain(r, specs, dir)
    <3>1. outcome = "rule" => spec.target \in {"ACCEPT", "DROP", "REJECT"}
      BY RuleOutcome
    <3>2. outcome = "rule" => OfChain(r, specs, dir)
      BY <1>1, <3>1, TargetsAre DEF OfChain
    <3> HIDE DEF outcome, spec
    <3> QED
      BY <2>2, <3>1, <3>2, RuleFromIs
  <2>5. NextRule(a, spec, dir, v6).rules \in {a.rules, Append(a.rules, r)}
        /\ (NextRule(a, spec, dir, v6).rules # a.rules => outcome = "rule")
    BY DEF NextRule
  <2> DEFINE b == t[i].rules
  <2>6. a.rules \in Seq(Naming({}))
    BY <2>2 DEF Heads
  <2>7. b = a.rules \/ (b = Append(a.rules, r) /\ outcome = "rule")
    BY <2>2, <2>5
  <2> DEFINE q == a.rules  S == Naming({})
  <2> HIDE DEF outcome, r, b, q, S
  <2>8. CASE b = q
    BY <2>3, <2>8 DEF b, q
  <2>9. CASE b = Append(q, r) /\ outcome = "rule"
    <3>1. q \in Seq(S) /\ r \in S /\ OfChain(r, specs, dir)
      BY <2>4, <2>6, <2>9 DEF q, S
    <3>2. /\ Len(b) = Len(q) + 1 /\ b[Len(q) + 1] = r /\ Len(q) \in Nat
          /\ \A k \in 1 .. Len(q) : b[k] = q[k]
      BY <2>9, <3>1
    <3>3. \A k \in 1 .. Len(b) : k \in 1 .. Len(q) \/ k = Len(q) + 1
      BY <3>2
    <3>4. \A k \in 1 .. Len(q) : OfChain(q[k], specs, dir)
      BY <2>3 DEF q
    <3>5. \A k \in 1 .. Len(b) : OfChain(b[k], specs, dir)
      BY <3>1, <3>2, <3>3, <3>4
    <3> QED
      BY <3>5 DEF b
  <2> QED
    BY <2>7, <2>8, <2>9 DEF q
<1> HIDE DEF Fine
<1>6. T = {}
  <2> HIDE DEF n
  <2>1. 0 \notin T /\ \A i \in 1 .. n : i - 1 \notin T => i \notin T
    BY <1>1, <1>4, <1>5
  <2>2. T \in SUBSET (0 .. n)
    OBVIOUS
  <2> HIDE DEF T
  <2> QED
    BY <1>1, <2>1, <2>2, NoneFails
<1>7. n \in 0 .. n
  BY <1>1
<1>8. Fine(n)
  BY <1>6, <1>7
<1> QED
  BY <1>2, <1>8 DEF Fine

\* What the rules of a chain say that has no error.
LEMMA ChainAnswers ==
  ASSUME NEW specs \in Seq(Specs), NEW p \in New, NEW s, ChainRules(specs, p.dir, p.v6).ok
  PROVE  LET c == ChainRules(specs, p.dir, p.v6) IN Answers(c.rules, c.over, specs, Len(specs), s, p)
<1> DEFINE n == Len(specs)
<1>1. n \in Nat /\ \A i \in 1 .. n : specs[i] \in Specs
  OBVIOUS
<1>2. p \in Packets /\ p.dir \in Directions
  BY ChainsAssumption DEF New
<1>3. PICK t \in [0 .. n -> Heads] :
        /\ t[0] = NoHead
        /\ \A i \in 1 .. n : t[i] = NextRule(t[i - 1], specs[i], p.dir, p.v6)
        /\ ChainRules(specs, p.dir, p.v6) = t[n]
  BY <1>2, ChainTrace, Zenon
<1> DEFINE Fine(i) == t[i].ok => Answers(t[i].rules, t[i].over, specs, i, s, p)
           T == {i \in 0 .. n : ~Fine(i)}
<1>4. Fine(0)
  <2>1. NoHead.rules = <<>> /\ ~NoHead.over
    BY DEF NoHead
  <2>2. \A h : ~Hits(specs, 0, h, p)
    BY DEF Hits
  <2>3. NoneIn(<<>>, Len(<<>>), s, p)
    BY DEF NoneIn
  <2> QED
    BY <1>3, <2>1, <2>2, <2>3 DEF Answers
<1>5. ASSUME NEW i \in 1 .. n, Fine(i - 1) PROVE Fine(i)
  <2> DEFINE a == t[i - 1]  b == NextRule(a, specs[i], p.dir, p.v6)
  <2>1. i - 1 \in 0 .. n
    BY <1>1
  <2>2. a \in Heads /\ t[i] = b
    BY <1>1, <1>3, <2>1
  <2>3. a.ok => Answers(a.rules, a.over, specs, i - 1, s, p)
    BY <1>5
  <2> HIDE DEF a
  <2>4. b.ok => Answers(b.rules, b.over, specs, i, s, p)
    BY <2>2, <2>3, NextAnswers
  <2> HIDE DEF b
  <2> QED
    BY <2>2, <2>4
<1> HIDE DEF Fine
<1>6. T = {}
  <2> HIDE DEF n
  <2>1. 0 \notin T /\ \A i \in 1 .. n : i - 1 \notin T => i \notin T
    BY <1>1, <1>4, <1>5
  <2>2. T \in SUBSET (0 .. n)
    OBVIOUS
  <2> HIDE DEF T
  <2> QED
    BY <1>1, <2>1, <2>2, NoneFails
<1>7. n \in 0 .. n
  BY <1>1
<1>8. Fine(n)
  BY <1>6, <1>7
<1> QED
  BY <1>3, <1>8 DEF Fine

\* One of several lists has all that matches: it says what all of them say.
LEMMA FlatFirst ==
  ASSUME NEW S, NEW seqs \in Seq(Seq(S)), NEW i \in 1 .. Len(seqs), NEW s, NEW p,
         \A j \in 1 .. Len(seqs) : j # i => NoneIn(seqs[j], Len(seqs[j]), s, p)
  PROVE  LET flat == FlattenSeq(seqs) IN
         /\ NoneIn(seqs[i], Len(seqs[i]), s, p) => NoneIn(flat, Len(flat), s, p)
         /\ \A w : FirstIn(seqs[i], Len(seqs[i]), s, p, w) => FirstIn(flat, Len(flat), s, p, w)
<1> DEFINE flat == FlattenSeq(seqs)  n == Len(seqs)  q == seqs[i]
<1>1. PICK own, pos : Comes(flat, seqs, n, own, pos)
  BY FlattenIndex
<1>2. flat \in Seq(S) /\ q \in Seq(S) /\ n \in Nat
  BY FlattenIndex
<1> HIDE DEF flat, n
<1>3. /\ \A k \in 1 .. Len(flat) : /\ own[k] \in 1 .. n /\ pos[k] \in 1 .. Len(seqs[own[k]])
                                   /\ flat[k] = seqs[own[k]][pos[k]]
      /\ \A j \in 1 .. n : \A m \in 1 .. Len(seqs[j]) : \E k \in 1 .. Len(flat) : own[k] = j /\ pos[k] = m
      /\ \A k, l \in 1 .. Len(flat) :
           k < l => own[k] < own[l] \/ (own[k] = own[l] /\ pos[k] < pos[l])
  BY <1>1 DEF Comes
<1>4. ASSUME NEW k \in 1 .. Len(flat), own[k] # i PROVE ~Matches(s, flat[k], p.v6, p)
  <2> DEFINE j == own[k]  m == pos[k]
  <2>1. j \in 1 .. Len(seqs) /\ m \in 1 .. Len(seqs[j]) /\ flat[k] = seqs[j][m] /\ j # i
    BY <1>3, <1>4 DEF n
  <2> HIDE DEF j, m
  <2>2. NoneIn(seqs[j], Len(seqs[j]), s, p)
    BY <2>1
  <2> QED
    BY <2>1, <2>2 DEF NoneIn
<1>5. ASSUME NoneIn(q, Len(q), s, p) PROVE NoneIn(flat, Len(flat), s, p)
  <2> SUFFICES ASSUME NEW k \in 1 .. Len(flat) PROVE ~Matches(s, flat[k], p.v6, p)
    BY DEF NoneIn
  <2>1. CASE own[k] # i
    BY <1>4, <2>1
  <2>2. CASE own[k] = i
    <3> DEFINE m == pos[k]
    <3>1. m \in 1 .. Len(q) /\ flat[k] = q[m]
      BY <1>3, <2>2
    <3> HIDE DEF m, q
    <3> QED
      BY <1>5, <3>1 DEF NoneIn
  <2> QED
    BY <2>1, <2>2
<1>6. ASSUME NEW w, FirstIn(q, Len(q), s, p, w) PROVE FirstIn(flat, Len(flat), s, p, w)
  <2>1. PICK m \in 1 .. Len(q) :
          /\ Matches(s, q[m], p.v6, p) /\ q[m].action = w
          /\ \A j \in 1 .. Len(q) : j < m => ~Matches(s, q[j], p.v6, p)
    BY <1>6 DEF FirstIn
  <2>2. i \in 1 .. n
    BY DEF n
  <2>3. PICK k \in 1 .. Len(flat) : own[k] = i /\ pos[k] = m
    BY <1>3, <2>1, <2>2
  <2>4. flat[k] = q[m]
    BY <1>3, <2>3
  <2>5. ASSUME NEW l \in 1 .. Len(flat), l < k PROVE ~Matches(s, flat[l], p.v6, p)
    <3>1. CASE own[l] # i
      BY <1>4, <3>1
    <3>2. CASE own[l] = i
      <4>1. /\ pos[l] \in 1 .. Len(q) /\ flat[l] = q[pos[l]]
        BY <1>3, <3>2
      <4>2. own[l] < own[k] \/ (own[l] = own[k] /\ pos[l] < pos[k])
        BY <1>3, <2>5
      <4>3. pos[l] < m
        BY <1>2, <2>2, <2>3, <3>2, <4>2
      <4> QED
        BY <2>1, <4>1, <4>3
    <3> QED
      BY <3>1, <3>2
  <2> QED
    BY <2>1, <2>4, <2>5 DEF FirstIn
<1> QED
  BY <1>5, <1>6 DEF flat

-----------------------------------------------------------------------------
(* The rules of a file, of which those of a packet's chain say the same.   *)

LEMMA OfChainIs ==
  ASSUME NEW specs \in Seq(Specs), NEW dir \in Directions, NEW r, OfChain(r, specs, dir)
  PROVE  r \in Naming({}) /\ r.dir = dir /\ ~r.disabled /\ ~r.expired
<1>1. PICK m \in 1 .. Len(specs) : specs[m].target \in DOMAIN Words /\ r = RuleFrom(specs[m], dir)
  BY DEF OfChain
<1> DEFINE spec == specs[m]  act == Verdicts4[spec.target]  iif == Iface(spec.iif)
           oif == Iface(spec.oif)  proto == ProtoOf(spec)
           src == Endpoint(spec.src, spec.sports, proto)
           dst == Endpoint(spec.dst, spec.dports, proto)
<1>2. spec \in Specs /\ spec.target \in {"ACCEPT", "DROP", "REJECT"} /\ r = RuleFrom(spec, dir)
  BY <1>1, TargetsAre
<1> HIDE DEF spec
<1>3. /\ r \in Naming({})
      /\ r = [action |-> act, dir |-> dir, iif |-> iif, oif |-> oif, proto |-> proto,
              icmp |-> spec.icmp, src |-> src, dst |-> dst,
              log |-> None, dapp |-> None, sapp |-> None, comment |-> None,
              disabled |-> FALSE, expired |-> FALSE]
  BY <1>2, RuleFromIs
<1> HIDE DEF act, iif, oif, proto, src, dst
<1> QED
  BY <1>3

\* What a dump is read as: its chains in the order in which they come.
ReadAs(dump, v6, own, order, seqs) ==
  /\ order \in Seq(ChainNames)
  /\ \A i, j \in 1 .. Len(order) : order[i] = order[j] => i = j
  /\ \A c \in ChainNames :
       /\ Restored(dump.filter, c) \in Seq(Specs)
       /\ Restored(dump.filter, c) # <<>> => \E i \in 1 .. Len(order) : order[i] = c
       /\ ChainRules(Restored(dump.filter, c), Direction(c), v6).ok
  /\ seqs \in Seq(Seq(Naming({}))) /\ Len(seqs) = Len(order)
  /\ \A i \in 1 .. Len(order) :
       seqs[i] = ChainRules(Restored(dump.filter, order[i]), Direction(order[i]), v6).rules
  /\ own.rules = FlattenSeq(seqs)

LEMMA ReadsAs ==
  ASSUME NEW dump \in Dumps, NEW v6, Stream(dump, v6).ok
  PROVE  /\ \E order, seqs : ReadAs(dump, v6, Stream(dump, v6), order, seqs)
         /\ \A c \in ChainNames :
              IF c \in DOMAIN Stream(dump, v6).policies
              THEN \E w \in DOMAIN Words : /\ Declared(dump, c) = {w}
                                           /\ Stream(dump, v6).policies[c] = PolicyWords[w]
              ELSE Declared(dump, c) = {}
<1> DEFINE t == ParseSave(dump)
           seqs == [i \in DOMAIN t.order |-> ChainRules(t.rules[t.order[i]], Direction(t.order[i]), v6).rules]
           C == {d \in ChainNames : t.policy[d] \in DOMAIN PolicyWords}
           policies == [c \in C |-> PolicyWords[t.policy[c]]]
           ok == /\ t.ok /\ ~dump.othertables
                 /\ \A c \in ChainNames : /\ ChainRules(t.rules[c], Direction(c), v6).ok
                                          /\ t.policy[c] \in {None, "-"} \cup DOMAIN PolicyWords
           own == Stream(dump, v6)
<1>1. own = [ok |-> ok, rules |-> FlattenSeq(seqs), policies |-> policies]
  BY DEF Stream
<1>2. ok
  <2> HIDE DEF ok, policies, seqs
  <2>1. own.ok = ok
    BY <1>1
  <2> QED
    BY <2>1
<1>3. t.ok
  BY <1>2
<1>4. /\ t \in Tables /\ Ordered(t)
      /\ \A c \in ChainNames : /\ t.rules[c] = Restored(dump.filter, c)
                               /\ Declared(dump, c) = {t.policy[c]} \cap DOMAIN Words
  BY <1>3, ParsedAsRestored
<1>5. \A c \in ChainNames : ChainRules(t.rules[c], Direction(c), v6).ok
  BY <1>2
<1> HIDE DEF t, ok
<1>6. own.policies = policies /\ own.rules = FlattenSeq(seqs)
  <2> HIDE DEF policies, seqs
  <2> QED
    BY <1>1
<1>7. ASSUME NEW c \in ChainNames
      PROVE  IF c \in DOMAIN own.policies
             THEN \E w \in DOMAIN Words : Declared(dump, c) = {w} /\ own.policies[c] = PolicyWords[w]
             ELSE Declared(dump, c) = {}
  <2>1. DOMAIN own.policies = C
    BY <1>6
  <2>2. CASE c \in C
    <3>1. own.policies[c] = PolicyWords[t.policy[c]] /\ t.policy[c] \in DOMAIN Words
      BY <1>6, <2>2, TargetsAre
    <3>2. Declared(dump, c) = {t.policy[c]}
      BY <1>4, <3>1
    <3> QED
      BY <2>1, <2>2, <3>1, <3>2
  <2>3. CASE c \notin C
    <3>1. t.policy[c] \notin DOMAIN Words
      BY <2>3, TargetsAre
    <3>2. Declared(dump, c) = {}
      BY <1>4, <3>1
    <3> QED
      BY <2>1, <2>3, <3>2
  <2> QED
    BY <2>2, <2>3
<1> HIDE DEF policies, C
<1>8. /\ t.order \in Seq(ChainNames) /\ t.rules \in [ChainNames -> Seq(Specs)]
      /\ DOMAIN t.order = 1 .. Len(t.order) /\ Len(t.order) \in Nat
  BY <1>4 DEF Tables
<1> DEFINE S == Naming({})  order == t.order  m == Len(order)  A == Seq(S)
<1>9. ASSUME NEW i \in 1 .. m
      PROVE  /\ seqs[i] \in A
             /\ seqs[i] = ChainRules(Restored(dump.filter, order[i]), Direction(order[i]), v6).rules
  <2> DEFINE c == order[i]  specs == t.rules[c]  dir == Direction(c)  q == ChainRules(specs, dir, v6).rules
  <2>1. c \in ChainNames /\ specs \in Seq(Specs) /\ dir \in Directions /\ seqs[i] = q
    BY <1>8, DirectionType
  <2>2. specs = Restored(dump.filter, c)
    BY <1>4, <2>1
  <2> HIDE DEF c, specs, dir, seqs
  <2>3. q \in Seq(S)
    BY <2>1, ChainType DEF Heads
  <2> QED
    BY <2>1, <2>2, <2>3 DEF c, dir
<1>10. seqs = [i \in 1 .. m |-> seqs[i]]
  BY <1>8
<1> HIDE DEF seqs, S
<1>11. seqs \in Seq(A) /\ Len(seqs) = m
  <2>1. m \in Nat /\ seqs = [i \in 1 .. m |-> seqs[i]] /\ \A i \in 1 .. m : seqs[i] \in A
    BY <1>8, <1>9, <1>10
  <2> HIDE DEF A, m
  <2> QED
    BY <2>1
<1>12. ASSUME NEW c \in ChainNames
       PROVE  /\ Restored(dump.filter, c) \in Seq(Specs)
              /\ Restored(dump.filter, c) # <<>> => \E i \in 1 .. m : order[i] = c
              /\ ChainRules(Restored(dump.filter, c), Direction(c), v6).ok
  <2>1. t.rules[c] = Restored(dump.filter, c) /\ t.rules[c] \in Seq(Specs)
    BY <1>4, <1>8
  <2>2. t.rules[c] # <<>> => c \in ToSet(order)
    BY <1>4 DEF Ordered
  <2>3. c \in ToSet(order) => \E i \in 1 .. m : order[i] = c
    BY <1>8 DEF ToSet
  <2> QED
    BY <1>5, <2>1, <2>2, <2>3
<1>13. \A i, j \in 1 .. m : order[i] = order[j] => i = j
  BY <1>4 DEF Ordered
<1> HIDE DEF order, own
<1>14. ReadAs(dump, v6, own, order, seqs)
  BY <1>6, <1>8, <1>9, <1>11, <1>12, <1>13 DEF ReadAs, S, order
<1> QED
  BY <1>7, <1>14 DEF own

\* All of the rules come of one of the chains.
LEMMA FileMade ==
  ASSUME NEW dump \in Dumps, NEW v6, NEW own, NEW order, NEW seqs, ReadAs(dump, v6, own, order, seqs)
  PROVE  /\ own.rules \in Seq(Naming({}))
         /\ \A k \in 1 .. Len(own.rules) : \E c \in ChainNames :
              OfChain(own.rules[k], Restored(dump.filter, c), Direction(c))
         /\ \A i \in 1 .. Len(seqs) : \A k \in 1 .. Len(seqs[i]) :
              OfChain(seqs[i][k], Restored(dump.filter, order[i]), Direction(order[i]))
<1> DEFINE S == Naming({})  flat == FlattenSeq(seqs)
<1>1. /\ order \in Seq(ChainNames) /\ seqs \in Seq(Seq(S)) /\ Len(seqs) = Len(order)
      /\ own.rules = flat
  BY DEF ReadAs
<1>2. ASSUME NEW i \in 1 .. Len(seqs)
      PROVE  /\ order[i] \in ChainNames
             /\ \A k \in 1 .. Len(seqs[i]) :
                  OfChain(seqs[i][k], Restored(dump.filter, order[i]), Direction(order[i]))
  <2> DEFINE c == order[i]  specs == Restored(dump.filter, c)  dir == Direction(c)
  <2>1. c \in ChainNames
    BY <1>1
  <2>2. specs \in Seq(Specs) /\ dir \in Directions
    BY <2>1, DirectionType DEF ReadAs
  <2>3. seqs[i] = ChainRules(specs, dir, v6).rules
    BY <1>1 DEF ReadAs
  <2> HIDE DEF c, specs, dir
  <2>4. \A k \in 1 .. Len(seqs[i]) : OfChain(seqs[i][k], specs, dir)
    BY <2>2, <2>3, ChainMade
  <2> QED
    BY <2>1, <2>4 DEF c, specs, dir
<1> HIDE DEF S
<1>3. flat \in Seq(S) /\ \E own1, pos : Comes(flat, seqs, Len(seqs), own1, pos)
  BY <1>1, FlattenIndex
<1>4. PICK whose, pos : Comes(flat, seqs, Len(seqs), whose, pos)
  BY <1>3
<1> HIDE DEF flat
<1>5. ASSUME NEW k \in 1 .. Len(flat)
      PROVE  \E c \in ChainNames : OfChain(flat[k], Restored(dump.filter, c), Direction(c))
  <2> DEFINE i == whose[k]  j == pos[k]
  <2>1. i \in 1 .. Len(seqs) /\ j \in 1 .. Len(seqs[i]) /\ flat[k] = seqs[i][j]
    BY <1>4 DEF Comes
  <2> HIDE DEF i, j
  <2> QED
    BY <1>2, <2>1
<1> QED
  BY <1>1, <1>2, <1>3, <1>5 DEF S

\* The rules of a file say what its chain does.
LEMMA FileAnswers ==
  ASSUME NEW dump \in Dumps, NEW p \in New, Stream(dump, p.v6).ok, NEW s
  PROVE  LET specs == Restored(dump.filter, ChainOf(p)) IN
         /\ specs \in Seq(Specs)
         /\ \E over : Answers(Stream(dump, p.v6).rules, over, specs, Len(specs), s, p)
<1> DEFINE own == Stream(dump, p.v6)  b == ChainOf(p)  specs == Restored(dump.filter, b)
<1>1. PICK order, seqs : ReadAs(dump, p.v6, own, order, seqs)
  BY ReadsAs
<1>2. p \in Packets /\ p.dir \in Directions
  BY ChainsAssumption DEF New
<1>3. b \in ChainNames /\ Direction(b) = p.dir /\ \A c \in ChainNames : Direction(c) = p.dir => c = b
  BY <1>2, ChainOfIs
<1> HIDE DEF own, b
<1>4. /\ order \in Seq(ChainNames) /\ seqs \in Seq(Seq(Naming({}))) /\ Len(seqs) = Len(order)
      /\ own.rules = FlattenSeq(seqs)
      /\ specs \in Seq(Specs) /\ ChainRules(specs, p.dir, p.v6).ok
      /\ specs # <<>> => \E i \in 1 .. Len(order) : order[i] = b
      /\ \A i, j \in 1 .. Len(order) : order[i] = order[j] => i = j
  BY <1>1, <1>3 DEF ReadAs
<1>5. ASSUME NEW i \in 1 .. Len(seqs), order[i] # b PROVE NoneIn(seqs[i], Len(seqs[i]), s, p)
  <2>1. order[i] \in ChainNames
    BY <1>4
  <2>2. Direction(order[i]) # p.dir /\ Direction(order[i]) \in Directions
        /\ Restored(dump.filter, order[i]) \in Seq(Specs)
    BY <1>1, <1>3, <1>5, <2>1, DirectionType DEF ReadAs
  <2>3. ASSUME NEW k \in 1 .. Len(seqs[i]) PROVE ~Matches(s, seqs[i][k], p.v6, p)
    <3> DEFINE r == seqs[i][k]
    <3>1. OfChain(r, Restored(dump.filter, order[i]), Direction(order[i]))
      BY <1>1, FileMade
    <3> HIDE DEF r
    <3>2. r.dir # p.dir
      BY <2>2, <3>1, OfChainIs
    <3>3. ~Matches(s, r, p.v6, p)
      BY <3>2, Zenon DEF Matches
    <3> QED
      BY <3>3 DEF r
  <2> QED
    BY <2>3 DEF NoneIn
<1>6. CASE \E i \in 1 .. Len(order) : order[i] = b
  <2>1. PICK i \in 1 .. Len(order) : order[i] = b
    BY <1>6
  <2> DEFINE q == seqs[i]  flat == FlattenSeq(seqs)  c == ChainRules(specs, p.dir, p.v6)  S == Naming({})
  <2>2. q = c.rules
    BY <1>1, <1>3, <2>1 DEF ReadAs
  <2>3. Answers(q, c.over, specs, Len(specs), s, p)
    <3> HIDE DEF specs
    <3>1. Answers(c.rules, c.over, specs, Len(specs), s, p)
      BY <1>4, ChainAnswers
    <3> QED
      BY <2>2, <3>1
  <2>4. \A j \in 1 .. Len(seqs) : j # i => NoneIn(seqs[j], Len(seqs[j]), s, p)
    BY <1>4, <1>5, <2>1
  <2>5. seqs \in Seq(Seq(S)) /\ i \in 1 .. Len(seqs)
    BY <1>4, <2>1
  <2> HIDE DEF S
  <2>6. /\ NoneIn(q, Len(q), s, p) => NoneIn(flat, Len(flat), s, p)
        /\ \A w : FirstIn(q, Len(q), s, p, w) => FirstIn(flat, Len(flat), s, p, w)
    BY <2>4, <2>5, FlatFirst
  <2> HIDE DEF specs, q, flat
  <2>7. Answers(flat, c.over, specs, Len(specs), s, p)
    <3> DEFINE v == c.over
    <3> HIDE DEF v
    <3>1. Answers(q, v, specs, Len(specs), s, p)
      BY <2>3 DEF v
    <3>2. Answers(flat, v, specs, Len(specs), s, p)
      BY <2>6, <3>1, Zenon DEF Answers
    <3> QED
      BY <3>2 DEF v
  <2> QED
    BY <1>4, <2>7 DEF flat, own, specs, b
<1>7. CASE ~\E i \in 1 .. Len(order) : order[i] = b
  <2> DEFINE flat == FlattenSeq(seqs)
  <2>1. specs = <<>>
    BY <1>4, <1>7
  <2>2. NoneIn(flat, Len(flat), s, p)
    <3> DEFINE S == Naming({})
    <3>1. seqs \in Seq(Seq(S))
      BY <1>4
    <3> HIDE DEF S
    <3>2. \E whose, pos : Comes(flat, seqs, Len(seqs), whose, pos)
      BY <3>1, FlattenIndex
    <3>3. PICK whose, pos : Comes(flat, seqs, Len(seqs), whose, pos)
      BY <3>2
    <3> HIDE DEF flat
    <3>4. ASSUME NEW k \in 1 .. Len(flat) PROVE ~Matches(s, flat[k], p.v6, p)
      <4> DEFINE i == whose[k]  j == pos[k]
      <4>1. i \in 1 .. Len(seqs) /\ j \in 1 .. Len(seqs[i]) /\ flat[k] = seqs[i][j]
        BY <3>3 DEF Comes
      <4> HIDE DEF i, j
      <4>2. NoneIn(seqs[i], Len(seqs[i]), s, p)
        BY <1>4, <1>5, <1>7, <4>1
      <4> QED
        BY <4>1, <4>2 DEF NoneIn
    <3> QED
      BY <3>4 DEF NoneIn
  <2> HIDE DEF flat, specs
  <2>3. \A h : ~Hits(specs, Len(specs), h, p)
    BY <2>1 DEF Hits
  <2>4. Answers(flat, FALSE, specs, Len(specs), s, p)
    BY <2>2, <2>3 DEF Answers
  <2> QED
    BY <1>4, <2>4 DEF flat, own, specs, b
<1> QED
  BY <1>6, <1>7

LEMMA ActionIs ==
  ASSUME NEW spec \in Specs, spec.target \in DOMAIN Words, NEW dir \in Directions
  PROVE  RuleFrom(spec, dir).action = Verdicts4[spec.target]
<1> DEFINE act == Verdicts4[spec.target]  iif == Iface(spec.iif)
           oif == Iface(spec.oif)  proto == ProtoOf(spec)  r == RuleFrom(spec, dir)
           src == Endpoint(spec.src, spec.sports, proto)
           dst == Endpoint(spec.dst, spec.dports, proto)
<1>1. spec.target \in {"ACCEPT", "DROP", "REJECT"}
  BY TargetsAre
<1>2. r = [action |-> act, dir |-> dir, iif |-> iif, oif |-> oif, proto |-> proto,
           icmp |-> spec.icmp, src |-> src, dst |-> dst,
           log |-> None, dapp |-> None, sapp |-> None, comment |-> None,
           disabled |-> FALSE, expired |-> FALSE]
  BY <1>1, RuleFromIs
<1> HIDE DEF act, iif, oif, proto, src, dst, r
<1>3. r.action = act
  BY <1>2
<1> QED
  BY <1>3 DEF r, act

\* Rules of a file with one key say one thing, if its chains do not
\* contradict themselves, and none of them is switched off.
LEMMA FileAgrees ==
  ASSUME NEW dump \in Dumps, NEW p \in New, Stream(dump, p.v6).ok, ~Contradicts(dump), NEW s
  PROVE  LET src == Stream(dump, p.v6).rules IN
         src \in Seq(Naming({})) /\ Enabled(src) /\ AgreeOn(src, s, p)
<1> DEFINE own == Stream(dump, p.v6)  src == own.rules
<1>1. PICK order, seqs : ReadAs(dump, p.v6, own, order, seqs)
  BY ReadsAs
<1> HIDE DEF own
<1>2. p \in Packets
  BY DEF New
<1>3. /\ src \in Seq(Naming({}))
      /\ \A k \in 1 .. Len(src) : \E c \in ChainNames :
           OfChain(src[k], Restored(dump.filter, c), Direction(c))
  BY <1>1, FileMade
<1>4. \A c \in ChainNames : Restored(dump.filter, c) \in Seq(Specs) /\ Direction(c) \in Directions
  BY <1>1, DirectionType DEF ReadAs
<1>5. Enabled(src)
  <2> SUFFICES ASSUME NEW k \in 1 .. Len(src) PROVE ~src[k].disabled /\ ~src[k].expired
    BY DEF Enabled
  <2>1. PICK c \in ChainNames : OfChain(src[k], Restored(dump.filter, c), Direction(c))
    BY <1>3
  <2> QED
    BY <1>4, <2>1, OfChainIs
<1>6. ASSUME NEW a \in 1 .. Len(src), NEW b \in 1 .. Len(src),
             Matches(s, src[a], p.v6, p), TupleKey(src[a]) = TupleKey(src[b])
      PROVE  src[a].action = src[b].action
  <2> DEFINE r == src[a]  o == src[b]
  <2>1. PICK c \in ChainNames : OfChain(r, Restored(dump.filter, c), Direction(c))
    BY <1>3
  <2>2. PICK d \in ChainNames : OfChain(o, Restored(dump.filter, d), Direction(d))
    BY <1>3
  <2>3. TupleKey(r) = TupleKey(o) /\ Matches(s, r, p.v6, p)
    BY <1>6
  <2> HIDE DEF r, o
  <2>4. r \in Naming({}) /\ o \in Naming({}) /\ r.dir = Direction(c) /\ o.dir = Direction(d)
    BY <1>4, <2>1, <2>2, OfChainIs
  <2>5. r.dir = o.dir
    <3>1. /\ IsRule(r) /\ Conditions \subseteq DOMAIN r /\ IsRule(o) /\ Conditions \subseteq DOMAIN o
      BY <2>4, ListedRule
    <3> QED
      BY <2>3, <3>1, KeyConditions
  <2>6. r.dir = p.dir
    BY <2>3, Zenon DEF Matches
  <2>7. c = d
    BY <1>2, <2>4, <2>5, <2>6, ChainOfIs
  <2> DEFINE specs == Restored(dump.filter, c)  dir == Direction(c)
  <2>8. specs \in Seq(Specs) /\ dir \in Directions /\ OfChain(r, specs, dir) /\ OfChain(o, specs, dir)
    BY <1>4, <2>1, <2>2, <2>7
  <2> HIDE DEF dir
  <2>9. PICK m \in 1 .. Len(specs) : specs[m].target \in DOMAIN Words /\ r = RuleFrom(specs[m], dir)
    BY <2>8 DEF OfChain
  <2>10. PICK n \in 1 .. Len(specs) : specs[n].target \in DOMAIN Words /\ o = RuleFrom(specs[n], dir)
    BY <2>8 DEF OfChain
  <2> DEFINE x == specs[m]  y == specs[n]
  <2>11. x \in Specs /\ y \in Specs /\ x \in ToSet(specs) /\ y \in ToSet(specs)
    BY <2>8 DEF ToSet
  <2>12. /\ x.target \in DOMAIN Words /\ y.target \in DOMAIN Words
         /\ TupleKey(RuleFrom(x, dir)) = TupleKey(RuleFrom(y, dir))
    BY <2>3, <2>9, <2>10
  <2> HIDE DEF x, y
  <2>13. x.target = y.target
    BY <2>11, <2>12 DEF Contradicts, dir
  <2>14. RuleFrom(x, dir).action = RuleFrom(y, dir).action
    BY <2>8, <2>11, <2>12, <2>13, ActionIs
  <2> QED
    BY <2>9, <2>10, <2>14 DEF x, y, r, o
<1> QED
  BY <1>3, <1>5, <1>6 DEF AgreeOn, own

\* The first rule of a chain that does not go on to the next.
LEMMA HitIs ==
  ASSUME NEW S, NEW specs \in Seq(S), NEW p
  PROVE  LET hit == SelectInSeq(specs, LAMBDA s : s.target # None /\ SpecMatches(s, p)) IN
         IF AllSkip(specs, Len(specs), p) THEN hit = 0 ELSE Hits(specs, Len(specs), hit, p)
<1> DEFINE hit == SelectInSeq(specs, LAMBDA s : s.target # None /\ SpecMatches(s, p))
           n == Len(specs)
           I == {i \in 1 .. n : specs[i].target # None /\ SpecMatches(specs[i], p)}
<1>1. hit = IF I # {} THEN Min(I) ELSE 0
  BY DEF SelectInSeq
<1>2. I = {i \in 1 .. n : ~Skips(specs[i], p)} /\ n \in Nat
  BY DEF Skips
<1> HIDE DEF hit, I, n
<1>3. CASE I = {}
  BY <1>1, <1>2, <1>3 DEF AllSkip, hit, n
<1>4. CASE I # {}
  <2>1. I \in SUBSET Nat
    BY <1>2
  <2>2. \E i \in I : \A k \in I : i <= k
    BY <1>4, <2>1, Smallest
  <2>3. Min(I) \in I /\ \A k \in I : Min(I) <= k
    BY <2>2 DEF Min
  <2>4. hit \in I /\ \A k \in I : hit <= k
    BY <1>1, <1>4, <2>3
  <2>5. \A j \in 1 .. n : j < hit => j \notin I
    BY <1>2, <2>1, <2>4
  <2>6. Hits(specs, n, hit, p)
    BY <1>2, <2>4, <2>5 DEF Hits
  <2>7. ~AllSkip(specs, n, p)
    BY <1>2, <2>4 DEF AllSkip
  <2> QED
    BY <2>6, <2>7 DEF hit, n
<1> QED
  BY <1>3, <1>4

\* What the source says, by a rule or by a policy.
LEMMA SourceIs ==
  ASSUME NEW dump, NEW p, NEW other, Restored(dump.filter, ChainOf(p)) \in Seq(Specs)
  PROVE  LET specs == Restored(dump.filter, ChainOf(p))
             n == Len(specs)  declared == Declared(dump, ChainOf(p))  says == SourceVerdict(dump, p, other) IN
         \/ \E h : /\ Hits(specs, n, h, p) /\ specs[h].target \in DOMAIN Words
                   /\ says = Words[specs[h].target]
         \/ /\ \/ AllSkip(specs, n, p)
               \/ \E h : Hits(specs, n, h, p) /\ specs[h].target \notin DOMAIN Words
            /\ says = IF declared = {} THEN other ELSE Words[CHOOSE w \in declared : TRUE]
<1> DEFINE specs == Restored(dump.filter, ChainOf(p))
           hit == SelectInSeq(specs, LAMBDA s : s.target # None /\ SpecMatches(s, p))
           n == Len(specs)
           declared == Declared(dump, ChainOf(p))
           says == SourceVerdict(dump, p, other)
           words == {specs[i].target : i \in {hit} \ {0}} \cap DOMAIN Words
           words2 == IF words = {} THEN declared ELSE words
<1>1. says = IF words2 = {} THEN other ELSE Words[CHOOSE w \in words2 : TRUE]
  BY Zenon DEF SourceVerdict
<1>2. IF AllSkip(specs, n, p) THEN hit = 0 ELSE Hits(specs, n, hit, p)
  BY HitIs
<1> HIDE DEF specs, hit, declared, says
<1>3. CASE AllSkip(specs, n, p)
  <2>1. words = {}
    BY <1>2, <1>3
  <2> HIDE DEF words
  <2> QED
    BY <1>1, <1>3, <2>1 DEF specs, declared, says
<1>4. CASE Hits(specs, n, hit, p) /\ specs[hit].target \notin DOMAIN Words
  <2>1. words = {}
    BY <1>4
  <2> HIDE DEF words
  <2> QED
    BY <1>1, <1>4, <2>1 DEF specs, declared, says
<1>5. CASE Hits(specs, n, hit, p) /\ specs[hit].target \in DOMAIN Words
  <2> DEFINE t == specs[hit].target
  <2>1. hit # 0
    BY <1>5 DEF Hits
  <2>2. words = {t}
    BY <1>5, <2>1
  <2> HIDE DEF words
  <2>3. words2 = {t}
    BY <2>2
  <2> HIDE DEF words2, t
  <2>4. says = Words[t]
    BY <1>1, <2>3
  <2> QED
    BY <1>5, <2>4 DEF specs, says, t
<1> QED
  BY <1>2, <1>3, <1>4, <1>5

-----------------------------------------------------------------------------
(* What an accepted import of a dump into an empty list makes of a packet. *)

\* The last rule of a packet's direction, if there is one, is in force.
LastActive(s, p) ==
  LET rules == RulesFor(s, p) IN
  LastOf(rules, p.dir) # 0 => Active(rules[LastOf(rules, p.dir)])

\* States with the same rules for a direction.
LEMMA AlikeState ==
  ASSUME NEW s, IsState(s), NEW u, IsState(u), NEW p, u.sets = s.sets,
         Alike(RulesFor(s, p), RulesFor(u, p), p.dir)
  PROVE  FirstMatch(u, p) = FirstMatch(s, p) /\ (LastActive(u, p) <=> LastActive(s, p))
<1> DEFINE a == RulesFor(s, p)  b == RulesFor(u, p)  N == DOMAIN s.sets  M == DOMAIN u.sets
<1>1. a \in Seq(Naming(N)) /\ b \in Seq(Naming(M)) /\ \A n \in N : s.sets[n] = u.sets[n]
  BY ListOf
<1> HIDE DEF N, M
<1>2. FirstMatch(u, p) = FirstMatch(s, p)
  BY <1>1, AlikeFirst
<1> DEFINE S == Naming(N)  R == Naming(M)
<1>3. a \in Seq(S) /\ b \in Seq(R) /\ Alike(a, b, p.dir)
  BY <1>1
<1> HIDE DEF a, b, S, R
<1>4. LastOf(b, p.dir) = LastOf(a, p.dir) /\ (LastOf(a, p.dir) # 0 => b[LastOf(a, p.dir)] = a[LastOf(a, p.dir)])
  BY <1>3, AlikeLast
<1>5. /\ LastActive(s, p) <=> (LastOf(a, p.dir) # 0 => Active(a[LastOf(a, p.dir)]))
      /\ LastActive(u, p) <=> (LastOf(b, p.dir) # 0 => Active(b[LastOf(b, p.dir)]))
  BY Zenon DEF LastActive, a, b
<1> QED
  BY <1>2, <1>4, <1>5

\* The policies of a packet's own chain: what no rule decides the effective
\* policy of the packet's family does, as the stored one or as a catchall.
LEMMA OwnPolicy ==
  ASSUME NEW s, IsState(s), NEW chain \in ChainNames, NEW four \in Streams, NEW six \in Streams,
         NEW p \in Packets, Direction(chain) = p.dir, p.v6 => s.ipv6, LastActive(s, p),
         NEW u, u = WithPolicy(s, chain, four, six)
  PROVE  /\ IsState(u) /\ u.sets = s.sets /\ u.ipv6 = s.ipv6
         /\ StateVerdict(u, p) = IF FirstMatch(s, p) # 0 THEN StateVerdict(s, p)
                                 ELSE Says(Effect(s, chain, StreamOf(four, six, p)))
<1> DEFINE w    == WithPolicy(s, chain, four, six)
           d    == Direction(chain)
           eff4 == Effect(s, chain, four)
           eff6 == Effect(s, chain, six)
           base == BaseOf(s, chain, four, six)
           N    == DOMAIN s.sets
           eff  == Effect(s, chain, StreamOf(four, six, p))
           l    == RulesFor(s, p)
<1>1. /\ IsState(w) /\ w.sets = s.sets /\ w.ipv6 = s.ipv6 /\ w.panic = s.panic
      /\ w.policies = [s.policies EXCEPT ![d] = base]
      /\ w.rules4 = IF eff4 # base THEN PolicyCatchall(s.rules4, d, eff4) ELSE s.rules4
      /\ w.rules6 = IF s.ipv6 /\ eff6 # base THEN PolicyCatchall(s.rules6, d, eff6) ELSE s.rules6
      /\ Stands(s.rules4, w.rules4, {}) /\ Stands(s.rules6, w.rules6, {})
  BY WithPolicyIs, Zenon
<1>2. s.policies \in [Directions -> Texts] /\ p.dir \in Directions /\ p.v6 \in BOOLEAN
  BY ChainsAssumption DEF IsState, Both
<1>3. IF p.v6 THEN eff6 = eff ELSE eff4 = eff
  BY DEF StreamOf
<1>4. eff \in {"allow", "deny", "reject"}
  <2>1. StreamOf(four, six, p) \in Streams
    BY DEF StreamOf
  <2> QED
    BY <2>1, EffectType
<1>5. l \in Seq(Naming(N))
  BY ListOf
<1>6. LastOf(l, p.dir) # 0 => Active(l[LastOf(l, p.dir)])
  BY Zenon DEF LastActive
<1>7. d = p.dir /\ w = u
  OBVIOUS
<1> HIDE DEF eff4, eff6, eff, base, d, w
<1>8. /\ IsState(u) /\ u.sets = s.sets /\ u.ipv6 = s.ipv6 /\ u.policies[p.dir] = base
      /\ RulesFor(u, p) = IF eff # base THEN PolicyCatchall(l, p.dir, eff) ELSE l
      /\ Stands(l, RulesFor(u, p), {})
  <2>1. CASE p.v6
    BY <1>1, <1>2, <1>3, <1>7, <2>1 DEF RulesFor
  <2>2. CASE ~p.v6
    BY <1>1, <1>2, <1>3, <1>7, <2>2 DEF RulesFor
  <2> QED
    BY <2>1, <2>2
<1>9. FirstMatch(s, p) # 0 => StateVerdict(u, p) = StateVerdict(s, p)
  BY <1>8, DecidesBefore
<1>10. ASSUME FirstMatch(s, p) = 0 PROVE StateVerdict(u, p) = Says(eff)
  <2>1. CASE eff = base
    <3>1. Alike(RulesFor(s, p), RulesFor(u, p), p.dir)
      BY <1>8, <2>1, AlikeSame
    <3>2. FirstMatch(u, p) = 0
      BY <1>8, <1>10, <3>1, AlikeState
    <3> QED
      BY <1>8, <2>1, <3>2, VerdictIs
  <2>2. CASE eff # base /\ RulesFor(u, p) = Append(l, Catchall(p.dir, eff))
    BY <1>4, <1>8, <1>10, <2>2, CatchallDecides
  <2>3. CASE eff # base /\ LastOf(l, p.dir) # 0 /\ MatchExact(l[LastOf(l, p.dir)], Catchall(p.dir, eff))
    <3> DEFINE k == LastOf(l, p.dir)  r == l[k]
    <3>1. k \in 1 .. Len(l) /\ r \in Naming(N) /\ Active(r)
      <4>1. k \in 1 .. Len(l)
        <5> DEFINE S == Naming(N)
        <5>1. l \in Seq(S)
          BY <1>5
        <5> HIDE DEF S, l, N
        <5> QED
          BY <2>3, <5>1, LastIs
      <4>2. Active(r)
        BY <1>6, <2>3
      <4> HIDE DEF k, l, N
      <4> QED
        BY <1>5, <4>1, <4>2
    <3>2. TupleKey(r) = TupleKey(Catchall(p.dir, eff))
      BY <2>3 DEF MatchExact
    <3>3. eff \in Texts
      BY <1>4, TextsAssumption
    <3> HIDE DEF r, k
    <3>4. Matches(s, r, p.v6, p)
      BY <3>1, <3>2, <3>3, CatchallMatches DEF Active
    <3>5. FirstMatch(s, p) # 0
      BY <1>5, <3>1, <3>4, SomeMatch DEF r
    <3> QED
      BY <1>10, <3>5
  <2>4. eff # base => \/ RulesFor(u, p) = Append(l, Catchall(p.dir, eff))
                      \/ LastOf(l, p.dir) # 0 /\ MatchExact(l[LastOf(l, p.dir)], Catchall(p.dir, eff))
    <3> HIDE DEF l
    <3> QED
      BY <1>8, Zenon DEF PolicyCatchall
  <2> QED
    BY <2>1, <2>2, <2>3, <2>4
<1> QED
  BY <1>8, <1>9, <1>10 DEF eff

\* The three chains, in their order.
LEMMA WithPolicies ==
  ASSUME NEW s, IsState(s), NEW four \in Streams, NEW six \in Streams, NEW p \in Packets,
         p.v6 => s.ipv6, LastActive(s, p)
  PROVE  LET input  == WithPolicy(s, "INPUT", four, six)
             output == WithPolicy(input, "OUTPUT", four, six) IN
         StateVerdict(WithPolicy(output, "FORWARD", four, six), p) =
           IF FirstMatch(s, p) # 0 THEN StateVerdict(s, p)
           ELSE Says(Effect(s, ChainOf(p), StreamOf(four, six, p)))
<1> DEFINE input  == WithPolicy(s, "INPUT", four, six)
           output == WithPolicy(input, "OUTPUT", four, six)
           last   == WithPolicy(output, "FORWARD", four, six)
           own    == StreamOf(four, six, p)
<1>1. /\ "INPUT" \in ChainNames /\ "OUTPUT" \in ChainNames /\ "FORWARD" \in ChainNames
      /\ Direction("INPUT") = "in" /\ Direction("OUTPUT") = "out" /\ Direction("FORWARD") = "routed"
      /\ p.dir \in {"in", "out", "routed"}
      /\ \A c \in ChainNames : Direction(c) = p.dir => c = ChainOf(p)
  <2>1. \A c \in ChainNames : Direction(c) = p.dir => c = ChainOf(p)
    BY ChainOfIs
  <2> QED
    BY <2>1, ChainsAssumption DEF ChainNames, Direction, Directions
<1> HIDE DEF input, output, last, own
<1>2. CASE p.dir = "in"
  <2>1. /\ IsState(input) /\ input.sets = s.sets /\ input.ipv6 = s.ipv6
        /\ StateVerdict(input, p) = IF FirstMatch(s, p) # 0 THEN StateVerdict(s, p)
                                    ELSE Says(Effect(s, "INPUT", own))
    BY <1>1, <1>2, OwnPolicy DEF input, own
  <2>2. IsState(output) /\ StateVerdict(output, p) = StateVerdict(input, p)
    BY <1>1, <1>2, <2>1, OtherChain DEF output
  <2>3. StateVerdict(last, p) = StateVerdict(output, p)
    BY <1>1, <1>2, <2>2, OtherChain DEF last
  <2>4. ChainOf(p) = "INPUT"
    BY <1>1, <1>2
  <2> QED
    BY <2>1, <2>2, <2>3, <2>4 DEF last, output, input, own
<1>3. CASE p.dir = "out"
  <2>1. /\ IsState(input) /\ input.sets = s.sets /\ input.ipv6 = s.ipv6
        /\ StateVerdict(input, p) = StateVerdict(s, p)
        /\ Alike(RulesFor(s, p), RulesFor(input, p), p.dir) /\ input.policies[p.dir] = s.policies[p.dir]
    BY <1>1, <1>3, OtherChain DEF input
  <2>2. FirstMatch(input, p) = FirstMatch(s, p) /\ LastActive(input, p)
    BY <2>1, AlikeState
  <2>3. /\ IsState(output)
        /\ StateVerdict(output, p) = IF FirstMatch(input, p) # 0 THEN StateVerdict(input, p)
                                     ELSE Says(Effect(input, "OUTPUT", own))
    BY <1>1, <1>3, <2>1, <2>2, OwnPolicy DEF output, own
  <2>4. StateVerdict(last, p) = StateVerdict(output, p)
    BY <1>1, <1>3, <2>3, OtherChain DEF last
  <2>5. Effect(input, "OUTPUT", own) = Effect(s, "OUTPUT", own)
    BY <1>1, <1>3, <2>1 DEF Effect
  <2>6. ChainOf(p) = "OUTPUT"
    BY <1>1, <1>3
  <2> QED
    BY <2>1, <2>2, <2>3, <2>4, <2>5, <2>6 DEF last, output, input, own
<1>4. CASE p.dir = "routed"
  <2>1. /\ IsState(input) /\ input.sets = s.sets /\ input.ipv6 = s.ipv6
        /\ StateVerdict(input, p) = StateVerdict(s, p)
        /\ Alike(RulesFor(s, p), RulesFor(input, p), p.dir) /\ input.policies[p.dir] = s.policies[p.dir]
    BY <1>1, <1>4, OtherChain DEF input
  <2>2. FirstMatch(input, p) = FirstMatch(s, p) /\ LastActive(input, p)
    BY <2>1, AlikeState
  <2>3. /\ IsState(output) /\ output.sets = input.sets /\ output.ipv6 = input.ipv6
        /\ StateVerdict(output, p) = StateVerdict(input, p)
        /\ Alike(RulesFor(input, p), RulesFor(output, p), p.dir)
        /\ output.policies[p.dir] = input.policies[p.dir]
    BY <1>1, <1>4, <2>1, OtherChain DEF output
  <2>4. FirstMatch(output, p) = FirstMatch(s, p) /\ LastActive(output, p)
    BY <2>1, <2>2, <2>3, AlikeState
  <2>5. StateVerdict(last, p) = IF FirstMatch(output, p) # 0 THEN StateVerdict(output, p)
                                ELSE Says(Effect(output, "FORWARD", own))
    BY <1>1, <1>4, <2>1, <2>3, <2>4, OwnPolicy DEF last, own
  <2>6. Effect(output, "FORWARD", own) = Effect(s, "FORWARD", own)
    BY <1>1, <1>4, <2>1, <2>3 DEF Effect
  <2>7. ChainOf(p) = "FORWARD"
    BY <1>1, <1>4
  <2> QED
    BY <2>1, <2>3, <2>4, <2>5, <2>6, <2>7 DEF last, output, input, own
<1> QED
  BY <1>1, <1>2, <1>3, <1>4

\* The first of a list, which decides in a state of that list.
LEMMA FirstDecides ==
  ASSUME NEW s, IsState(s), NEW p \in Packets
  PROVE  LET l == RulesFor(s, p) IN
         /\ NoneIn(l, Len(l), s, p) => FirstMatch(s, p) = 0
         /\ \A w \in {"allow", "deny", "reject"} : FirstIn(l, Len(l), s, p, w) =>
              FirstMatch(s, p) # 0 /\ StateVerdict(s, p) = Says(w)
<1> DEFINE l == RulesFor(s, p)  S == Naming(DOMAIN s.sets)
           I == {i \in 1 .. Len(l) : Matches(s, l[i], p.v6, p)}
<1>1. l \in Seq(S)
  BY ListOf
<1>2. /\ FirstMatch(s, p) # 0 => FirstMatch(s, p) \in I
      /\ \A i \in I : (\A k \in I : i <= k) => FirstMatch(s, p) = i
  <2> HIDE DEF S
  <2> QED
    BY <1>1, FirstIs
<1>3. NoneIn(l, Len(l), s, p) => FirstMatch(s, p) = 0
  BY <1>2 DEF NoneIn
<1>4. ASSUME NEW w \in {"allow", "deny", "reject"}, FirstIn(l, Len(l), s, p, w)
      PROVE  FirstMatch(s, p) # 0 /\ StateVerdict(s, p) = Says(w)
  <2>1. PICK k \in 1 .. Len(l) :
          /\ Matches(s, l[k], p.v6, p) /\ l[k].action = w
          /\ \A j \in 1 .. Len(l) : j < k => ~Matches(s, l[j], p.v6, p)
    BY <1>4 DEF FirstIn
  <2>2. k \in I /\ \A j \in I : k <= j
    <3> HIDE DEF l
    <3> QED
      BY <2>1
  <2>3. FirstMatch(s, p) = k /\ k # 0
    BY <1>2, <2>2
  <2>4. StateVerdict(s, p) = RuleDecides(l[k], p)
    BY <2>3, VerdictIs
  <2> DEFINE r == l[k]
  <2>5. r.action = w
    BY <2>1
  <2> HIDE DEF r, l
  <2>6. RuleDecides(r, p) = Says(w)
    BY <2>5 DEF RuleDecides, Says
  <2> QED
    BY <2>3, <2>4, <2>6 DEF r
<1> QED
  BY <1>3, <1>4

\* What an accepted import of dumps makes of the verdict on a packet, where no
\* rules are.
LEMMA DumpDecides ==
  ASSUME NEW s, IsState(s), NEW d4 \in Dumps \cup {NoDump}, NEW d6 \in Dumps \cup {NoDump},
         ~Refused(d4, d6), NEW p \in New, NEW dump, dump = IF p.v6 THEN d6 ELSE d4,
         dump # NoDump, ~Contradicts(dump), Len(RulesFor(s, p)) = 0
  PROVE  StateVerdict(Merged(s, d4, d6), p) = SourceVerdict(dump, p, StateVerdict(s, p))
<1> DEFINE four   == Read(d4, FALSE)
           six    == Read(d6, TRUE)
           j      == Joined(s, d4, d6)
           input  == WithPolicy(j, "INPUT", four, six)
           output == WithPolicy(input, "OUTPUT", four, six)
           N      == DOMAIN s.sets
           own    == StreamOf(four, six, p)
           b      == ChainOf(p)
           specs  == Restored(dump.filter, b)
           declared == Declared(dump, b)
           other  == StateVerdict(s, p)
           l      == RulesFor(j, p)
           says   == SourceVerdict(dump, p, other)
<1>1. Merged(s, d4, d6) = WithPolicy(output, "FORWARD", four, six)
  BY MergedSteps, Zenon
<1>2. four \in Streams /\ six \in Streams /\ four.ok /\ six.ok
  BY ReadRules DEF Refused
<1>3. /\ IsState(j) /\ j.sets = s.sets /\ j.policies = s.policies
      /\ j.ipv6 = (s.ipv6 \/ d6 # NoDump)
      /\ j.rules4 = MergeRules(s.rules4, four.rules)
      /\ j.rules6 = MergeRules(s.rules6, six.rules)
  BY JoinedIs
<1>4. p \in Packets /\ p.v6 \in BOOLEAN /\ p.dir \in Directions
  BY ChainsAssumption DEF New, Both
<1>5. own = Stream(dump, p.v6) /\ dump \in Dumps /\ own.ok /\ own \in Streams
  <2>1. CASE p.v6
    <3>1. p.v6 = TRUE /\ dump = d6
      BY <1>4, <2>1
    <3> QED
      BY <1>2, <2>1, <3>1 DEF StreamOf, Read
  <2>2. CASE ~p.v6
    <3>1. p.v6 = FALSE /\ dump = d4
      BY <1>4, <2>2
    <3> QED
      BY <1>2, <2>2, <3>1 DEF StreamOf, Read
  <2> QED
    BY <2>1, <2>2
<1>6. p.v6 => j.ipv6
  BY <1>3
<1>7. RulesFor(s, p) \in Seq(Naming(N)) /\ l = MergeRules(RulesFor(s, p), own.rules)
  BY <1>3, ListOf DEF RulesFor, StreamOf
<1> HIDE DEF four, six, j, own, N, input, output, b, says, other
<1>8. own.rules \in Seq(Naming({})) /\ Enabled(own.rules) /\ AgreeOn(own.rules, j, p)
  BY <1>5, FileAgrees
<1>9. own.rules \in Seq(Naming(N))
  BY <1>8, NamingGrows
<1>10. /\ Enabled(l)
       /\ NoneIn(own.rules, Len(own.rules), j, p) => NoneIn(l, Len(l), j, p)
       /\ \A w : FirstIn(own.rules, Len(own.rules), j, p, w) => FirstIn(l, Len(l), j, p, w)
  <2> DEFINE src == own.rules  old == RulesFor(s, p)
  <2>1. /\ old \in Seq(Naming(N)) /\ Len(old) = 0 /\ src \in Seq(Naming(N)) /\ Enabled(src)
        /\ AgreeOn(src, j, p) /\ l = MergeRules(old, src)
    BY <1>7, <1>8, <1>9
  <2> HIDE DEF src, old, l
  <2>2. LET m == MergeRules(old, src) IN
        /\ m \in Seq(Naming(N)) /\ Enabled(m)
        /\ NoneIn(src, Len(src), j, p) => NoneIn(m, Len(m), j, p)
        /\ \A w : FirstIn(src, Len(src), j, p, w) => FirstIn(m, Len(m), j, p, w)
    BY <2>1, FileDecides
  <2> QED
    BY <2>1, <2>2 DEF src
<1>11. /\ NoneIn(l, Len(l), j, p) => FirstMatch(j, p) = 0
       /\ \A w \in {"allow", "deny", "reject"} : FirstIn(l, Len(l), j, p, w) =>
            FirstMatch(j, p) # 0 /\ StateVerdict(j, p) = Says(w)
  BY <1>3, <1>4, FirstDecides
<1>12. LastActive(j, p)
  <2> DEFINE S == Naming(DOMAIN j.sets)  k == LastOf(l, p.dir)
  <2>1. l \in Seq(S)
    BY <1>3, ListOf
  <2>2. k # 0 => k \in 1 .. Len(l)
    <3> HIDE DEF S, l
    <3> QED
      BY <2>1, LastIs
  <2>3. k # 0 => Active(l[k])
    <3> HIDE DEF k, l
    <3> QED
      BY <1>10, <2>2 DEF Enabled, Active
  <2> QED
    BY <2>3, Zenon DEF LastActive
<1> HIDE DEF l
<1>13. StateVerdict(WithPolicy(output, "FORWARD", four, six), p) =
         IF FirstMatch(j, p) # 0 THEN StateVerdict(j, p) ELSE Says(Effect(j, b, own))
  BY <1>2, <1>3, <1>4, <1>6, <1>12, WithPolicies DEF input, output, own, b
<1>14. /\ specs \in Seq(Specs)
       /\ \E over : Answers(own.rules, over, specs, Len(specs), j, p)
  BY <1>5, FileAnswers DEF b
<1>15. PICK over : Answers(own.rules, over, specs, Len(specs), j, p)
  BY <1>14
<1>16. \/ \E h : /\ Hits(specs, Len(specs), h, p) /\ specs[h].target \in DOMAIN Words
                 /\ says = Words[specs[h].target]
       \/ /\ \/ AllSkip(specs, Len(specs), p)
             \/ \E h : Hits(specs, Len(specs), h, p) /\ specs[h].target \notin DOMAIN Words
          /\ says = IF declared = {} THEN other ELSE Words[CHOOSE w \in declared : TRUE]
  BY <1>14, SourceIs DEF says, b
<1>17. Says(Effect(j, b, own)) = IF declared = {} THEN other ELSE Words[CHOOSE w \in declared : TRUE]
  <2>1. b \in ChainNames /\ Direction(b) = p.dir
    BY <1>4, ChainOfIs DEF b
  <2>2. IF b \in DOMAIN own.policies
        THEN \E w \in DOMAIN Words : declared = {w} /\ own.policies[b] = PolicyWords[w]
        ELSE declared = {}
    BY <1>5, <2>1, ReadsAs
  <2> HIDE DEF declared
  <2>3. CASE b \in DOMAIN own.policies
    <3>1. PICK w \in DOMAIN Words : declared = {w} /\ own.policies[b] = PolicyWords[w]
      BY <2>2, <2>3
    <3>2. Effect(j, b, own) = PolicyWords[w]
      BY <2>3, <3>1 DEF Effect
    <3>3. Says(PolicyWords[w]) = Words[w]
      BY TargetsAre
    <3> QED
      BY <3>1, <3>2, <3>3
  <2>4. CASE b \notin DOMAIN own.policies
    <3>1. Effect(j, b, own) = EffPol(s.policies[p.dir])
      BY <1>3, <2>1, <2>4 DEF Effect
    <3>2. FirstMatch(s, p) = 0
      <4>1. NoneIn(RulesFor(s, p), Len(RulesFor(s, p)), s, p)
        BY DEF NoneIn
      <4> QED
        BY <1>4, <4>1, FirstDecides
    <3>3. other = Says(s.policies[p.dir])
      BY <1>4, <3>2, VerdictIs DEF other
    <3> QED
      BY <2>2, <2>4, <3>1, <3>3, SaysEffective
  <2> QED
    BY <2>3, <2>4
<1> HIDE DEF declared, specs
<1>18. /\ AllSkip(specs, Len(specs), p) => NoneIn(own.rules, Len(own.rules), j, p)
       /\ \A h : Hits(specs, Len(specs), h, p) =>
            IF specs[h].target \in DOMAIN Words
            THEN FirstIn(own.rules, Len(own.rules), j, p, Verdicts4[specs[h].target])
            ELSE NoneIn(own.rules, Len(own.rules), j, p)
  BY <1>15, Zenon DEF Answers
<1>19. CASE \E h : /\ Hits(specs, Len(specs), h, p) /\ specs[h].target \in DOMAIN Words
                   /\ says = Words[specs[h].target]
  <2>1. PICK h : /\ Hits(specs, Len(specs), h, p) /\ specs[h].target \in DOMAIN Words
                 /\ says = Words[specs[h].target]
    BY <1>19
  <2> DEFINE w == specs[h].target
  <2>2. FirstIn(l, Len(l), j, p, Verdicts4[w])
    BY <1>10, <1>18, <2>1
  <2>3. Verdicts4[w] \in {"allow", "deny", "reject"} /\ Says(Verdicts4[w]) = Words[w]
    BY <2>1, TargetsAre
  <2>4. FirstMatch(j, p) # 0 /\ StateVerdict(j, p) = Words[w]
    BY <1>11, <2>2, <2>3
  <2> QED
    BY <1>1, <1>13, <2>1, <2>4 DEF says, other
<1>20. CASE /\ \/ AllSkip(specs, Len(specs), p)
               \/ \E h : Hits(specs, Len(specs), h, p) /\ specs[h].target \notin DOMAIN Words
            /\ says = IF declared = {} THEN other ELSE Words[CHOOSE w \in declared : TRUE]
  <2>1. NoneIn(own.rules, Len(own.rules), j, p)
    BY <1>18, <1>20
  <2>2. FirstMatch(j, p) = 0
    BY <1>10, <1>11, <2>1
  <2> QED
    BY <1>1, <1>13, <1>17, <1>20, <2>2 DEF says, other
<1> QED
  BY <1>16, <1>19, <1>20

(* An accepted import (ImportIPTables) into a state without rules says of  *)
(* each packet that opens a connection what its source says: the rules of  *)
(* a chain become rules of its direction in their order, up to its end, a  *)
(* merge changes none of them but to what a rule of the same conditions    *)
(* says, and the policy of each family is stored or is its last rule.      *)
THEOREM SourceIsKept == Spec => []SourceKept
<1>1. ASSUME Made PROVE SourceKept
  <2>1. ASSUME NEW i \in LastFrom("iptables"), Fresh(i), NEW p \in New,
               DumpFor(i, p) # NoDump, ~Contradicts(DumpFor(i, p))
        PROVE  StateVerdict(st, p) = SourceVerdict(DumpFor(i, p), p, StateVerdict(i.before, p))
    <3>1. i \in LastImport /\ i.kind = "iptables"
      BY DEF LastFrom
    <3>2. IsState(i.before) /\ MadeFrom(i, st)
      BY <1>1, <3>1 DEF Made
    <3> DEFINE d4 == i.source.v4  d6 == i.source.v6  s == i.before  dump == DumpFor(i, p)
    <3>3. /\ d4 \in Dumps \cup {NoDump} /\ d6 \in Dumps \cup {NoDump} /\ ~Refused(d4, d6)
          /\ st = Merged(s, d4, d6) /\ IsState(s)
      BY <3>1, <3>2 DEF MadeFrom
    <3>4. dump = IF p.v6 THEN d6 ELSE d4
      BY DEF DumpFor
    <3>5. s.rules4 \o s.rules6 = <<>>
      BY <2>1 DEF Fresh
    <3>6. dump # NoDump /\ ~Contradicts(dump)
      BY <2>1
    <3> HIDE DEF d4, d6, s, dump
    <3>7. Len(RulesFor(s, p)) = 0
      <4> DEFINE S == Naming(DOMAIN s.sets)
      <4>1. s.rules4 \in Seq(S) /\ s.rules6 \in Seq(S)
        BY <3>3 DEF IsState
      <4> HIDE DEF S
      <4>2. Len(s.rules4) = 0 /\ Len(s.rules6) = 0
        BY <3>5, <4>1
      <4> QED
        BY <4>2 DEF RulesFor
    <3>8. StateVerdict(Merged(s, d4, d6), p) = SourceVerdict(dump, p, StateVerdict(s, p))
      BY <3>3, <3>4, <3>6, <3>7, DumpDecides
    <3>9. StateVerdict(st, p) = StateVerdict(Merged(s, d4, d6), p)
      BY <3>3
    <3> QED
      BY <3>8, <3>9 DEF s, dump
  <2> QED
    BY <2>1 DEF SourceKept
<1> QED
  BY <1>1, StateIsMade, PTL

-----------------------------------------------------------------------------
(* What an nft rule is read into matches what its expressions match.       *)

\* The conditions of a rule, one by one.
IfaceOk(name, iface) == name = AnyIface \/ iface \in Ifaces[name]
ProtoOk(proto, p) == proto \in {"any", p.proto}
TypeOk(n, p) == n \in {AnyType, p.icmp}
NetOk(net, addr, v6) == net # NoNet => net.v6 = v6 /\ addr \in Block(net)

RuleHolds(r, p) ==
  /\ IfaceOk(r.iif, p.iif) /\ IfaceOk(r.oif, p.oif) /\ ProtoOk(r.proto, p) /\ TypeOk(r.icmp, p)
  /\ NetOk(r.src.net, p.src, p.v6) /\ NetOk(r.dst.net, p.dst, p.v6)
  /\ InPorts(r.src.ports, p.sport, p.proto) /\ InPorts(r.dst.ports, p.dport, p.proto)

\* Ports are of a protocol that has them.
PortsTyped(r) == r.src.ports \cup r.dst.ports # {} => r.proto \in {"tcp", "udp"}

\* What a conversion so far is about.
ReadsTo(cv, p) == p.v6 \in cv.families /\ RuleHolds(cv.rule, p)

LEMMA MatchesIs ==
  ASSUME NEW r \in Naming({}), PortsTyped(r), ~r.disabled, ~r.expired, NEW s, NEW p
  PROVE  Matches(s, r, p.v6, p) <=> p.dir = r.dir /\ RuleHolds(r, p)
<1>1. r.src.set = NoSet /\ r.dst.set = NoSet
  BY DEF Naming
<1>2. /\ InEndpoint(s, r.src, p.src, p.v6) <=> NetOk(r.src.net, p.src, p.v6)
      /\ InEndpoint(s, r.dst, p.dst, p.v6) <=> NetOk(r.dst.net, p.dst, p.v6)
  BY <1>1, Zenon DEF InEndpoint, NetOk
<1>3. ProtoOk(r.proto, p) => (r.src.ports \cup r.dst.ports # {} => p.proto \in {"tcp", "udp"})
  <2> DEFINE a == r.src.ports \cup r.dst.ports
  <2>1. a # {} => r.proto \in {"tcp", "udp"}
    BY DEF PortsTyped
  <2> HIDE DEF a
  <2>2. ProtoOk(r.proto, p) => (a # {} => p.proto \in {"tcp", "udp"})
    BY <2>1 DEF ProtoOk
  <2> QED
    BY <2>2 DEF a
<1> QED
  BY <1>2, <1>3, Zenon DEF Matches, RuleHolds, IfaceOk, ProtoOk, TypeOk

\* The fields of a rule that tell what it matches and does.
Parts == {"action", "dir", "iif", "oif", "proto", "icmp", "src", "dst", "disabled", "expired"}
LikeBut(q, r, f) == \A g \in Parts \ {f} : q[g] = r[g]

LEMMA FieldWith ==
  ASSUME NEW r \in Naming({}), NEW x
  PROVE  /\ [r EXCEPT !.proto = x].proto = x /\ LikeBut([r EXCEPT !.proto = x], r, "proto")
         /\ [r EXCEPT !.iif = x].iif = x /\ LikeBut([r EXCEPT !.iif = x], r, "iif")
         /\ [r EXCEPT !.oif = x].oif = x /\ LikeBut([r EXCEPT !.oif = x], r, "oif")
         /\ [r EXCEPT !.icmp = x].icmp = x /\ LikeBut([r EXCEPT !.icmp = x], r, "icmp")
         /\ [r EXCEPT !.action = x].action = x /\ LikeBut([r EXCEPT !.action = x], r, "action")
         /\ LikeBut([r EXCEPT !.log = x], r, "log")
         /\ [r EXCEPT !.src = x].src = x /\ LikeBut([r EXCEPT !.src = x], r, "src")
         /\ [r EXCEPT !.dst = x].dst = x /\ LikeBut([r EXCEPT !.dst = x], r, "dst")
<1>1. r \in Listed
  BY DEF Naming
<1>2. [r EXCEPT !.proto = x].proto = x /\ LikeBut([r EXCEPT !.proto = x], r, "proto")
  BY <1>1 DEF Listed, LikeBut, Parts
<1>3. [r EXCEPT !.iif = x].iif = x /\ LikeBut([r EXCEPT !.iif = x], r, "iif")
  BY <1>1 DEF Listed, LikeBut, Parts
<1>4. [r EXCEPT !.oif = x].oif = x /\ LikeBut([r EXCEPT !.oif = x], r, "oif")
  BY <1>1 DEF Listed, LikeBut, Parts
<1>5. [r EXCEPT !.icmp = x].icmp = x /\ LikeBut([r EXCEPT !.icmp = x], r, "icmp")
  BY <1>1 DEF Listed, LikeBut, Parts
<1>6. [r EXCEPT !.action = x].action = x /\ LikeBut([r EXCEPT !.action = x], r, "action")
  BY <1>1 DEF Listed, LikeBut, Parts
<1>7. LikeBut([r EXCEPT !.log = x], r, "log")
  BY <1>1 DEF Listed, LikeBut, Parts
<1>8. [r EXCEPT !.src = x].src = x /\ LikeBut([r EXCEPT !.src = x], r, "src")
  BY <1>1 DEF Listed, LikeBut, Parts
<1>9. [r EXCEPT !.dst = x].dst = x /\ LikeBut([r EXCEPT !.dst = x], r, "dst")
  BY <1>1 DEF Listed, LikeBut, Parts
<1> QED
  BY <1>2, <1>3, <1>4, <1>5, <1>6, <1>7, <1>8, <1>9

\* What a change of one field does to what a rule matches.
LEMMA HoldsWith ==
  ASSUME NEW q, NEW r, NEW p
  PROVE  /\ LikeBut(q, r, "proto") /\ (ProtoOk(q.proto, p) => ProtoOk(r.proto, p)) =>
              (RuleHolds(q, p) <=> RuleHolds(r, p) /\ ProtoOk(q.proto, p))
         /\ LikeBut(q, r, "iif") /\ (IfaceOk(q.iif, p.iif) => IfaceOk(r.iif, p.iif)) =>
              (RuleHolds(q, p) <=> RuleHolds(r, p) /\ IfaceOk(q.iif, p.iif))
         /\ LikeBut(q, r, "oif") /\ (IfaceOk(q.oif, p.oif) => IfaceOk(r.oif, p.oif)) =>
              (RuleHolds(q, p) <=> RuleHolds(r, p) /\ IfaceOk(q.oif, p.oif))
         /\ LikeBut(q, r, "icmp") /\ (TypeOk(q.icmp, p) => TypeOk(r.icmp, p)) =>
              (RuleHolds(q, p) <=> RuleHolds(r, p) /\ TypeOk(q.icmp, p))
         /\ LikeBut(q, r, "action") \/ LikeBut(q, r, "log") => (RuleHolds(q, p) <=> RuleHolds(r, p))
BY DEF LikeBut, Parts, RuleHolds

\* The same of an end.
LEMMA EndHoldsWith ==
  ASSUME NEW q, NEW r, NEW p
  PROVE  /\ LikeBut(q, r, "src") /\ q.src.ports = r.src.ports
            /\ (NetOk(q.src.net, p.src, p.v6) => NetOk(r.src.net, p.src, p.v6)) =>
              (RuleHolds(q, p) <=> RuleHolds(r, p) /\ NetOk(q.src.net, p.src, p.v6))
         /\ LikeBut(q, r, "dst") /\ q.dst.ports = r.dst.ports
            /\ (NetOk(q.dst.net, p.dst, p.v6) => NetOk(r.dst.net, p.dst, p.v6)) =>
              (RuleHolds(q, p) <=> RuleHolds(r, p) /\ NetOk(q.dst.net, p.dst, p.v6))
         /\ LikeBut(q, r, "src") /\ q.src.net = r.src.net
            /\ (InPorts(q.src.ports, p.sport, p.proto) => InPorts(r.src.ports, p.sport, p.proto)) =>
              (RuleHolds(q, p) <=> RuleHolds(r, p) /\ InPorts(q.src.ports, p.sport, p.proto))
         /\ LikeBut(q, r, "dst") /\ q.dst.net = r.dst.net
            /\ (InPorts(q.dst.ports, p.dport, p.proto) => InPorts(r.dst.ports, p.dport, p.proto)) =>
              (RuleHolds(q, p) <=> RuleHolds(r, p) /\ InPorts(q.dst.ports, p.dport, p.proto))
BY DEF LikeBut, Parts, RuleHolds

\* What a step keeps of a conversion.
Kept(nv, cv) ==
  /\ nv.rule.dir = cv.rule.dir /\ nv.rule.disabled = cv.rule.disabled
  /\ nv.rule.expired = cv.rule.expired /\ nv.families \subseteq cv.families

SameNets(q, r) == q.src.net = r.src.net /\ q.dst.net = r.dst.net

LEMMA PutParts ==
  ASSUME NEW cv \in Convs, NEW ok, NEW r
  PROVE  /\ ConvPut(cv, ok, r).ok = ok /\ ConvPut(cv, ok, r).rule = r
         /\ ConvPut(cv, ok, r).done = cv.done /\ ConvPut(cv, ok, r).families = cv.families
BY DEF Convs, ConvPut

LEMMA KeptLike ==
  ASSUME NEW nv, NEW cv, NEW f \in {"proto", "iif", "oif", "icmp", "src", "dst", "action", "log"},
         LikeBut(nv.rule, cv.rule, f), nv.families \subseteq cv.families
  PROVE  /\ Kept(nv, cv)
         /\ f \notin {"src", "dst"} => SameNets(nv.rule, cv.rule)
         /\ f \notin {"src", "dst", "proto"} /\ PortsTyped(cv.rule) => PortsTyped(nv.rule)
<1>1. Kept(nv, cv)
  BY DEF Kept, LikeBut, Parts
<1>2. f \notin {"src", "dst"} => SameNets(nv.rule, cv.rule)
  BY DEF SameNets, LikeBut, Parts
<1>3. f \notin {"src", "dst", "proto"} /\ PortsTyped(cv.rule) => PortsTyped(nv.rule)
  BY DEF PortsTyped, LikeBut, Parts
<1> QED
  BY <1>1, <1>2, <1>3

\* To one family.
LEMMA NarrowReads ==
  ASSUME NEW cv \in Convs, NEW v6 \in BOOLEAN
  PROVE  LET nv == Narrow(cv, v6) IN
         /\ nv.done = cv.done /\ nv.rule = cv.rule
         /\ nv.ok => /\ cv.ok /\ v6 \in cv.families /\ Kept(nv, cv)
                     /\ \A p : ReadsTo(nv, p) <=> ReadsTo(cv, p) /\ p.v6 = v6
<1> DEFINE nv == Narrow(cv, v6)
<1>1. /\ nv.ok = (cv.ok /\ v6 \in cv.families) /\ nv.families = {v6}
      /\ nv.rule = cv.rule /\ nv.done = cv.done
  BY DEF Narrow, Convs
<1> HIDE DEF nv
<1>2. nv.ok => Kept(nv, cv)
  BY <1>1 DEF Kept
<1>3. nv.ok => \A p : ReadsTo(nv, p) <=> ReadsTo(cv, p) /\ p.v6 = v6
  BY <1>1 DEF ReadsTo
<1> QED
  BY <1>1, <1>2, <1>3 DEF nv

LEMMA NftProtosAre == "any" \notin NftProtos
BY DEF NftProtos

\* To one protocol, and the family that it has.
LEMMA SetProtoReads ==
  ASSUME NEW cv \in Convs, NEW w \in Texts
  PROVE  LET nv == SetProto(cv, w) IN
         /\ nv.done = cv.done /\ nv.rule = [cv.rule EXCEPT !.proto = w]
         /\ nv.ok => /\ cv.ok /\ Kept(nv, cv) /\ SameNets(nv.rule, cv.rule)
                     /\ PortsTyped(cv.rule) => PortsTyped(nv.rule)
                     /\ w # "any"
                     /\ \A p \in Packets : OwnIcmp(p) =>
                          (ReadsTo(nv, p) <=> ReadsTo(cv, p) /\ p.proto = w)
<1> DEFINE narrowed == CASE w = "icmp"   -> Narrow(cv, FALSE)
                         [] w = "icmpv6" -> Narrow(cv, TRUE)
                         [] OTHER        -> cv
           ok == narrowed.ok /\ w \in NftProtos /\ cv.rule.proto \in {"any", w}
           q == [narrowed.rule EXCEPT !.proto = w]
           nv == SetProto(cv, w)
           Fam == CASE w = "icmp" -> {FALSE} [] w = "icmpv6" -> {TRUE} [] OTHER -> BOOLEAN
<1>1. nv = ConvPut(narrowed, ok, q)
  BY DEF SetProto, ConvPut
<1>2. /\ narrowed \in Convs /\ narrowed.rule = cv.rule /\ narrowed.done = cv.done
      /\ narrowed.ok => /\ cv.ok /\ narrowed.families \subseteq cv.families
                        /\ \A p : p.v6 \in narrowed.families /\ RuleHolds(cv.rule, p) <=>
                                    /\ p.v6 \in cv.families /\ RuleHolds(cv.rule, p)
                                    /\ w = "icmp" => p.v6 = FALSE
                                    /\ w = "icmpv6" => p.v6 = TRUE
  <2>1. CASE w = "icmp"
    <3>1. narrowed = Narrow(cv, FALSE)
      BY <2>1
    <3> HIDE DEF narrowed
    <3>2. narrowed \in Convs
      BY <3>1, NarrowType
    <3>3. /\ narrowed.done = cv.done /\ narrowed.rule = cv.rule
          /\ narrowed.ok => /\ cv.ok /\ FALSE \in cv.families /\ Kept(narrowed, cv)
                            /\ \A p : ReadsTo(narrowed, p) <=> ReadsTo(cv, p) /\ p.v6 = FALSE
      BY <3>1, NarrowReads
    <3>4. w # "icmpv6"
      BY <2>1
    <3> QED
      BY <2>1, <3>2, <3>3, <3>4 DEF Kept, ReadsTo
  <2>2. CASE w = "icmpv6"
    <3>1. narrowed = Narrow(cv, TRUE) /\ w # "icmp"
      BY <2>2
    <3> HIDE DEF narrowed
    <3>2. narrowed \in Convs
      BY <3>1, NarrowType
    <3>3. /\ narrowed.done = cv.done /\ narrowed.rule = cv.rule
          /\ narrowed.ok => /\ cv.ok /\ TRUE \in cv.families /\ Kept(narrowed, cv)
                            /\ \A p : ReadsTo(narrowed, p) <=> ReadsTo(cv, p) /\ p.v6 = TRUE
      BY <3>1, NarrowReads
    <3> QED
      BY <2>2, <3>1, <3>2, <3>3 DEF Kept, ReadsTo
  <2>3. CASE w \notin {"icmp", "icmpv6"}
    <3>1. narrowed = cv
      BY <2>3
    <3> QED
      BY <2>3, <3>1
  <2> QED
    BY <2>1, <2>2, <2>3
<1> HIDE DEF narrowed
<1>3. /\ nv.ok = ok /\ nv.rule = q /\ nv.done = cv.done /\ nv.families = narrowed.families
  <2> HIDE DEF ok, q, nv
  <2>1. /\ ConvPut(narrowed, ok, q).ok = ok /\ ConvPut(narrowed, ok, q).rule = q
        /\ ConvPut(narrowed, ok, q).done = narrowed.done
        /\ ConvPut(narrowed, ok, q).families = narrowed.families
    BY <1>2, PutParts
  <2> QED
    BY <1>1, <1>2, <2>1
<1>4. q = [cv.rule EXCEPT !.proto = w]
  BY <1>2
<1>5. cv.rule \in Naming({})
  BY DEF Convs
<1>6. q.proto = w /\ LikeBut(q, cv.rule, "proto")
  <2> DEFINE r == cv.rule
  <2>1. r \in Naming({}) /\ q = [r EXCEPT !.proto = w]
    BY <1>4, <1>5
  <2> HIDE DEF q, r
  <2>2. q.proto = w /\ LikeBut(q, r, "proto")
    BY <2>1, FieldWith
  <2> QED
    BY <2>2 DEF r
<1> HIDE DEF q, nv
<1>7. ASSUME ok
      PROVE  /\ cv.ok /\ Kept(nv, cv) /\ SameNets(nv.rule, cv.rule)
             /\ PortsTyped(cv.rule) => PortsTyped(nv.rule)
             /\ w # "any"
             /\ \A p \in Packets : OwnIcmp(p) => (ReadsTo(nv, p) <=> ReadsTo(cv, p) /\ p.proto = w)
  <2>1. w # "any" /\ cv.rule.proto \in {"any", w} /\ narrowed.ok
    BY <1>7, NftProtosAre
  <2>2. Kept(nv, cv) /\ SameNets(nv.rule, cv.rule)
    BY <1>2, <1>3, <1>6, <2>1, KeptLike
  <2>3. PortsTyped(cv.rule) => PortsTyped(nv.rule)
    <3>1. q.src = cv.rule.src /\ q.dst = cv.rule.dst
      BY <1>6 DEF LikeBut, Parts
    <3> QED
      BY <1>3, <1>6, <2>1, <3>1 DEF PortsTyped
  <2>4. ASSUME NEW p \in Packets, OwnIcmp(p) PROVE ReadsTo(nv, p) <=> ReadsTo(cv, p) /\ p.proto = w
    <3>1. p.v6 \in BOOLEAN
      BY ChainsAssumption DEF Both
    <3>2. ProtoOk(w, p) <=> p.proto = w
      BY <2>1 DEF ProtoOk
    <3>3. ProtoOk(w, p) => ProtoOk(cv.rule.proto, p)
      BY <2>1 DEF ProtoOk
    <3>4. RuleHolds(q, p) <=> RuleHolds(cv.rule, p) /\ p.proto = w
      BY <1>6, <3>2, <3>3, HoldsWith
    <3>5. p.proto = w => (w = "icmp" => p.v6 = FALSE) /\ (w = "icmpv6" => p.v6 = TRUE)
      BY <2>4, <3>1 DEF OwnIcmp
    <3> QED
      BY <1>2, <1>3, <2>1, <3>4, <3>5 DEF ReadsTo
  <2> QED
    BY <1>2, <2>1, <2>2, <2>3, <2>4
<1> QED
  BY <1>3, <1>4, <1>7 DEF nv

\* A step that brings one more condition.
Adds(nv, cv, e) ==
  /\ cv.ok /\ Kept(nv, cv)
  /\ PortsTyped(cv.rule) => PortsTyped(nv.rule)
  /\ \A p \in Packets : OwnIcmp(p) => (ReadsTo(nv, p) <=> ReadsTo(cv, p) /\ ExprHolds(e, p))

LEMMA NoIface == AnyIface = None
BY DEF AnyIface, None

LEMMA IfaceEqReads ==
  ASSUME NEW cv \in Convs, NEW e \in Exprs, e.op \in {"iifname", "oifname"},
         NftIfaces[e.word] = Ifaces[e.word]
  PROVE  LET nv == IfaceEq(cv, IF e.op = "iifname" THEN "iif" ELSE "oif", e.word) IN
         /\ nv.done = cv.done
         /\ nv.ok => Adds(nv, cv, e) /\ SameNets(nv.rule, cv.rule)
<1> DEFINE side == IF e.op = "iifname" THEN "iif" ELSE "oif"
           name == e.word
           r  == cv.rule
           ok == cv.ok /\ name # None /\ r[side] \in {AnyIface, name}
           q  == [r EXCEPT ![side] = name]
           nv == IfaceEq(cv, side, name)
<1>1. nv = ConvPut(cv, ok, q)
  BY DEF IfaceEq, ConvPut
<1>2. r \in Naming({}) /\ side \in {"iif", "oif"}
  BY DEF Convs
<1> HIDE DEF r, ok, q, nv
<1>3. nv.ok = ok /\ nv.rule = q /\ nv.done = cv.done /\ nv.families = cv.families
  BY <1>1, PutParts
<1>4. ASSUME ok PROVE Adds(nv, cv, e) /\ SameNets(nv.rule, cv.rule)
  <2>1. cv.ok /\ name # AnyIface /\ r[side] \in {AnyIface, name}
    BY <1>4, NoIface DEF ok
  <2>2. CASE e.op = "iifname"
    <3>1. side = "iif" /\ q = [r EXCEPT !.iif = name]
      BY <2>2 DEF q
    <3>2. q.iif = name /\ LikeBut(q, r, "iif")
      BY <1>2, <3>1, FieldWith
    <3>3. Kept(nv, cv) /\ SameNets(nv.rule, cv.rule) /\ (PortsTyped(cv.rule) => PortsTyped(nv.rule))
      BY <1>3, <3>2, KeptLike DEF r
    <3>4. ASSUME NEW p PROVE ReadsTo(nv, p) <=> ReadsTo(cv, p) /\ ExprHolds(e, p)
      <4>1. ExprHolds(e, p) <=> p.iif \in NftIfaces[e.word]
        BY <2>2 DEF ExprHolds
      <4>2. IfaceOk(name, p.iif) <=> ExprHolds(e, p)
        BY <2>1, <4>1 DEF IfaceOk
      <4>3. r.iif \in {AnyIface, name}
        BY <2>1, <3>1
      <4>4. IfaceOk(name, p.iif) => IfaceOk(r.iif, p.iif)
        BY <4>3 DEF IfaceOk
      <4>5. RuleHolds(q, p) <=> RuleHolds(r, p) /\ ExprHolds(e, p)
        BY <3>2, <4>2, <4>4, HoldsWith
      <4> QED
        BY <1>3, <4>5 DEF ReadsTo, r
    <3> QED
      BY <2>1, <3>3, <3>4 DEF Adds
  <2>3. CASE e.op = "oifname"
    <3>1. side = "oif" /\ q = [r EXCEPT !.oif = name]
      BY <2>3 DEF q
    <3>2. q.oif = name /\ LikeBut(q, r, "oif")
      BY <1>2, <3>1, FieldWith
    <3>3. Kept(nv, cv) /\ SameNets(nv.rule, cv.rule) /\ (PortsTyped(cv.rule) => PortsTyped(nv.rule))
      BY <1>3, <3>2, KeptLike DEF r
    <3>4. ASSUME NEW p PROVE ReadsTo(nv, p) <=> ReadsTo(cv, p) /\ ExprHolds(e, p)
      <4>1. ExprHolds(e, p) <=> p.oif \in NftIfaces[e.word]
        BY <2>3 DEF ExprHolds
      <4>2. IfaceOk(name, p.oif) <=> ExprHolds(e, p)
        BY <2>1, <4>1 DEF IfaceOk
      <4>3. r.oif \in {AnyIface, name}
        BY <2>1, <3>1
      <4>4. IfaceOk(name, p.oif) => IfaceOk(r.oif, p.oif)
        BY <4>3 DEF IfaceOk
      <4>5. RuleHolds(q, p) <=> RuleHolds(r, p) /\ ExprHolds(e, p)
        BY <3>2, <4>2, <4>4, HoldsWith
      <4> QED
        BY <1>3, <4>5 DEF ReadsTo, r
    <3> QED
      BY <2>1, <3>3, <3>4 DEF Adds
  <2> QED
    BY <2>2, <2>3
<1> QED
  BY <1>3, <1>4 DEF nv

\* One type of ICMP.
LEMMA IcmpTypeReads ==
  ASSUME NEW cv \in Convs, NEW e \in Exprs, e.op = "icmptype"
  PROVE  LET nv == IcmpTypeIs(cv, e) IN
         /\ nv.done = cv.done
         /\ nv.ok => Adds(nv, cv, e) /\ SameNets(nv.rule, cv.rule)
<1> DEFINE w  == IF e.v6 THEN "icmpv6" ELSE "icmp"
           m  == SetProto(cv, w)
           r  == m.rule
           ok == m.ok /\ cv.rule.icmp \in {AnyType, e.n}
           q  == [r EXCEPT !.icmp = e.n]
           nv == IcmpTypeIs(cv, e)
<1>0. e.n \in Nat /\ w \in Texts
  BY TextsAssumption DEF Exprs
<1>1. nv = ConvPut(m, ok, q)
  BY DEF IcmpTypeIs, ConvPut
<1> HIDE DEF w
<1>2. m \in Convs /\ r \in Naming({})
  BY <1>0, SetProtoType DEF Convs
<1>3. /\ m.done = cv.done /\ r = [cv.rule EXCEPT !.proto = w]
      /\ m.ok => /\ cv.ok /\ Kept(m, cv) /\ SameNets(m.rule, cv.rule)
                 /\ PortsTyped(cv.rule) => PortsTyped(m.rule)
                 /\ \A p \in Packets : OwnIcmp(p) =>
                      (ReadsTo(m, p) <=> ReadsTo(cv, p) /\ p.proto = w)
  BY <1>0, SetProtoReads
<1> DEFINE cr == cv.rule
<1>4. r.icmp = cv.rule.icmp
  <2>1. cr \in Naming({}) /\ r = [cr EXCEPT !.proto = w]
    BY <1>3 DEF Convs
  <2> HIDE DEF cr, r
  <2>2. LikeBut(r, cr, "proto")
    BY <2>1, FieldWith
  <2> QED
    BY <2>2 DEF LikeBut, Parts, cr
<1> HIDE DEF r, ok, q, nv, m
<1>5. nv.ok = ok /\ nv.rule = q /\ nv.done = m.done /\ nv.families = m.families
  BY <1>1, <1>2, PutParts
<1>6. q.icmp = e.n /\ LikeBut(q, r, "icmp")
  BY <1>2, FieldWith DEF q
<1>7. Kept(nv, m) /\ SameNets(nv.rule, m.rule) /\ (PortsTyped(m.rule) => PortsTyped(nv.rule))
  BY <1>5, <1>6, KeptLike DEF r
<1>8. ASSUME ok PROVE Adds(nv, cv, e) /\ SameNets(nv.rule, cv.rule)
  <2>1. m.ok /\ cv.rule.icmp \in {AnyType, e.n}
    BY <1>8 DEF ok
  <2>2. Kept(nv, cv) /\ SameNets(nv.rule, cv.rule) /\ (PortsTyped(cv.rule) => PortsTyped(nv.rule))
    BY <1>3, <1>7, <2>1 DEF Kept, SameNets, r
  <2>3. ASSUME NEW p \in Packets, OwnIcmp(p)
        PROVE  ReadsTo(nv, p) <=> ReadsTo(cv, p) /\ ExprHolds(e, p)
    <3>1. ExprHolds(e, p) <=> p.proto = w /\ p.icmp = e.n
      BY DEF ExprHolds, w
    <3>2. TypeOk(q.icmp, p) <=> p.icmp = e.n
      BY <1>0, <1>6 DEF TypeOk, AnyType
    <3>3. TypeOk(q.icmp, p) => TypeOk(r.icmp, p)
      BY <1>4, <2>1, <3>2 DEF TypeOk
    <3>4. RuleHolds(q, p) <=> RuleHolds(r, p) /\ p.icmp = e.n
      BY <1>6, <3>2, <3>3, HoldsWith
    <3>5. ReadsTo(nv, p) <=> ReadsTo(m, p) /\ p.icmp = e.n
      BY <1>5, <3>4 DEF ReadsTo, r
    <3>6. ReadsTo(m, p) <=> ReadsTo(cv, p) /\ p.proto = w
      BY <1>3, <2>1, <2>3
    <3> QED
      BY <3>1, <3>5, <3>6
  <2> QED
    BY <1>3, <2>1, <2>2, <2>3 DEF Adds
<1> QED
  BY <1>3, <1>5, <1>8 DEF nv

\* A change of one part of an end.
NetPut(r, side, x) == [r EXCEPT ![side].net = x]
PortsPut(r, side, x) == [r EXCEPT ![side].ports = x]

LEMMA SideWith ==
  ASSUME NEW r \in Naming({}), NEW side \in {"src", "dst"}, NEW x
  PROVE  /\ NetPut(r, side, x)[side].net = x /\ NetPut(r, side, x)[side].ports = r[side].ports
         /\ LikeBut(NetPut(r, side, x), r, side)
         /\ PortsPut(r, side, x)[side].ports = x /\ PortsPut(r, side, x)[side].net = r[side].net
         /\ LikeBut(PortsPut(r, side, x), r, side)
<1>1. r.src \in Ends /\ r.dst \in Ends /\ r \in Listed
  BY DEF Naming, Listed
<1> DEFINE end == r[side]
           a == [end EXCEPT !.net = x]
           b == [end EXCEPT !.ports = x]
<1>2. NetPut(r, side, x) = [r EXCEPT ![side] = a]
  BY Zenon DEF NetPut
<1>3. PortsPut(r, side, x) = [r EXCEPT ![side] = b]
  BY Zenon DEF PortsPut
<1>4. end \in Ends
  BY <1>1
<1>5. a.net = x /\ a.ports = end.ports /\ b.ports = x /\ b.net = end.net
  <2> HIDE DEF end
  <2> QED
    BY <1>4 DEF Ends
<1> HIDE DEF a, b
<1>6. ASSUME NEW v PROVE LET q == [r EXCEPT ![side] = v] IN q[side] = v /\ LikeBut(q, r, side)
  <2>1. CASE side = "src"
    <3>1. [r EXCEPT ![side] = v] = [r EXCEPT !.src = v]
      BY <2>1
    <3>2. [r EXCEPT !.src = v].src = v /\ LikeBut([r EXCEPT !.src = v], r, "src")
      BY FieldWith, Zenon
    <3> QED
      BY <2>1, <3>1, <3>2
  <2>2. CASE side = "dst"
    <3>1. [r EXCEPT ![side] = v] = [r EXCEPT !.dst = v]
      BY <2>2
    <3>2. [r EXCEPT !.dst = v].dst = v /\ LikeBut([r EXCEPT !.dst = v], r, "dst")
      BY FieldWith, Zenon
    <3> QED
      BY <2>2, <3>1, <3>2
  <2> QED
    BY <2>1, <2>2
<1> QED
  BY <1>2, <1>3, <1>5, <1>6

\* What it does to what a rule matches.
Port(side) == IF side = "src" THEN "sport" ELSE "dport"

LEMMA SideHoldsWith ==
  ASSUME NEW q, NEW r, NEW p, NEW side \in {"src", "dst"}, LikeBut(q, r, side)
  PROVE  /\ q[side].ports = r[side].ports
            /\ (NetOk(q[side].net, p[side], p.v6) => NetOk(r[side].net, p[side], p.v6)) =>
              (RuleHolds(q, p) <=> RuleHolds(r, p) /\ NetOk(q[side].net, p[side], p.v6))
         /\ q[side].net = r[side].net
            /\ (InPorts(q[side].ports, p[Port(side)], p.proto) => InPorts(r[side].ports, p[Port(side)], p.proto)) =>
              (RuleHolds(q, p) <=> RuleHolds(r, p) /\ InPorts(q[side].ports, p[Port(side)], p.proto))
<1>1. CASE side = "src"
  <2>1. Port(side) = "sport"
    BY <1>1 DEF Port
  <2> QED
    BY <1>1, <2>1, EndHoldsWith
<1>2. CASE side = "dst"
  <2>1. Port(side) = "dport"
    BY <1>2 DEF Port
  <2> QED
    BY <1>2, <2>1, EndHoldsWith
<1> QED
  BY <1>1, <1>2

\* The nets of a rule, after a step that may have set one.
NetsFrom(q, r, e) ==
  \A side \in {"src", "dst"} :
      \/ q[side].net = r[side].net
      \/ e.op = "addr" /\ side = e.side /\ q[side].net = e.net

\* One address, where no other one has been read for the side.
LEMMA AddrEqReads ==
  ASSUME NEW cv \in Convs, NEW e \in Exprs, e.op = "addr", cv.rule[e.side].net \in {NoNet, e.net}
  PROVE  LET nv == AddrEq(cv, e) IN
         /\ nv.done = cv.done
         /\ nv.ok => Adds(nv, cv, e) /\ NetsFrom(nv.rule, cv.rule, e)
<1> DEFINE m  == Narrow(cv, e.v6)
           side == e.side
           net == e.net
           r  == m.rule
           ok == m.ok /\ (e.host => cv.rule[side].net \in {NoNet, net})
           q  == NetPut(r, side, net)
           nv == AddrEq(cv, e)
<1>0. /\ side \in {"src", "dst"} /\ e.v6 \in BOOLEAN
      /\ net # NoNet /\ net.v6 = e.v6
  BY DEF Exprs
<1>1. nv = ConvPut(m, ok, q)
  BY DEF AddrEq, ConvPut, NetPut
<1>2. m \in Convs /\ r \in Naming({})
  BY <1>0, NarrowType DEF Convs
<1>3. /\ m.done = cv.done /\ r = cv.rule
      /\ m.ok => /\ cv.ok /\ e.v6 \in cv.families /\ Kept(m, cv)
                 /\ \A p : ReadsTo(m, p) <=> ReadsTo(cv, p) /\ p.v6 = e.v6
  BY <1>0, NarrowReads
<1> HIDE DEF r, ok, q, nv, m, side, net
<1>4. q[side].net = net /\ q[side].ports = r[side].ports /\ LikeBut(q, r, side)
  BY <1>0, <1>2, SideWith DEF q
<1>5. nv.ok = ok /\ nv.rule = q /\ nv.done = m.done /\ nv.families = m.families
  BY <1>1, <1>2, PutParts
<1>6. Kept(nv, m)
  BY <1>0, <1>4, <1>5, KeptLike DEF r
<1>7. PortsTyped(cv.rule) => PortsTyped(nv.rule)
  <2>1. q.src.ports = r.src.ports /\ q.dst.ports = r.dst.ports /\ q.proto = r.proto
    BY <1>0, <1>4 DEF LikeBut, Parts
  <2> QED
    BY <1>3, <1>5, <2>1 DEF PortsTyped
<1>8. NetsFrom(nv.rule, cv.rule, e)
  <2>1. ASSUME NEW s \in {"src", "dst"}, s # side PROVE q[s].net = r[s].net
    BY <1>0, <1>4, <2>1 DEF LikeBut, Parts
  <2> QED
    BY <1>3, <1>4, <1>5, <2>1 DEF NetsFrom, side, net
<1>9. ASSUME m.ok PROVE Adds(nv, cv, e)
  <2>1. Kept(nv, cv)
    BY <1>3, <1>6, <1>9 DEF Kept
  <2>2. ASSUME NEW p PROVE ReadsTo(nv, p) <=> ReadsTo(cv, p) /\ ExprHolds(e, p)
    <3>1. ExprHolds(e, p) <=> p.v6 = e.v6 /\ p[side] \in Block(net)
      BY DEF ExprHolds, side, net
    <3>2. NetOk(q[side].net, p[side], p.v6) <=> ExprHolds(e, p)
      BY <1>0, <1>4, <3>1 DEF NetOk
    <3>3. r[side].net \in {NoNet, net}
      BY <1>3 DEF side, net
    <3>4. NetOk(q[side].net, p[side], p.v6) => NetOk(r[side].net, p[side], p.v6)
      BY <1>4, <3>3 DEF NetOk
    <3>5. RuleHolds(q, p) <=> RuleHolds(r, p) /\ NetOk(q[side].net, p[side], p.v6)
      BY <1>0, <1>4, <3>4, SideHoldsWith
    <3>6. RuleHolds(q, p) <=> RuleHolds(r, p) /\ ExprHolds(e, p)
      BY <3>2, <3>5
    <3>7. ReadsTo(nv, p) <=> ReadsTo(m, p) /\ ExprHolds(e, p)
      BY <1>5, <3>6 DEF ReadsTo, r
    <3> QED
      BY <1>3, <1>9, <3>1, <3>7
  <2> QED
    BY <1>3, <1>7, <1>9, <2>1, <2>2 DEF Adds
<1>10. nv.ok => m.ok
  BY <1>5 DEF ok
<1> QED
  BY <1>3, <1>5, <1>8, <1>9, <1>10 DEF nv

\* One range of ports.
LEMMA PortIsReads ==
  ASSUME NEW cv \in Convs, NEW e \in Exprs, e.op = "port"
  PROVE  LET nv == PortIs(cv, e) IN
         /\ nv.done = cv.done
         /\ nv.ok => Adds(nv, cv, e) /\ SameNets(nv.rule, cv.rule)
<1> DEFINE w  == e.word
           side == e.side
           m  == SetProto(cv, w)
           ranges == {[lo |-> e.lo, hi |-> e.hi, proto |-> w]}
           r  == m.rule
           ok == m.ok /\ e.lo <= e.hi /\ cv.rule[side].ports \in {{}, ranges}
           q  == PortsPut(r, side, ranges)
           nv == PortIs(cv, e)
<1>0. side \in {"src", "dst"} /\ w \in Texts /\ w \in {"tcp", "udp"}
  BY DEF Exprs
<1>1. nv = ConvPut(m, ok, q)
  BY DEF PortIs, ConvPut, PortsPut
<1> HIDE DEF w
<1>2. m \in Convs /\ r \in Naming({})
  BY <1>0, SetProtoType DEF Convs
<1>3. /\ m.done = cv.done /\ r = [cv.rule EXCEPT !.proto = w]
      /\ m.ok => /\ cv.ok /\ Kept(m, cv) /\ SameNets(m.rule, cv.rule)
                 /\ PortsTyped(cv.rule) => PortsTyped(m.rule)
                 /\ \A p \in Packets : OwnIcmp(p) =>
                      (ReadsTo(m, p) <=> ReadsTo(cv, p) /\ p.proto = w)
  BY <1>0, SetProtoReads
<1> DEFINE cr == cv.rule
<1>4. r.src = cr.src /\ r.dst = cr.dst /\ r.proto = w
  <2>1. cr \in Naming({}) /\ r = [cr EXCEPT !.proto = w]
    BY <1>3 DEF Convs
  <2> HIDE DEF cr, r
  <2>2. LikeBut(r, cr, "proto") /\ r.proto = w
    BY <2>1, FieldWith
  <2> QED
    BY <2>2 DEF LikeBut, Parts
<1> HIDE DEF r, ok, q, nv, m, side, ranges, cr
<1>5. q[side].ports = ranges /\ q[side].net = r[side].net /\ LikeBut(q, r, side)
  BY <1>0, <1>2, SideWith DEF q
<1>6. nv.ok = ok /\ nv.rule = q /\ nv.done = m.done /\ nv.families = m.families
  BY <1>1, <1>2, PutParts
<1>7. Kept(nv, m)
  BY <1>0, <1>5, <1>6, KeptLike DEF r
<1>8. q.proto = w /\ PortsTyped(nv.rule)
  <2>1. q.proto = r.proto
    BY <1>0, <1>5 DEF LikeBut, Parts
  <2> QED
    BY <1>0, <1>4, <1>6, <2>1 DEF PortsTyped
<1>9. SameNets(nv.rule, cv.rule)
  <2>1. ASSUME NEW s \in {"src", "dst"} PROVE q[s].net = r[s].net
    <3>1. CASE s = side
      BY <1>5, <3>1
    <3>2. CASE s # side
      BY <1>0, <1>5, <3>2 DEF LikeBut, Parts
    <3> QED
      BY <3>1, <3>2
  <2>2. q.src.net = r.src.net /\ q.dst.net = r.dst.net
    BY <2>1
  <2> QED
    BY <1>4, <1>6, <2>2 DEF SameNets, cr
<1>10. ASSUME ok PROVE Adds(nv, cv, e)
  <2>1. m.ok /\ cr[side].ports \in {{}, ranges}
    BY <1>10 DEF ok, cr, side
  <2>2. Kept(nv, cv)
    BY <1>3, <1>7, <2>1 DEF Kept
  <2>3. ASSUME NEW p \in Packets, OwnIcmp(p)
        PROVE  ReadsTo(nv, p) <=> ReadsTo(cv, p) /\ ExprHolds(e, p)
    <3> DEFINE port == p[Port(side)]
    <3>1. ExprHolds(e, p) <=> p.proto = w /\ port \in e.lo .. e.hi
      BY Zenon DEF ExprHolds, Port, w, side
    <3> HIDE DEF port
    <3>2. p.proto = w => (InPorts(ranges, port, p.proto) <=> port \in e.lo .. e.hi)
      BY DEF InPorts, ranges
    <3>3. r[side].ports \in {{}, ranges}
      BY <1>0, <1>4, <2>1
    <3>4. InPorts(q[side].ports, port, p.proto) => InPorts(r[side].ports, port, p.proto)
      <4>1. CASE r[side].ports = {}
        BY <4>1 DEF InPorts
      <4>2. CASE r[side].ports = ranges
        BY <1>5, <4>2
      <4> QED
        BY <3>3, <4>1, <4>2
    <3>5. RuleHolds(q, p) <=> RuleHolds(r, p) /\ InPorts(ranges, port, p.proto)
      BY <1>0, <1>5, <3>4, SideHoldsWith DEF port
    <3>6. ReadsTo(nv, p) <=> ReadsTo(m, p) /\ InPorts(ranges, port, p.proto)
      BY <1>6, <3>5 DEF ReadsTo, r
    <3>7. ReadsTo(m, p) <=> ReadsTo(cv, p) /\ p.proto = w
      BY <1>3, <2>1, <2>3
    <3> QED
      BY <3>1, <3>2, <3>6, <3>7
  <2> QED
    BY <1>3, <1>8, <2>1, <2>2, <2>3 DEF Adds
<1> QED
  BY <1>3, <1>6, <1>9, <1>10 DEF nv

-----------------------------------------------------------------------------
(* A whole nft rule.                                                       *)

\* What is required of an expression that is read in its turn.
Plain(cv, e) ==
  /\ e.op = "addr" => cv.rule[e.side].net \in {NoNet, e.net}
  /\ e.op \in {"iifname", "oifname"} => NftIfaces[e.word] = Ifaces[e.word]

AddsOnly(nv, cv, e) ==
  /\ Adds(nv, cv, e) /\ NetsFrom(nv.rule, cv.rule, e)
  /\ nv.done => e.op \in DOMAIN NftVerdicts /\ nv.rule.action = NftVerdicts[e.op]

LEMMA SameFrom ==
  ASSUME NEW q, NEW r, SameNets(q, r), NEW e
  PROVE  NetsFrom(q, r, e)
BY DEF SameNets, NetsFrom

\* An error stays one.
LEMMA OpOk ==
  ASSUME NEW cv \in Convs, NEW e \in Exprs
  PROVE  /\ AddrEq(cv, e).ok => cv.ok
         /\ \A side \in {"iif", "oif"} : IfaceEq(cv, side, e.word).ok => cv.ok
<1>1. AddrEq(cv, e).ok => cv.ok
  <2> DEFINE m == Narrow(cv, e.v6)
             ok == m.ok /\ (e.host => cv.rule[e.side].net \in {NoNet, e.net})
             q == NetPut(m.rule, e.side, e.net)
  <2>0. e.v6 \in BOOLEAN
    BY DEF Exprs
  <2>1. AddrEq(cv, e) = ConvPut(m, ok, q)
    BY DEF AddrEq, ConvPut, NetPut
  <2>2. m \in Convs /\ (m.ok => cv.ok)
    BY <2>0, NarrowType, NarrowReads
  <2> HIDE DEF m, q, ok
  <2>3. AddrEq(cv, e).ok = ok
    BY <2>1, <2>2, PutParts
  <2> QED
    BY <2>2, <2>3 DEF ok
<1>2. ASSUME NEW side \in {"iif", "oif"} PROVE IfaceEq(cv, side, e.word).ok => cv.ok
  <2> DEFINE ok == cv.ok /\ e.word # None /\ cv.rule[side] \in {AnyIface, e.word}
             q == [cv.rule EXCEPT ![side] = e.word]
  <2>1. IfaceEq(cv, side, e.word) = ConvPut(cv, ok, q)
    BY DEF IfaceEq, ConvPut
  <2> HIDE DEF q, ok
  <2>2. IfaceEq(cv, side, e.word).ok = ok
    BY <2>1, PutParts
  <2> QED
    BY <2>2 DEF ok
<1> QED
  BY <1>1, <1>2

\* What a verdict and a log statement do.
LEMMA SayReads ==
  ASSUME NEW cv \in Convs, NEW e \in Exprs, e.op \in DOMAIN NftVerdicts
  PROVE  LET nv == [cv EXCEPT !.done = TRUE, !.rule.action = NftVerdicts[e.op]] IN
         nv.ok = cv.ok /\ (nv.ok => AddsOnly(nv, cv, e))
<1> DEFINE a == NftVerdicts[e.op]
           r == cv.rule
           q == [r EXCEPT !.action = a]
           nv == [cv EXCEPT !.done = TRUE, !.rule.action = a]
<1>1. nv = [cv EXCEPT !.done = TRUE, !.rule = q]
  BY DEF Convs
<1>2. r \in Naming({})
  BY DEF Convs
<1> HIDE DEF a, r
<1>3. q.action = a /\ LikeBut(q, r, "action")
  BY <1>2, FieldWith
<1> HIDE DEF q
<1>4. nv.ok = cv.ok /\ nv.rule = q /\ nv.families = cv.families /\ nv.done = TRUE
  BY <1>1 DEF Convs
<1> HIDE DEF nv
<1>5. Kept(nv, cv) /\ SameNets(nv.rule, cv.rule) /\ (PortsTyped(cv.rule) => PortsTyped(nv.rule))
  BY <1>3, <1>4, KeptLike DEF r
<1>6. e.op \in {"accept", "drop", "reject"}
  BY DEF NftVerdicts
<1>7. ASSUME NEW p PROVE ReadsTo(nv, p) <=> ReadsTo(cv, p) /\ ExprHolds(e, p)
  <2>1. ExprHolds(e, p)
    BY <1>6 DEF ExprHolds
  <2>2. RuleHolds(q, p) <=> RuleHolds(r, p)
    BY <1>3, HoldsWith
  <2> QED
    BY <1>4, <2>1, <2>2 DEF ReadsTo, r
<1>8. nv.ok => AddsOnly(nv, cv, e)
  BY <1>3, <1>4, <1>5, <1>7, SameFrom DEF AddsOnly, Adds, a
<1> QED
  BY <1>4, <1>8 DEF nv, a

LEMMA LogReads ==
  ASSUME NEW cv \in Convs, NEW e \in Exprs, e.op = "log", ~cv.done
  PROVE  LET nv == [cv EXCEPT !.rule.log = "log-all"] IN
         nv.ok = cv.ok /\ (nv.ok => AddsOnly(nv, cv, e))
<1> DEFINE r == cv.rule
           q == [r EXCEPT !.log = "log-all"]
           nv == [cv EXCEPT !.rule.log = "log-all"]
<1>1. nv = [cv EXCEPT !.rule = q]
  BY DEF Convs
<1>2. r \in Naming({})
  BY DEF Convs
<1> HIDE DEF r
<1>3. LikeBut(q, r, "log")
  BY <1>2, FieldWith
<1> HIDE DEF q
<1>4. nv.ok = cv.ok /\ nv.rule = q /\ nv.families = cv.families /\ nv.done = cv.done
  BY <1>1 DEF Convs
<1> HIDE DEF nv
<1>5. Kept(nv, cv) /\ SameNets(nv.rule, cv.rule) /\ (PortsTyped(cv.rule) => PortsTyped(nv.rule))
  BY <1>3, <1>4, KeptLike DEF r
<1>7. ASSUME NEW p PROVE ReadsTo(nv, p) <=> ReadsTo(cv, p) /\ ExprHolds(e, p)
  <2>1. ExprHolds(e, p)
    BY DEF ExprHolds
  <2>2. RuleHolds(q, p) <=> RuleHolds(r, p)
    BY <1>3, HoldsWith
  <2> QED
    BY <1>4, <2>1, <2>2 DEF ReadsTo, r
<1>8. nv.ok => AddsOnly(nv, cv, e)
  BY <1>4, <1>5, <1>7, SameFrom DEF AddsOnly, Adds
<1> QED
  BY <1>4, <1>8 DEF nv

\* Both headers and the families.
LEMMA HeaderReads ==
  ASSUME NEW cv \in Convs, NEW e \in Exprs
  PROVE  /\ LET nv == SetProto(cv, e.word) IN
              /\ nv.done = cv.done
              /\ nv.ok => cv.ok /\ (e.op = "l4proto" => Adds(nv, cv, e) /\ SameNets(nv.rule, cv.rule))
         /\ LET nv == Narrow(cv, e.v6) IN
              /\ nv.done = cv.done
              /\ nv.ok => cv.ok /\ (e.op = "nfproto" => Adds(nv, cv, e) /\ SameNets(nv.rule, cv.rule))
         /\ LET nv == SetProto(Narrow(cv, e.v6), e.word) IN
              /\ nv.done = cv.done
              /\ nv.ok => cv.ok /\ (e.op = "protocol" => Adds(nv, cv, e) /\ SameNets(nv.rule, cv.rule))
<1> DEFINE w == e.word
           a == SetProto(cv, w)
           m == Narrow(cv, e.v6)
           b == SetProto(m, w)
<1>0. e.v6 \in BOOLEAN /\ w \in Texts
  BY DEF Exprs
<1>1. /\ a.done = cv.done
      /\ a.ok => /\ cv.ok /\ Kept(a, cv) /\ SameNets(a.rule, cv.rule)
                 /\ PortsTyped(cv.rule) => PortsTyped(a.rule)
                 /\ \A p \in Packets : OwnIcmp(p) => (ReadsTo(a, p) <=> ReadsTo(cv, p) /\ p.proto = w)
  BY <1>0, SetProtoReads
<1>2. /\ m \in Convs /\ m.done = cv.done /\ m.rule = cv.rule
      /\ m.ok => /\ cv.ok /\ Kept(m, cv)
                 /\ \A p : ReadsTo(m, p) <=> ReadsTo(cv, p) /\ p.v6 = e.v6
  BY <1>0, NarrowType, NarrowReads
<1> HIDE DEF m
<1>3. /\ b.done = m.done
      /\ b.ok => /\ m.ok /\ Kept(b, m) /\ SameNets(b.rule, m.rule)
                 /\ PortsTyped(m.rule) => PortsTyped(b.rule)
                 /\ \A p \in Packets : OwnIcmp(p) => (ReadsTo(b, p) <=> ReadsTo(m, p) /\ p.proto = w)
  <2>1. m \in Convs /\ w \in Texts
    BY <1>0, <1>2
  <2> HIDE DEF w
  <2> QED
    BY <2>1, SetProtoReads
<1> HIDE DEF a, b
<1>4. a.ok => cv.ok /\ (e.op = "l4proto" => Adds(a, cv, e) /\ SameNets(a.rule, cv.rule))
  <2>1. \A p : e.op = "l4proto" => (ExprHolds(e, p) <=> p.proto = w)
    BY DEF ExprHolds
  <2> QED
    BY <1>1, <2>1 DEF Adds
<1>5. m.ok => cv.ok /\ (e.op = "nfproto" => Adds(m, cv, e) /\ SameNets(m.rule, cv.rule))
  <2>1. \A p : e.op = "nfproto" => (ExprHolds(e, p) <=> p.v6 = e.v6)
    BY DEF ExprHolds
  <2> QED
    BY <1>2, <2>1 DEF Adds, SameNets
<1>6. b.ok => cv.ok /\ (e.op = "protocol" => Adds(b, cv, e) /\ SameNets(b.rule, cv.rule))
  <2>1. \A p : e.op = "protocol" => (ExprHolds(e, p) <=> p.v6 = e.v6 /\ p.proto = w)
    BY DEF ExprHolds
  <2>2. b.ok => cv.ok /\ Kept(b, cv) /\ SameNets(b.rule, cv.rule) /\ (PortsTyped(cv.rule) => PortsTyped(b.rule))
    BY <1>2, <1>3 DEF Kept
  <2> QED
    BY <1>2, <1>3, <2>1, <2>2 DEF Adds
<1> QED
  BY <1>1, <1>2, <1>3, <1>4, <1>5, <1>6 DEF a, b, m

\* One expression.
LEMMA ExprReads ==
  ASSUME NEW cv \in Convs, NEW e \in Exprs, Expr(cv, e).ok
  PROVE  /\ cv.ok /\ ~cv.done
         /\ Plain(cv, e) => AddsOnly(Expr(cv, e), cv, e)
<1> DEFINE off == [cv EXCEPT !.ok = FALSE]
           proto == SetProto(cv, e.word)
           header == SetProto(Narrow(cv, e.v6), e.word)
           family == Narrow(cv, e.v6)
           iif == IfaceEq(cv, "iif", e.word)
           oif == IfaceEq(cv, "oif", e.word)
           addr == AddrEq(cv, e)
           port == PortIs(cv, e)
           type == IcmpTypeIs(cv, e)
           logged == [cv EXCEPT !.rule.log = "log-all"]
           decided == [cv EXCEPT !.done = TRUE, !.rule.action = NftVerdicts[e.op]]
           nv == Expr(cv, e)
           Good(x) == /\ cv.ok /\ ~cv.done
                      /\ Plain(cv, e) => AddsOnly(x, cv, e)
<1>1. nv = IF cv.done THEN off
           ELSE CASE e.op = "l4proto"  -> proto
                  [] e.op = "protocol" -> header
                  [] e.op = "nfproto"  -> family
                  [] e.op = "iifname"  -> iif
                  [] e.op = "oifname"  -> oif
                  [] e.op = "addr"     -> addr
                  [] e.op = "port"     -> port
                  [] e.op = "icmptype" -> type
                  [] e.op = "log"      -> logged
                  [] e.op \in DOMAIN NftVerdicts -> decided
                  [] OTHER -> off
  BY DEF Expr
<1>2. ~off.ok /\ nv.ok
  BY DEF Convs
<1>3. /\ proto.done = cv.done
      /\ proto.ok => cv.ok /\ (e.op = "l4proto" => Adds(proto, cv, e) /\ SameNets(proto.rule, cv.rule))
      /\ family.done = cv.done
      /\ family.ok => cv.ok /\ (e.op = "nfproto" => Adds(family, cv, e) /\ SameNets(family.rule, cv.rule))
      /\ header.done = cv.done
      /\ header.ok => cv.ok /\ (e.op = "protocol" => Adds(header, cv, e) /\ SameNets(header.rule, cv.rule))
  BY HeaderReads
<1>4. /\ addr.ok => cv.ok
      /\ iif.ok => cv.ok
      /\ oif.ok => cv.ok
  BY OpOk
<1>5. e.op = "iifname" /\ NftIfaces[e.word] = Ifaces[e.word] =>
        iif.done = cv.done /\ (iif.ok => Adds(iif, cv, e) /\ SameNets(iif.rule, cv.rule))
  <2> SUFFICES ASSUME e.op = "iifname", NftIfaces[e.word] = Ifaces[e.word]
               PROVE  iif.done = cv.done /\ (iif.ok => Adds(iif, cv, e) /\ SameNets(iif.rule, cv.rule))
    OBVIOUS
  <2>1. (IF e.op = "iifname" THEN "iif" ELSE "oif") = "iif"
    OBVIOUS
  <2> QED
    BY <2>1, IfaceEqReads
<1>6. e.op = "oifname" /\ NftIfaces[e.word] = Ifaces[e.word] =>
        oif.done = cv.done /\ (oif.ok => Adds(oif, cv, e) /\ SameNets(oif.rule, cv.rule))
  <2> SUFFICES ASSUME e.op = "oifname", NftIfaces[e.word] = Ifaces[e.word]
               PROVE  oif.done = cv.done /\ (oif.ok => Adds(oif, cv, e) /\ SameNets(oif.rule, cv.rule))
    OBVIOUS
  <2>1. (IF e.op = "iifname" THEN "iif" ELSE "oif") = "oif"
    OBVIOUS
  <2> QED
    BY <2>1, IfaceEqReads
<1>7. e.op = "addr" /\ cv.rule[e.side].net \in {NoNet, e.net} =>
        addr.done = cv.done /\ (addr.ok => Adds(addr, cv, e) /\ NetsFrom(addr.rule, cv.rule, e))
  BY AddrEqReads
<1>8. e.op = "port" =>
        port.done = cv.done /\ (port.ok => Adds(port, cv, e) /\ SameNets(port.rule, cv.rule))
  BY PortIsReads
<1>9. e.op = "icmptype" =>
        type.done = cv.done /\ (type.ok => Adds(type, cv, e) /\ SameNets(type.rule, cv.rule))
  BY IcmpTypeReads
<1>10. e.op = "log" /\ ~cv.done => logged.ok = cv.ok /\ (logged.ok => AddsOnly(logged, cv, e))
  BY LogReads
<1>11. e.op \in DOMAIN NftVerdicts => decided.ok = cv.ok /\ (decided.ok => AddsOnly(decided, cv, e))
  BY SayReads
<1> HIDE DEF off, proto, header, family, iif, oif, addr, port, type, logged, decided, nv
<1>12. ~cv.done
  BY <1>1, <1>2
<1>13. ASSUME NEW x, x.done = cv.done, Adds(x, cv, e), NetsFrom(x.rule, cv.rule, e) PROVE AddsOnly(x, cv, e)
  BY <1>12, <1>13 DEF AddsOnly
<1>14. \A x : SameNets(x.rule, cv.rule) => NetsFrom(x.rule, cv.rule, e)
  BY SameFrom
<1>15. \/ nv = proto /\ e.op = "l4proto"
       \/ nv = header /\ e.op = "protocol"
       \/ nv = family /\ e.op = "nfproto"
       \/ nv = iif /\ e.op = "iifname"
       \/ nv = oif /\ e.op = "oifname"
       \/ nv = addr /\ e.op = "addr"
       \/ nv = port /\ e.op = "port"
       \/ nv = type /\ e.op = "icmptype"
       \/ nv = logged /\ e.op = "log"
       \/ nv = decided /\ e.op \in DOMAIN NftVerdicts
  <2>1. CASE e.op \in {"l4proto", "protocol", "nfproto", "iifname", "oifname"}
    BY <1>1, <1>12, <2>1
  <2>2. CASE e.op \in {"addr", "port", "icmptype", "log"}
    BY <1>1, <1>12, <2>2
  <2>3. CASE e.op \notin {"l4proto", "protocol", "nfproto", "iifname", "oifname",
                         "addr", "port", "icmptype", "log"}
    BY <1>1, <1>2, <1>12, <2>3
  <2> QED
    BY <2>1, <2>2, <2>3
<1>16. CASE nv = proto /\ e.op = "l4proto"
  BY <1>2, <1>3, <1>12, <1>13, <1>14, <1>16 DEF nv
<1>17. CASE nv = header /\ e.op = "protocol"
  BY <1>2, <1>3, <1>12, <1>13, <1>14, <1>17 DEF nv
<1>18. CASE nv = family /\ e.op = "nfproto"
  BY <1>2, <1>3, <1>12, <1>13, <1>14, <1>18 DEF nv
<1>19. CASE nv = iif /\ e.op = "iifname"
  BY <1>2, <1>4, <1>5, <1>12, <1>13, <1>14, <1>19 DEF nv, Plain
<1>20. CASE nv = oif /\ e.op = "oifname"
  BY <1>2, <1>4, <1>6, <1>12, <1>13, <1>14, <1>20 DEF nv, Plain
<1>21. CASE nv = addr /\ e.op = "addr"
  BY <1>2, <1>4, <1>7, <1>12, <1>13, <1>21 DEF nv, Plain
<1>22. CASE nv = port /\ e.op = "port"
  BY <1>2, <1>8, <1>12, <1>13, <1>14, <1>22 DEF nv, Adds
<1>23. CASE nv = type /\ e.op = "icmptype"
  BY <1>2, <1>9, <1>12, <1>13, <1>14, <1>23 DEF nv, Adds
<1>24. CASE nv = logged /\ e.op = "log"
  BY <1>2, <1>10, <1>12, <1>24 DEF nv
<1>25. CASE nv = decided /\ e.op \in DOMAIN NftVerdicts
  BY <1>2, <1>11, <1>12, <1>25 DEF nv
<1> QED
  BY <1>15, <1>16, <1>17, <1>18, <1>19, <1>20, <1>21, <1>22, <1>23, <1>24, <1>25 DEF nv

\* The addresses of a rule are those of expressions.
NetsKnown(q, exprs, k) ==
  \A side \in {"src", "dst"} :
      \/ q[side].net = NoNet
      \/ \E j \in 1 .. k : exprs[j].op = "addr" /\ exprs[j].side = side /\ exprs[j].net = q[side].net

FirstHold(exprs, k, p) == \A j \in 1 .. k : ExprHolds(exprs[j], p)

\* What is known of a conversion that has come as far as the k-th expression.
SoFar(cv, c, exprs, k) ==
  /\ cv.rule.dir = Hooks[c.hook] /\ ~cv.rule.disabled /\ ~cv.rule.expired
  /\ cv.families \subseteq Sees[c.family]
  /\ PortsTyped(cv.rule)
  /\ NetsKnown(cv.rule, exprs, k)
  /\ cv.done => /\ k # 0 /\ exprs[k].op \in DOMAIN NftVerdicts
                /\ cv.rule.action = NftVerdicts[exprs[k].op]
  /\ \A p \in Packets : OwnIcmp(p) =>
       (ReadsTo(cv, p) <=> p.v6 \in Sees[c.family] /\ FirstHold(exprs, k, p))

LEMMA BlankReads ==
  ASSUME NEW c \in Bases, ChainFits(c), NEW exprs
  PROVE  SoFar(Blank(c), c, exprs, 0)
<1> DEFINE dir == Hooks[c.hook]  r == PlainRule(None, dir)  cv == Blank(c)
           any == Endpoint(NoNet, {}, "any")
<1>1. dir \in Directions
  BY DEF ChainFits, Hooks, Directions
<1>2. None \in Texts
  BY TextsAssumption
<1> HIDE DEF dir
<1>3. r = [action |-> None, dir |-> dir, iif |-> AnyIface, oif |-> AnyIface, proto |-> "any",
           icmp |-> AnyType, src |-> any, dst |-> any,
           log |-> None, dapp |-> None, sapp |-> None, comment |-> None,
           disabled |-> FALSE, expired |-> FALSE]
  BY <1>1, <1>2, PlainIs
<1>4. any.net = NoNet /\ any.ports = {}
  BY DEF Endpoint
<1> HIDE DEF any, r
<1>5. /\ r.dir = dir /\ ~r.disabled /\ ~r.expired /\ r.iif = AnyIface /\ r.oif = AnyIface
      /\ r.proto = "any" /\ r.icmp = AnyType /\ r.src = any /\ r.dst = any
  BY <1>3
<1>6. cv.rule = r /\ cv.families = Sees[c.family] /\ cv.done = FALSE
  BY DEF Blank, r, dir
<1> HIDE DEF cv
<1>7. NetsKnown(r, exprs, 0)
  BY <1>4, <1>5 DEF NetsKnown
<1>8. PortsTyped(r)
  BY <1>4, <1>5 DEF PortsTyped
<1>9. ASSUME NEW p PROVE RuleHolds(r, p) /\ FirstHold(exprs, 0, p)
  <2>1. RuleHolds(r, p)
    BY <1>4, <1>5 DEF RuleHolds, IfaceOk, ProtoOk, TypeOk, NetOk, InPorts
  <2> QED
    BY <2>1 DEF FirstHold
<1> QED
  BY <1>5, <1>6, <1>7, <1>8, <1>9 DEF SoFar, ReadsTo, cv, dir

LEMMA NextReads ==
  ASSUME NEW c \in Bases, NEW exprs \in Seq(Exprs), NEW k \in 1 .. Len(exprs),
         NEW cv \in Convs, SoFar(cv, c, exprs, k - 1),
         Expr(cv, exprs[k]).ok,
         ~Overwritten([chain |-> c, exprs |-> exprs]), ~Pattern([chain |-> c, exprs |-> exprs])
  PROVE  SoFar(Expr(cv, exprs[k]), c, exprs, k)
<1> DEFINE e == exprs[k]  nv == Expr(cv, e)  m == k - 1  n == Len(exprs)  r == [chain |-> c, exprs |-> exprs]
<1>1. /\ e \in Exprs /\ n \in Nat /\ k \in 1 .. n /\ m \in Nat /\ k = m + 1
      /\ DOMAIN exprs = 1 .. n
  OBVIOUS
<1>2. Plain(cv, e)
  <2>1. r.exprs = exprs
    OBVIOUS
  <2> HIDE DEF r
  <2>2. ASSUME e.op = "addr" PROVE cv.rule[e.side].net \in {NoNet, e.net}
    <3>1. e.side \in {"src", "dst"}
      BY <1>1 DEF Exprs
    <3>2. NetsKnown(cv.rule, exprs, m)
      BY DEF SoFar
    <3> HIDE DEF e, m, n
    <3>3. SUFFICES ASSUME cv.rule[e.side].net # NoNet PROVE cv.rule[e.side].net = e.net
      OBVIOUS
    <3>4. PICK j \in 1 .. m : /\ exprs[j].op = "addr" /\ exprs[j].side = e.side
                              /\ exprs[j].net = cv.rule[e.side].net
      BY <3>1, <3>2, <3>3 DEF NetsKnown
    <3>5. j \in DOMAIN r.exprs /\ k \in DOMAIN r.exprs /\ r.exprs[k] = e /\ r.exprs[j] = exprs[j]
      BY <1>1, <2>1 DEF e
    <3>6. exprs[j].net = e.net
      BY <2>2, <3>4, <3>5 DEF Overwritten, r
    <3> QED
      BY <3>4, <3>6
  <2>3. ASSUME e.op \in {"iifname", "oifname"} PROVE NftIfaces[e.word] = Ifaces[e.word]
    <3>1. k \in DOMAIN r.exprs /\ r.exprs[k] = e
      BY <1>1, <2>1
    <3> HIDE DEF e
    <3> QED
      BY <2>3, <3>1 DEF Pattern, r
  <2> QED
    BY <2>2, <2>3 DEF Plain
<1>3. AddsOnly(nv, cv, e)
  <2>1. e \in Exprs /\ Expr(cv, e).ok
    BY <1>1
  <2> HIDE DEF e, nv
  <2> QED
    BY <1>2, <2>1, ExprReads DEF nv
<1> HIDE DEF nv, m, n, r
<1>4. /\ Kept(nv, cv) /\ NetsFrom(nv.rule, cv.rule, e)
      /\ PortsTyped(cv.rule) => PortsTyped(nv.rule)
      /\ nv.done => e.op \in DOMAIN NftVerdicts /\ nv.rule.action = NftVerdicts[e.op]
      /\ \A p \in Packets : OwnIcmp(p) => (ReadsTo(nv, p) <=> ReadsTo(cv, p) /\ ExprHolds(e, p))
  BY <1>3 DEF AddsOnly, Adds
<1>5. /\ cv.rule.dir = Hooks[c.hook] /\ ~cv.rule.disabled /\ ~cv.rule.expired
      /\ cv.families \subseteq Sees[c.family]
      /\ PortsTyped(cv.rule) /\ NetsKnown(cv.rule, exprs, m)
      /\ \A p \in Packets : OwnIcmp(p) =>
           (ReadsTo(cv, p) <=> p.v6 \in Sees[c.family] /\ FirstHold(exprs, m, p))
  BY DEF SoFar, m
<1>6. /\ nv.rule.dir = Hooks[c.hook] /\ ~nv.rule.disabled /\ ~nv.rule.expired
      /\ nv.families \subseteq Sees[c.family] /\ PortsTyped(nv.rule)
  BY <1>4, <1>5 DEF Kept
<1>7. \A j \in 1 .. k : j \in 1 .. m \/ j = k
  BY <1>1
<1>8. k \in 1 .. k /\ \A j \in 1 .. m : j \in 1 .. k
  BY <1>1
<1>9. NetsKnown(nv.rule, exprs, k)
  <2> SUFFICES ASSUME NEW side \in {"src", "dst"}
               PROVE  \/ nv.rule[side].net = NoNet
                      \/ \E j \in 1 .. k : /\ exprs[j].op = "addr" /\ exprs[j].side = side
                                           /\ exprs[j].net = nv.rule[side].net
    BY DEF NetsKnown
  <2>1. CASE nv.rule[side].net = cv.rule[side].net
    BY <1>5, <1>8, <2>1 DEF NetsKnown
  <2>2. CASE e.op = "addr" /\ side = e.side /\ nv.rule[side].net = e.net
    BY <1>8, <2>2
  <2> QED
    BY <1>4, <2>1, <2>2 DEF NetsFrom
<1>10. ASSUME NEW p PROVE FirstHold(exprs, k, p) <=> FirstHold(exprs, m, p) /\ ExprHolds(e, p)
  BY <1>7, <1>8 DEF FirstHold
<1>11. nv.done => /\ k # 0 /\ exprs[k].op \in DOMAIN NftVerdicts
                  /\ nv.rule.action = NftVerdicts[exprs[k].op]
  BY <1>1, <1>4
<1>12. \A p \in Packets : OwnIcmp(p) =>
         (ReadsTo(nv, p) <=> p.v6 \in Sees[c.family] /\ FirstHold(exprs, k, p))
  BY <1>4, <1>5, <1>10
<1> HIDE DEF e
<1>13. SoFar(nv, c, exprs, k)
  BY <1>6, <1>9, <1>11, <1>12 DEF SoFar
<1> QED
  BY <1>13 DEF nv, e

(* What an nft rule is made into (nftConvertRule) matches the packets that *)
(* its expressions all match, and says what its last one says.             *)
LEMMA ConvertReads ==
  ASSUME NEW r \in [chain : Bases, exprs : Seq(Exprs)], ChainFits(r.chain),
         ConvertRule(r).ok, ~Overwritten(r), ~Pattern(r)
  PROVE  ConvertRule(r) \in Convs /\ SoFar(ConvertRule(r), r.chain, r.exprs, Len(r.exprs))
<1> DEFINE c == r.chain  exprs == r.exprs  n == Len(exprs)
<1>1. /\ c \in Bases /\ exprs \in Seq(Exprs) /\ ChainFits(c) /\ n \in Nat
      /\ r = [chain |-> c, exprs |-> exprs]
  OBVIOUS
<1>2. ~Overwritten([chain |-> c, exprs |-> exprs]) /\ ~Pattern([chain |-> c, exprs |-> exprs])
  BY <1>1
<1>3. ConvertRule(r) = FoldLeft(Expr, Blank(c), exprs)
  BY DEF ConvertRule
<1>3a. FoldLeft(Expr, Blank(c), exprs).ok
  BY <1>3
<1> HIDE DEF c, exprs
<1>4. PICK t \in [0 .. n -> Convs] :
         /\ t[0] = Blank(c)
         /\ \A i \in 1 .. n : t[i] = Expr(t[i - 1], exprs[i])
         /\ FoldLeft(Expr, Blank(c), exprs) = t[n]
  BY <1>1, ConvertTrace
<1> DEFINE T == {i \in 0 .. n : t[i].ok /\ ~SoFar(t[i], c, exprs, i)}
<1>5. SoFar(t[0], c, exprs, 0)
  BY <1>1, <1>4, BlankReads
<1>6. ASSUME NEW i \in 1 .. n, i - 1 \notin T PROVE i \notin T
  <2>0. i - 1 \in 0 .. n /\ i \in 0 .. n
    BY <1>1
  <2> DEFINE cv == t[i - 1]
  <2>1. cv \in Convs /\ t[i] = Expr(cv, exprs[i]) /\ exprs[i] \in Exprs
    BY <1>1, <1>4, <2>0
  <2>2. cv.ok => SoFar(cv, c, exprs, i - 1)
    BY <1>6, <2>0
  <2> HIDE DEF cv
  <2>3. ASSUME t[i].ok PROVE SoFar(t[i], c, exprs, i)
    <3>1. Expr(cv, exprs[i]).ok
      BY <2>1, <2>3
    <3>2. cv.ok
      BY <2>1, <3>1, ExprReads
    <3>3. SoFar(Expr(cv, exprs[i]), c, exprs, i)
      BY <1>1, <1>2, <2>1, <2>2, <3>1, <3>2, NextReads
    <3> QED
      BY <2>1, <3>3
  <2> QED
    BY <2>3
<1>7. T = {}
  <2>1. 0 \notin T /\ \A i \in 1 .. n : i - 1 \notin T => i \notin T
    BY <1>1, <1>5, <1>6
  <2>2. T \in SUBSET (0 .. n)
    OBVIOUS
  <2> HIDE DEF T
  <2> QED
    BY <1>1, <2>1, <2>2, NoneFails
<1>8. n \in 0 .. n
  BY <1>1
<1>9. t[n] \in Convs /\ SoFar(t[n], c, exprs, n)
  BY <1>3a, <1>4, <1>7, <1>8
<1> QED
  BY <1>3, <1>4, <1>9 DEF c, exprs

\* What decides in several lists that become one, one after the other.
LEMMA FlatEarliest ==
  ASSUME NEW S, NEW seqs \in Seq(Seq(S)), NEW s, NEW p
  PROVE  LET flat == FlattenSeq(seqs)  n == Len(seqs) IN
         /\ \A k \in 1 .. Len(flat) : \E j \in 1 .. n : \E m \in 1 .. Len(seqs[j]) : flat[k] = seqs[j][m]
         /\ (\A j \in 1 .. n : NoneIn(seqs[j], Len(seqs[j]), s, p)) => NoneIn(flat, Len(flat), s, p)
         /\ \A i \in 1 .. n : \A w :
              /\ \A j \in 1 .. n : j < i => NoneIn(seqs[j], Len(seqs[j]), s, p)
              /\ FirstIn(seqs[i], Len(seqs[i]), s, p, w)
              => FirstIn(flat, Len(flat), s, p, w)
<1> DEFINE flat == FlattenSeq(seqs)  n == Len(seqs)
<1>1. PICK own, pos : Comes(flat, seqs, n, own, pos)
  BY FlattenIndex
<1>2. n \in Nat
  OBVIOUS
<1> HIDE DEF flat, n
<1>3. /\ \A k \in 1 .. Len(flat) : /\ own[k] \in 1 .. n /\ pos[k] \in 1 .. Len(seqs[own[k]])
                                   /\ flat[k] = seqs[own[k]][pos[k]]
      /\ \A j \in 1 .. n : \A m \in 1 .. Len(seqs[j]) : \E k \in 1 .. Len(flat) : own[k] = j /\ pos[k] = m
      /\ \A k, l \in 1 .. Len(flat) :
           k < l => own[k] < own[l] \/ (own[k] = own[l] /\ pos[k] < pos[l])
  BY <1>1 DEF Comes
<1>4. ASSUME NEW k \in 1 .. Len(flat), NoneIn(seqs[own[k]], Len(seqs[own[k]]), s, p)
      PROVE  ~Matches(s, flat[k], p.v6, p)
  <2> DEFINE j == own[k]  m == pos[k]
  <2>1. m \in 1 .. Len(seqs[j]) /\ flat[k] = seqs[j][m]
    BY <1>3
  <2>2. NoneIn(seqs[j], Len(seqs[j]), s, p)
    BY <1>4
  <2> HIDE DEF j, m
  <2> QED
    BY <2>1, <2>2 DEF NoneIn
<1>5. \A k \in 1 .. Len(flat) : \E j \in 1 .. n : \E m \in 1 .. Len(seqs[j]) : flat[k] = seqs[j][m]
  BY <1>3
<1>6. ASSUME \A j \in 1 .. n : NoneIn(seqs[j], Len(seqs[j]), s, p)
      PROVE  NoneIn(flat, Len(flat), s, p)
  <2>1. \A k \in 1 .. Len(flat) : ~Matches(s, flat[k], p.v6, p)
    BY <1>3, <1>4, <1>6
  <2> QED
    BY <2>1 DEF NoneIn
<1>7. ASSUME NEW i \in 1 .. n, NEW w,
             \A j \in 1 .. n : j < i => NoneIn(seqs[j], Len(seqs[j]), s, p),
             FirstIn(seqs[i], Len(seqs[i]), s, p, w)
      PROVE  FirstIn(flat, Len(flat), s, p, w)
  <2> DEFINE q == seqs[i]
  <2>1. PICK m \in 1 .. Len(q) :
          /\ Matches(s, q[m], p.v6, p) /\ q[m].action = w
          /\ \A j \in 1 .. Len(q) : j < m => ~Matches(s, q[j], p.v6, p)
    BY <1>7 DEF FirstIn
  <2>2. PICK k \in 1 .. Len(flat) : own[k] = i /\ pos[k] = m
    BY <1>3, <2>1
  <2>3. flat[k] = q[m]
    BY <1>3, <2>2
  <2>4. ASSUME NEW l \in 1 .. Len(flat), l < k PROVE ~Matches(s, flat[l], p.v6, p)
    <3>1. own[l] < own[k] \/ (own[l] = own[k] /\ pos[l] < pos[k])
      BY <1>3, <2>4
    <3>2. CASE own[l] < own[k]
      <4>1. own[l] \in 1 .. n /\ own[l] < i
        BY <1>3, <2>2, <3>2
      <4> QED
        BY <1>4, <1>7, <4>1
    <3>3. CASE own[l] = own[k] /\ pos[l] < pos[k]
      <4>1. own[l] = i /\ pos[l] < m
        BY <2>2, <3>3
      <4>2. pos[l] \in 1 .. Len(q) /\ flat[l] = q[pos[l]]
        BY <1>3, <4>1
      <4> QED
        BY <2>1, <4>1, <4>2
    <3> QED
      BY <3>1, <3>2, <3>3
  <2> QED
    BY <2>1, <2>3, <2>4 DEF FirstIn
<1> QED
  BY <1>5, <1>6, <1>7 DEF flat, n

\* A rule of a ruleset whose chain the packet passes and that it matches.
Meets(r, p) ==
  /\ Hooks[r.chain.hook] = p.dir /\ p.v6 \in Sees[r.chain.family]
  /\ FirstHold(r.exprs, Len(r.exprs), p)

\* What the list of one family has for a rule.
ListOfOne(cv, v6) == IF v6 \in cv.families THEN <<cv.rule>> ELSE <<>>

LEMMA OneReads ==
  ASSUME NEW r \in [chain : Bases, exprs : Seq(Exprs)], ChainFits(r.chain),
         ConvertRule(r).ok, ConvertRule(r).done, ~Overwritten(r), ~Pattern(r),
         NEW s, NEW p \in Packets, OwnIcmp(p)
  PROVE  LET q == ListOfOne(ConvertRule(r), p.v6)  op == r.exprs[Len(r.exprs)].op IN
         /\ q \in Seq(Naming({})) /\ Enabled(q)
         /\ op \in DOMAIN NftVerdicts
         /\ IF Meets(r, p) THEN FirstIn(q, Len(q), s, p, NftVerdicts[op]) ELSE NoneIn(q, Len(q), s, p)
<1> DEFINE cv == ConvertRule(r)  n == Len(r.exprs)  op == r.exprs[n].op  q == ListOfOne(cv, p.v6)
           x == cv.rule
<1>1. cv \in Convs /\ SoFar(cv, r.chain, r.exprs, n)
  BY ConvertReads
<1>2. cv.done
  OBVIOUS
<1> HIDE DEF cv
<1>3. x \in Naming({})
  BY <1>1 DEF Convs
<1>4. /\ x.dir = Hooks[r.chain.hook] /\ ~x.disabled /\ ~x.expired /\ PortsTyped(x)
      /\ op \in DOMAIN NftVerdicts /\ x.action = NftVerdicts[op]
      /\ ReadsTo(cv, p) <=> p.v6 \in Sees[r.chain.family] /\ FirstHold(r.exprs, n, p)
  BY <1>1, <1>2 DEF SoFar
<1> HIDE DEF x
<1>5. Matches(s, x, p.v6, p) <=> p.dir = x.dir /\ RuleHolds(x, p)
  BY <1>3, <1>4, MatchesIs
<1>6. Meets(r, p) <=> p.v6 \in cv.families /\ Matches(s, x, p.v6, p)
  BY <1>4, <1>5 DEF ReadsTo, Meets, x
<1>7. CASE p.v6 \in cv.families
  <2>1. q = <<x>>
    BY <1>7 DEF ListOfOne, x
  <2> HIDE DEF q
  <2>2. q \in Seq(Naming({})) /\ Len(q) = 1 /\ q[1] = x
    BY <1>3, <2>1
  <2>3. Enabled(q)
    BY <1>4, <2>2 DEF Enabled
  <2>4. Matches(s, x, p.v6, p) => FirstIn(q, Len(q), s, p, NftVerdicts[op])
    BY <1>4, <2>2 DEF FirstIn
  <2>5. ~Matches(s, x, p.v6, p) => NoneIn(q, Len(q), s, p)
    BY <2>2 DEF NoneIn
  <2> QED
    BY <1>4, <1>6, <1>7, <2>2, <2>3, <2>4, <2>5 DEF q, cv
<1>8. CASE p.v6 \notin cv.families
  <2>1. q = <<>>
    BY <1>8 DEF ListOfOne
  <2> HIDE DEF q
  <2>2. q \in Seq(Naming({})) /\ Len(q) = 0
    BY <2>1
  <2>3. Enabled(q) /\ NoneIn(q, Len(q), s, p)
    BY <2>2 DEF Enabled, NoneIn
  <2> QED
    BY <1>4, <1>6, <1>8, <2>2, <2>3 DEF q, cv
<1> QED
  BY <1>7, <1>8

\* What is known of a ruleset that is not refused.
LEMMA RulesetFits ==
  ASSUME NEW doc \in Docs, ~NftRefused(doc)
  PROVE  /\ doc.rules \in Seq([chain : Bases, exprs : Seq(Exprs)])
         /\ Len(doc.rules) \in Nat /\ DOMAIN doc.rules = 1 .. Len(doc.rules)
         /\ \A i \in 1 .. Len(doc.rules) :
              LET r == doc.rules[i] IN
              /\ r \in [chain : Bases, exprs : Seq(Exprs)] /\ r.chain \in doc.chains
              /\ ConvertRule(r).ok /\ ConvertRule(r).done
         /\ \A c \in doc.chains : c \in Bases /\ ChainFits(c)
         /\ OnePerHook(doc) /\ PoliciesAgree(doc)
         /\ \A hook \in DOMAIN Hooks : Covered(doc, hook)
<1> DEFINE rules == doc.rules  D == [chain : Bases, exprs : Seq(Exprs)]
<1>1. rules \in Seq(D) /\ doc.chains \subseteq Bases
  BY DEF Docs
<1>2. /\ \A c \in doc.chains : ChainFits(c)
      /\ OnePerHook(doc) /\ PoliciesAgree(doc)
      /\ \A hook \in DOMAIN Hooks : Covered(doc, hook)
  BY Zenon DEF NftRefused, Catalogued
<1>3. \A i \in DOMAIN rules : Converts(doc, rules[i])
  BY Zenon DEF NftRefused
<1>4. \A i \in DOMAIN rules : /\ rules[i].chain \in doc.chains
                              /\ ConvertRule(rules[i]).ok /\ ConvertRule(rules[i]).done
  BY <1>3, Zenon DEF Converts
<1> HIDE DEF rules, D
<1>5. Len(rules) \in Nat /\ DOMAIN rules = 1 .. Len(rules) /\ \A i \in 1 .. Len(rules) : rules[i] \in D
  BY <1>1
<1> QED
  BY <1>1, <1>2, <1>4, <1>5 DEF rules, D

\* The list of a family says of a packet what the first rule says that it
\* matches in a chain that it passes.
LEMMA RulesetReads ==
  ASSUME NEW doc \in Docs, ~NftRefused(doc),
         \A r \in ToSet(doc.rules) : ~Overwritten(r) /\ ~Pattern(r),
         NEW s, NEW p \in Packets, OwnIcmp(p)
  PROVE  LET l == NftRules(doc, p.v6)  n == Len(doc.rules)
             op(i) == doc.rules[i].exprs[Len(doc.rules[i].exprs)].op IN
         /\ l \in Seq(Naming({})) /\ Enabled(l)
         /\ (\A i \in 1 .. n : ~Meets(doc.rules[i], p)) => NoneIn(l, Len(l), s, p)
         /\ \A h \in 1 .. n : Meets(doc.rules[h], p) /\ (\A j \in 1 .. n : j < h => ~Meets(doc.rules[j], p)) =>
              op(h) \in DOMAIN NftVerdicts /\ FirstIn(l, Len(l), s, p, NftVerdicts[op(h)])
<1> DEFINE l == NftRules(doc, p.v6)  n == Len(doc.rules)
           Op(r) == r.exprs[Len(r.exprs)].op  N == Naming({})
           seqs == [i \in DOMAIN doc.rules |-> ListOfOne(ConvertRule(doc.rules[i]), p.v6)]
<1>1. /\ n \in Nat /\ DOMAIN doc.rules = 1 .. n
      /\ \A i \in 1 .. n :
           LET r == doc.rules[i] IN
           /\ r \in [chain : Bases, exprs : Seq(Exprs)] /\ ChainFits(r.chain)
           /\ ConvertRule(r).ok /\ ConvertRule(r).done
  BY RulesetFits
<1>2. \A i \in 1 .. n : doc.rules[i] \in ToSet(doc.rules)
  BY <1>1 DEF ToSet
<1>3. l = FlattenSeq(seqs)
  BY DEF NftRules, ListOfOne
<1>4. seqs = [i \in 1 .. n |-> seqs[i]] /\ \A i \in 1 .. n : seqs[i] = ListOfOne(ConvertRule(doc.rules[i]), p.v6)
  BY <1>1
<1> HIDE DEF seqs
<1>5. ASSUME NEW i \in 1 .. n
      PROVE  /\ seqs[i] \in Seq(N) /\ Enabled(seqs[i])
             /\ Op(doc.rules[i]) \in DOMAIN NftVerdicts
             /\ IF Meets(doc.rules[i], p)
                THEN FirstIn(seqs[i], Len(seqs[i]), s, p, NftVerdicts[Op(doc.rules[i])])
                ELSE NoneIn(seqs[i], Len(seqs[i]), s, p)
  <2> DEFINE r == doc.rules[i]  q == ListOfOne(ConvertRule(r), p.v6)
  <2>1. /\ r \in [chain : Bases, exprs : Seq(Exprs)] /\ ChainFits(r.chain)
        /\ ConvertRule(r).ok /\ ConvertRule(r).done /\ ~Overwritten(r) /\ ~Pattern(r)
    BY <1>1, <1>2
  <2>2. seqs[i] = q
    BY <1>4
  <2> HIDE DEF r
  <2>3. /\ q \in Seq(N) /\ Enabled(q) /\ Op(r) \in DOMAIN NftVerdicts
        /\ IF Meets(r, p) THEN FirstIn(q, Len(q), s, p, NftVerdicts[Op(r)]) ELSE NoneIn(q, Len(q), s, p)
    BY <2>1, OneReads
  <2> HIDE DEF q, N, Op
  <2> QED
    BY <2>2, <2>3 DEF r
<1> HIDE DEF l, n, N
<1>6. seqs \in Seq(Seq(N)) /\ Len(seqs) = n
  <2> DEFINE M == Seq(N)
  <2>1. n \in Nat /\ \A i \in 1 .. n : seqs[i] \in M
    BY <1>1, <1>5
  <2> HIDE DEF M
  <2>2. seqs \in Seq(M) /\ Len(seqs) = n
    BY <1>4, <2>1
  <2> QED
    BY <2>2 DEF M
<1>7. /\ \A k \in 1 .. Len(l) : \E j \in 1 .. n : \E m \in 1 .. Len(seqs[j]) : l[k] = seqs[j][m]
      /\ (\A j \in 1 .. n : NoneIn(seqs[j], Len(seqs[j]), s, p)) => NoneIn(l, Len(l), s, p)
      /\ \A i \in 1 .. n : \A w :
           /\ \A j \in 1 .. n : j < i => NoneIn(seqs[j], Len(seqs[j]), s, p)
           /\ FirstIn(seqs[i], Len(seqs[i]), s, p, w)
           => FirstIn(l, Len(l), s, p, w)
  BY <1>3, <1>6, FlatEarliest
<1>8. l \in Seq(N)
  BY NftRulesType DEF l, N
<1>9. Enabled(l)
  <2>1. ASSUME NEW k \in 1 .. Len(l) PROVE ~l[k].disabled /\ ~l[k].expired
    <3>1. PICK j \in 1 .. n : \E m \in 1 .. Len(seqs[j]) : l[k] = seqs[j][m]
      BY <1>7
    <3>2. Enabled(seqs[j])
      BY <1>5
    <3> QED
      BY <3>1, <3>2 DEF Enabled
  <2> QED
    BY <2>1 DEF Enabled
<1>10. (\A i \in 1 .. n : ~Meets(doc.rules[i], p)) => NoneIn(l, Len(l), s, p)
  BY <1>5, <1>7
<1>11. ASSUME NEW h \in 1 .. n, Meets(doc.rules[h], p), \A j \in 1 .. n : j < h => ~Meets(doc.rules[j], p)
       PROVE  Op(doc.rules[h]) \in DOMAIN NftVerdicts /\ FirstIn(l, Len(l), s, p, NftVerdicts[Op(doc.rules[h])])
  <2> DEFINE op == Op(doc.rules[h])  w == NftVerdicts[op]
  <2>1. op \in DOMAIN NftVerdicts /\ FirstIn(seqs[h], Len(seqs[h]), s, p, w)
    BY <1>5, <1>11
  <2> HIDE DEF op, w
  <2>2. FirstIn(l, Len(l), s, p, w)
    BY <1>5, <1>7, <1>11, <2>1
  <2> QED
    BY <2>1, <2>2 DEF op, w
<1> QED
  BY <1>8, <1>9, <1>10, <1>11 DEF l, n, N

\* One hook for each direction.
LEMMA HookIs ==
  ASSUME NEW d \in Directions
  PROVE  /\ HookOf(d) \in DOMAIN Hooks /\ Hooks[HookOf(d)] = d
         /\ \A h \in DOMAIN Hooks : Hooks[h] = d => h = HookOf(d)
<1>1. \E h \in DOMAIN Hooks : Hooks[h] = d
  BY DEF Hooks, Directions
<1>2. HookOf(d) \in DOMAIN Hooks /\ Hooks[HookOf(d)] = d
  BY <1>1 DEF HookOf
<1>3. \A g, h \in DOMAIN Hooks : Hooks[g] = Hooks[h] => g = h
  BY DEF Hooks
<1> QED
  BY <1>2, <1>3

\* The families of a direction, and which of them sees a packet.
LEMMA SeesIs ==
  ASSUME NEW F, F \in {{}, {"inet"}, {"ip", "ip6"}, {"ip"}, {"ip6"}}, NEW v6 \in BOOLEAN
  PROVE  /\ F \in {{"inet"}, {"ip", "ip6"}} => \E f \in F : v6 \in Sees[f]
         /\ \A f, g \in F : v6 \in Sees[f] /\ v6 \in Sees[g] => f = g
<1>1. Sees["ip"] = {FALSE} /\ Sees["ip6"] = {TRUE} /\ Sees["inet"] = {FALSE, TRUE}
  BY DEF Sees
<1>2. ~(v6 \in Sees["ip"] /\ v6 \in Sees["ip6"]) /\ v6 \in Sees["inet"]
      /\ (v6 \in Sees["ip"] \/ v6 \in Sees["ip6"])
  BY <1>1
<1>3. CASE F \in {{}, {"inet"}, {"ip"}, {"ip6"}}
  BY <1>2, <1>3
<1>4. CASE F = {"ip", "ip6"}
  BY <1>2, <1>4
<1> QED
  BY <1>3, <1>4

\* No two chains are for one packet.
LEMMA OnePasses ==
  ASSUME NEW doc \in Docs, ~NftRefused(doc), NEW p, p.dir \in Directions, p.v6 \in BOOLEAN,
         NEW a \in Passes(doc, p), NEW b \in Passes(doc, p)
  PROVE  a = b
<1> DEFINE hook == HookOf(p.dir)  F == {c.family : c \in OnHook(doc, hook)}
<1>1. /\ a \in doc.chains /\ Hooks[a.hook] = p.dir /\ p.v6 \in Sees[a.family] /\ ChainFits(a)
      /\ b \in doc.chains /\ Hooks[b.hook] = p.dir /\ p.v6 \in Sees[b.family] /\ ChainFits(b)
      /\ OnePerHook(doc) /\ \A h \in DOMAIN Hooks : Covered(doc, h)
  <2>1. /\ \A c \in doc.chains : ChainFits(c)
        /\ OnePerHook(doc) /\ \A h \in DOMAIN Hooks : Covered(doc, h)
    BY RulesetFits
  <2> QED
    BY <2>1 DEF Passes
<1>2. a.hook = hook /\ b.hook = hook /\ hook \in DOMAIN Hooks
  BY <1>1, HookIs DEF ChainFits
<1> HIDE DEF hook
<1>3. a.family \in F /\ b.family \in F
  BY <1>1, <1>2 DEF OnHook
<1>4. F \in {{}, {"inet"}, {"ip", "ip6"}, {"ip"}, {"ip6"}}
  <2>1. Covered(doc, hook)
    BY <1>1, <1>2
  <2> QED
    BY <2>1, Zenon DEF Covered
<1> HIDE DEF F
<1>5. a.family = b.family
  <2>1. \A f, g \in F : p.v6 \in Sees[f] /\ p.v6 \in Sees[g] => f = g
    BY <1>4, SeesIs
  <2> QED
    BY <1>1, <1>3, <2>1
<1> QED
  BY <1>1, <1>2, <1>5 DEF OnePerHook

\* The policy that is stored for a direction is that of the packet's chain,
\* or is to accept what passes none.
LEMMA PolicyKept ==
  ASSUME NEW doc \in Docs, ~NftRefused(doc), NEW p, p.dir \in Directions, p.v6 \in BOOLEAN
  PROVE  LET says == Says(HookPolicy(doc, HookOf(p.dir))) IN
         /\ Passes(doc, p) = {} => says = "accept"
         /\ \A c \in Passes(doc, p) : says = IF c.policy = None THEN "accept" ELSE c.policy
<1> DEFINE hook == HookOf(p.dir)  F == {c.family : c \in OnHook(doc, hook)}
           pol == HookPolicy(doc, hook)
<1>1. /\ \A c \in doc.chains : ChainFits(c)
      /\ PoliciesAgree(doc) /\ \A h \in DOMAIN Hooks : Covered(doc, h)
  BY RulesetFits
<1>2. hook \in DOMAIN Hooks /\ Hooks[hook] = p.dir /\ \A h \in DOMAIN Hooks : Hooks[h] = p.dir => h = hook
  BY HookIs
<1> HIDE DEF hook
<1>3. \/ F \in {{}, {"inet"}, {"ip", "ip6"}}
      \/ F \in {{"ip"}, {"ip6"}} /\ pol = "allow"
  <2>1. Covered(doc, hook)
    BY <1>1, <1>2
  <2> QED
    BY <2>1, Zenon DEF Covered
<1>4. \A c \in OnHook(doc, hook) : c \in doc.chains /\ c.hook = hook /\ ChainFits(c)
  BY <1>1 DEF OnHook
<1>5. ASSUME Passes(doc, p) = {} PROVE Says(pol) = "accept"
  <2>1. CASE OnHook(doc, hook) = {}
    BY <2>1 DEF HookPolicy, Says
  <2>2. CASE OnHook(doc, hook) # {}
    <3>1. ASSUME NEW c \in OnHook(doc, hook) PROVE p.v6 \notin Sees[c.family]
      BY <1>2, <1>4, <1>5 DEF Passes
    <3>2. F # {} /\ \A f \in F : p.v6 \notin Sees[f]
      BY <2>2, <3>1
    <3> HIDE DEF F, pol
    <3>3. pol = "allow"
      BY <1>3, <3>2, SeesIs
    <3> QED
      BY <3>3 DEF Says
  <2> QED
    BY <2>1, <2>2
<1>6. ASSUME NEW c \in Passes(doc, p)
      PROVE  Says(pol) = IF c.policy = None THEN "accept" ELSE c.policy
  <2>1. c \in doc.chains /\ ChainFits(c) /\ c.hook = hook
    BY <1>1, <1>2 DEF Passes, ChainFits
  <2>2. c \in OnHook(doc, hook)
    BY <2>1 DEF OnHook
  <2> DEFINE b == CHOOSE x \in OnHook(doc, hook) : TRUE
  <2>3. b \in OnHook(doc, hook) /\ pol = PolicyMap(b.policy)
    BY <2>2 DEF HookPolicy
  <2> HIDE DEF b, pol
  <2>4. pol = PolicyMap(c.policy) /\ PolicyMap(c.policy) # None
    BY <1>1, <1>4, <2>1, <2>3 DEF PoliciesAgree, ChainFits
  <2> DEFINE w == c.policy
  <2> HIDE DEF w
  <2>5. PolicyMap(w) # None => Says(PolicyMap(w)) = IF w = None THEN "accept" ELSE w
    <3>0. None # "drop"
      BY Zenon DEF None
    <3>1. CASE w \in {None, "accept"}
      <4>1. PolicyMap(w) = "allow"
        BY <3>0, <3>1 DEF PolicyMap
      <4>2. Says("allow") = "accept"
        BY DEF Says
      <4> QED
        BY <3>1, <4>1, <4>2
    <3>2. CASE w \notin {None, "accept"} /\ w = "drop"
      <4>1. PolicyMap(w) = "deny"
        BY <3>2 DEF PolicyMap
      <4> QED
        BY <3>2, <4>1 DEF Says
    <3>3. CASE w \notin {None, "accept", "drop"}
      BY <3>3 DEF PolicyMap
    <3> QED
      BY <3>1, <3>2, <3>3
  <2> QED
    BY <2>4, <2>5 DEF w
<1> QED
  BY <1>5, <1>6 DEF pol, hook

\* What the ruleset says, by a rule or by a policy.
LEMMA RulesetIs ==
  ASSUME NEW doc \in Docs, ~NftRefused(doc), NEW p, p.dir \in Directions, p.v6 \in BOOLEAN
  PROVE  LET n == Len(doc.rules)  says == RulesetSays(doc, p) IN
         \/ \E h \in 1 .. n : /\ Meets(doc.rules[h], p) /\ \A j \in 1 .. n : j < h => ~Meets(doc.rules[j], p)
                              /\ says = doc.rules[h].exprs[Len(doc.rules[h].exprs)].op
         \/ /\ \A j \in 1 .. n : ~Meets(doc.rules[j], p)
            /\ says = Says(HookPolicy(doc, HookOf(p.dir)))
<1> DEFINE rules == doc.rules  n == Len(rules)  says == RulesetSays(doc, p)
           c == CHOOSE x \in Passes(doc, p) : TRUE
           Test(r) == r.chain = c /\ \A k \in DOMAIN r.exprs : ExprHolds(r.exprs[k], p)
           I == {i \in 1 .. n : Test(rules[i])}
           hit == SelectInSeq(rules, Test)
<1>1. /\ n \in Nat /\ DOMAIN rules = 1 .. n
      /\ \A i \in 1 .. n : rules[i] \in [chain : Bases, exprs : Seq(Exprs)] /\ rules[i].chain \in doc.chains
  BY RulesetFits
<1>2. ASSUME NEW i \in 1 .. n
      PROVE  /\ Meets(rules[i], p) <=> /\ rules[i].chain \in Passes(doc, p)
                                      /\ \A k \in DOMAIN rules[i].exprs : ExprHolds(rules[i].exprs[k], p)
             /\ Last(rules[i].exprs) = rules[i].exprs[Len(rules[i].exprs)]
  <2> DEFINE r == rules[i]  e == r.exprs
  <2>1. e \in Seq(Exprs) /\ r.chain \in doc.chains
    BY <1>1
  <2>2. DOMAIN e = 1 .. Len(e) /\ Last(e) = e[Len(e)]
    <3> HIDE DEF e
    <3> QED
      BY <2>1 DEF Last
  <2> HIDE DEF r, rules
  <2> QED
    BY <2>1, <2>2 DEF Meets, Passes, FirstHold, r
<1>3. CASE Passes(doc, p) = {}
  <2>1. says = "accept" /\ Says(HookPolicy(doc, HookOf(p.dir))) = "accept"
    BY <1>3, PolicyKept DEF RulesetSays
  <2>2. \A j \in 1 .. n : ~Meets(rules[j], p)
    BY <1>2, <1>3
  <2> QED
    BY <2>1, <2>2
<1>4. CASE Passes(doc, p) # {}
  <2>1. c \in Passes(doc, p) /\ \A x \in Passes(doc, p) : x = c
    <3>1. c \in Passes(doc, p)
      BY <1>4
    <3> HIDE DEF c
    <3> QED
      BY <3>1, OnePasses
  <2>2. says = IF hit # 0 THEN Last(rules[hit].exprs).op ELSE IF c.policy = None THEN "accept" ELSE c.policy
    <3>1. says = ChainSays(doc, c, p)
      BY <1>4 DEF RulesetSays
    <3> HIDE DEF c, says
    <3> QED
      BY <3>1 DEF ChainSays
  <2>3. hit = IF I # {} THEN Min(I) ELSE 0
    BY DEF SelectInSeq
  <2> HIDE DEF hit, c, says, rules
  <2>4. \A i \in 1 .. n : Meets(rules[i], p) <=> i \in I
    BY <1>2, <2>1
  <2>5. I \in SUBSET Nat
    BY <1>1
  <2> HIDE DEF I, n
  <2>6. CASE I = {}
    <3>1. hit = 0
      BY <2>3, <2>6
    <3>2. says = Says(HookPolicy(doc, HookOf(p.dir)))
      BY <2>1, <2>2, <3>1, PolicyKept
    <3> QED
      BY <2>4, <2>6, <3>2 DEF says, rules, n
  <2>7. CASE I # {}
    <3>1. \E i \in I : \A k \in I : i <= k
      BY <2>5, <2>7, Smallest
    <3>2. Min(I) \in I /\ \A k \in I : Min(I) <= k
      BY <3>1 DEF Min
    <3>3. hit \in I /\ \A k \in I : hit <= k
      BY <2>3, <2>7, <3>2
    <3>4. hit \in 1 .. n
      BY <3>3 DEF I
    <3>5. \A j \in 1 .. n : j < hit => ~Meets(rules[j], p)
      <4> SUFFICES ASSUME NEW j \in 1 .. n, j < hit, j \in I PROVE FALSE
        BY <2>4
      <4> QED
        BY <1>1, <3>3, <3>4 DEF n
    <3>6. says = rules[hit].exprs[Len(rules[hit].exprs)].op
      <4>1. hit # 0
        BY <3>4
      <4> QED
        BY <1>2, <2>2, <3>4, <4>1 DEF n
    <3>7. Meets(rules[hit], p)
      BY <2>4, <3>3, <3>4
    <3> QED
      BY <3>4, <3>5, <3>6, <3>7 DEF says, rules, n
  <2> QED
    BY <2>6, <2>7
<1> QED
  BY <1>3, <1>4

\* What an accepted ruleset makes of the verdict on a packet, where no rules are.
LEMMA RulesetDecides ==
  ASSUME NEW s, IsState(s), NEW doc \in Docs, ~NftRefused(doc),
         \A r \in ToSet(doc.rules) : ~Overwritten(r) /\ ~Pattern(r),
         NEW p \in New, OwnIcmp(p), ~Rivals(NftRules(doc, p.v6)), Len(RulesFor(s, p)) = 0
  PROVE  StateVerdict(NftMerged(s, doc), p) = RulesetSays(doc, p)
<1> DEFINE u == NftMerged(s, doc)  src == NftRules(doc, p.v6)  l == RulesFor(u, p)  N == DOMAIN s.sets
           n == Len(doc.rules)  says == RulesetSays(doc, p)  old == RulesFor(s, p)
           pol == Says(HookPolicy(doc, HookOf(p.dir)))
           Op(r) == r.exprs[Len(r.exprs)].op
<1>1. p \in Packets /\ p.v6 \in BOOLEAN /\ p.dir \in Directions
  BY ChainsAssumption DEF New, Both
<1>2. /\ IsState(u) /\ u.policies = [d \in Directions |-> HookPolicy(doc, HookOf(d))]
      /\ u.rules4 = MergeRules(s.rules4, NftRules(doc, FALSE))
      /\ u.rules6 = MergeRules(s.rules6, NftRules(doc, TRUE))
  BY NftMergedKeeps
<1> HIDE DEF u
<1>3. l = MergeRules(old, src)
  BY <1>1, <1>2 DEF RulesFor
<1>4. Says(u.policies[p.dir]) = pol
  BY <1>1, <1>2
<1>5. /\ src \in Seq(Naming({})) /\ Enabled(src)
      /\ (\A i \in 1 .. n : ~Meets(doc.rules[i], p)) => NoneIn(src, Len(src), u, p)
      /\ \A h \in 1 .. n : Meets(doc.rules[h], p) /\ (\A j \in 1 .. n : j < h => ~Meets(doc.rules[j], p)) =>
           Op(doc.rules[h]) \in DOMAIN NftVerdicts /\ FirstIn(src, Len(src), u, p, NftVerdicts[Op(doc.rules[h])])
  BY <1>1, RulesetReads
<1>6. AgreeOn(src, u, p)
  <2>1. ~Rivals(src)
    OBVIOUS
  <2> HIDE DEF src
  <2>2. \A k \in 1 .. Len(src) : src[k] \in ToSet(src)
    BY <1>5 DEF ToSet
  <2> QED
    BY <2>1, <2>2 DEF AgreeOn, Rivals
<1>7. old \in Seq(Naming(N)) /\ Len(old) = 0
  BY <1>1, ListOf
<1> HIDE DEF old, src, l, N, Op
<1>8. src \in Seq(Naming(N))
  BY <1>5, NamingGrows
<1>9. /\ NoneIn(src, Len(src), u, p) => NoneIn(l, Len(l), u, p)
      /\ \A w : FirstIn(src, Len(src), u, p, w) => FirstIn(l, Len(l), u, p, w)
  <2>1. LET m == MergeRules(old, src) IN
        /\ m \in Seq(Naming(N)) /\ Enabled(m)
        /\ NoneIn(src, Len(src), u, p) => NoneIn(m, Len(m), u, p)
        /\ \A w : FirstIn(src, Len(src), u, p, w) => FirstIn(m, Len(m), u, p, w)
    BY <1>5, <1>6, <1>7, <1>8, FileDecides
  <2> QED
    BY <1>3, <2>1
<1>10. /\ NoneIn(l, Len(l), u, p) => FirstMatch(u, p) = 0
       /\ \A w \in {"allow", "deny", "reject"} : FirstIn(l, Len(l), u, p, w) =>
            FirstMatch(u, p) # 0 /\ StateVerdict(u, p) = Says(w)
  <2>1. LET m == RulesFor(u, p) IN
        /\ NoneIn(m, Len(m), u, p) => FirstMatch(u, p) = 0
        /\ \A w \in {"allow", "deny", "reject"} : FirstIn(m, Len(m), u, p, w) =>
             FirstMatch(u, p) # 0 /\ StateVerdict(u, p) = Says(w)
    BY <1>1, <1>2, FirstDecides
  <2> QED
    BY <2>1 DEF l
<1>11. \/ \E h \in 1 .. n : /\ Meets(doc.rules[h], p) /\ \A j \in 1 .. n : j < h => ~Meets(doc.rules[j], p)
                            /\ says = Op(doc.rules[h])
       \/ (\A j \in 1 .. n : ~Meets(doc.rules[j], p)) /\ says = pol
  BY <1>1, RulesetIs DEF Op
<1> HIDE DEF n, says, pol
<1>12. ASSUME NEW h \in 1 .. n, Meets(doc.rules[h], p),
              \A j \in 1 .. n : j < h => ~Meets(doc.rules[j], p), says = Op(doc.rules[h])
       PROVE  StateVerdict(u, p) = says
  <2>1. says \in DOMAIN NftVerdicts /\ FirstIn(src, Len(src), u, p, NftVerdicts[says])
    BY <1>5, <1>12
  <2>2. NftVerdicts[says] \in {"allow", "deny", "reject"} /\ Says(NftVerdicts[says]) = says
    <3>1. /\ Says("allow") = "accept" /\ Says("deny") = "drop" /\ Says("reject") = "reject"
          /\ DOMAIN NftVerdicts = {"accept", "drop", "reject"} /\ NftVerdicts["accept"] = "allow"
          /\ NftVerdicts["drop"] = "deny" /\ NftVerdicts["reject"] = "reject"
      BY DEF Says, NftVerdicts
    <3> QED
      BY <2>1, <3>1
  <2> QED
    BY <1>9, <1>10, <2>1, <2>2
<1>13. ASSUME \A j \in 1 .. n : ~Meets(doc.rules[j], p), says = pol
       PROVE  StateVerdict(u, p) = says
  <2>1. FirstMatch(u, p) = 0
    BY <1>5, <1>9, <1>10, <1>13
  <2>2. StateVerdict(u, p) = Says(u.policies[p.dir])
    BY <1>1, <1>2, <2>1, VerdictIs
  <2> QED
    BY <1>4, <1>13, <2>2
<1> QED
  BY <1>11, <1>12, <1>13 DEF u, says

(* An accepted ruleset (ImportNFTables) into a state without rules says of *)
(* each packet that opens a connection what it said before: at most one    *)
(* chain is for a packet, each of its rules becomes one rule in the lists  *)
(* of the families that it is about, which matches what its expressions    *)
(* match and says what the last of them says, and the policy of each hook  *)
(* is stored.                                                              *)
THEOREM RulesetIsKept == Spec => []RulesetKept
<1>1. ASSUME Made PROVE RulesetKept
  <2>1. ASSUME NEW i \in LastFrom("nftables"), Fresh(i),
               \A r \in ToSet(i.source.rules) : ~Overwritten(r) /\ ~Pattern(r),
               NEW v6 \in Both, ~Rivals(NftRules(i.source, v6)),
               NEW p \in {q \in New : q.v6 = v6 /\ OwnIcmp(q)}
        PROVE  StateVerdict(st, p) = RulesetSays(i.source, p)
    <3>1. i \in LastImport /\ i.kind = "nftables"
      BY DEF LastFrom
    <3>2. IsState(i.before) /\ MadeFrom(i, st)
      BY <1>1, <3>1 DEF Made
    <3> DEFINE doc == i.source  s == i.before
    <3>3. doc \in Docs /\ ~NftRefused(doc) /\ st = NftMerged(s, doc) /\ IsState(s)
      BY <3>1, <3>2 DEF MadeFrom
    <3>4. s.rules4 \o s.rules6 = <<>>
      BY <2>1 DEF Fresh
    <3>5. p \in New /\ OwnIcmp(p) /\ p.v6 = v6
      OBVIOUS
    <3>6. /\ \A r \in ToSet(doc.rules) : ~Overwritten(r) /\ ~Pattern(r)
          /\ ~Rivals(NftRules(doc, p.v6))
      BY <2>1, <3>5
    <3> HIDE DEF doc, s
    <3>7. Len(RulesFor(s, p)) = 0
      <4> DEFINE S == Naming(DOMAIN s.sets)
      <4>1. s.rules4 \in Seq(S) /\ s.rules6 \in Seq(S)
        BY <3>3 DEF IsState
      <4> HIDE DEF S
      <4>2. Len(s.rules4) = 0 /\ Len(s.rules6) = 0
        BY <3>4, <4>1
      <4> QED
        BY <4>2 DEF RulesFor
    <3>8. StateVerdict(NftMerged(s, doc), p) = RulesetSays(doc, p)
      BY <3>3, <3>5, <3>6, <3>7, RulesetDecides
    <3> QED
      BY <3>3, <3>8 DEF doc
  <2> QED
    BY <2>1 DEF RulesetKept
<1> QED
  BY <1>1, StateIsMade, PTL

=============================================================================
