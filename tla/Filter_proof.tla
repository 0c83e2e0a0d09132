---------------------------- MODULE Filter_proof ----------------------------
(***************************************************************************)
(* What compiling a state comes to, for states of any size: the intervals  *)
(* of a set hold the addresses of its networks, and each chain is the list *)
(* of rules that the compiler appends, in their order.  The models define  *)
(* it by folds, flattened sequences and sorted sets, which are recursive   *)
(* functions (SequenceLemmas).                                             *)
(*                                                                         *)
(* That the walk through the compiled chains gives each packet the verdict *)
(* of the first rule that matches it, or of the policy: Filter implements  *)
(* Promise, for any states, packets and interfaces.  Each chain obeys: it  *)
(* decides as Judge does on the packets that can be in it, and knows of    *)
(* what it lets go on what the chain that jumped to it counts on.  WalkInv *)
(* carries that along the walk.  With it, the bans, the interval sets and  *)
(* the warnings of "bfw check" are as FilterProps states them.             *)
(***************************************************************************)
EXTENDS FilterProps, SequenceLemmas, FiniteSetTheorems

-----------------------------------------------------------------------------
(* Addresses: the intervals that a set of networks is compiled to.         *)

\* Intervals of addresses.
Iv == [start : 0 .. Top - 1, end : 0 .. Top - 1]
\* An interval that is not empty; its end is 0 when it reaches the top.
Proper(iv) == iv \in Iv /\ (iv.end = 0 \/ iv.start < iv.end)

\* The interval of a network holds its addresses.
LEMMA IntervalOf ==
  ASSUME NEW n \in Nets
  PROVE  /\ Proper(Interval(n)) /\ Interval(n).start = n.lo
         /\ Interval(n).end = IF n.lo + n.size = Top THEN 0 ELSE n.lo + n.size
         /\ Held(Interval(n)) = Block(n)
<1>1. /\ Top \in Nat \ {0} /\ n.lo \in 0 .. Top - 1 /\ n.size \in 1 .. Top - n.lo
  BY NetsAssumption DEF NetsAssumption
<1>2. CASE n.lo + n.size = Top
  <2>0. Top % Top = 0
    BY <1>1
  <2>1. (n.lo + n.size) % Top = 0
    BY <1>2, <2>0
  <2> QED
    BY <1>1, <1>2, <2>1 DEF Interval, Proper, Iv, Held, Block
<1>3. CASE n.lo + n.size # Top
  <2>1. n.lo + n.size \in 1 .. Top - 1
    BY <1>1, <1>3
  <2>2. (n.lo + n.size) % Top = n.lo + n.size
    BY <1>1, <2>1
  <2> QED
    BY <1>1, <1>3, <2>1, <2>2 DEF Interval, Proper, Iv, Held, Block
<1> QED
  BY <1>2, <1>3

\* A finite set of intervals can be listed by their starts.
LEMMA SortedExists ==
  ASSUME NEW ivs \in SUBSET Iv, IsFiniteSet(ivs)
  PROVE  \E s \in SetToSeqs(ivs) : \A i, j \in DOMAIN s : i < j => s[i].start <= s[j].start
<1> DEFINE Listed(n, S) ==
             \E s \in [1 .. n -> S] : /\ \A i, j \in 1 .. n : i # j => s[i] # s[j]
                                      /\ \A i, j \in 1 .. n : i < j => s[i].start <= s[j].start
           T == {n \in Nat : \E S \in SUBSET ivs : IsFiniteSet(S) /\ Cardinality(S) = n /\ ~Listed(n, S)}
<1>0. Top \in Int /\ \A x \in ivs : x.start \in Int /\ Top - x.start \in Nat
  BY NetsAssumption DEF NetsAssumption, Iv
<1>1. T = {}
  <2> SUFFICES ASSUME T # {} PROVE FALSE
    OBVIOUS
  <2>1. PICK n \in T : \A k \in T : n <= k
    <3>1. T \in SUBSET Nat
      OBVIOUS
    <3> HIDE DEF T
    <3> QED
      BY <3>1, Smallest
  <2>2. PICK S \in SUBSET ivs : IsFiniteSet(S) /\ Cardinality(S) = n /\ ~Listed(n, S)
    BY <2>1
  <2>0. n \in Nat
    OBVIOUS
  <2>3. CASE n = 0
    <3>1. 1 .. n = {}
      BY <2>3
    <3>2. << >> \in [1 .. n -> S]
      BY <3>1
    <3> QED
      BY <2>2, <3>1, <3>2
  <2>4. CASE n # 0
    <3>1. S # {}
      BY <2>2, <2>4, FS_EmptySet
    <3> DEFINE R == {Top - x.start : x \in S}
    <3>2. R \in SUBSET Nat /\ R # {}
      <4>1. \A x \in S : Top - x.start \in Nat
        BY <1>0
      <4> QED
        BY <3>1, <4>1
    <3>3. PICK r \in R : \A k \in R : r <= k
      <4> HIDE DEF R
      <4> QED
        BY <3>2, Smallest
    <3>4. PICK x \in S : r = Top - x.start
      BY <3>3
    <3>5. \A y \in S : y.start <= x.start
      <4>1. \A y \in S : Top - x.start <= Top - y.start
        BY <3>3, <3>4
      <4> QED
        BY <1>0, <4>1
    <3>6. IsFiniteSet(S \ {x}) /\ Cardinality(S \ {x}) = n - 1
      BY <2>2, FS_RemoveElement
    <3>7. n - 1 \notin T /\ n - 1 \in Nat
      <4>1. n - 1 \in Nat /\ ~(n <= n - 1)
        BY <2>0, <2>4
      <4> HIDE DEF T
      <4> QED
        BY <2>1, <4>1
    <3>8. Listed(n - 1, S \ {x})
      <4>1. S \ {x} \in SUBSET ivs
        OBVIOUS
      <4> HIDE DEF Listed
      <4> QED
        BY <3>6, <3>7, <4>1
    <3>9. PICK s \in [1 .. n - 1 -> S \ {x}] :
             /\ \A i, j \in 1 .. n - 1 : i # j => s[i] # s[j]
             /\ \A i, j \in 1 .. n - 1 : i < j => s[i].start <= s[j].start
      BY <3>8
    <3> DEFINE t == [i \in 1 .. n |-> IF i = n THEN x ELSE s[i]]
    <3>10. \A i \in 1 .. n : (i = n /\ t[i] = x) \/ (i \in 1 .. n - 1 /\ i # n /\ t[i] = s[i] /\ s[i] \in S \ {x})
      BY <2>0
    <3>11. t \in [1 .. n -> S]
      BY <3>10
    <3> HIDE DEF t
    <3>12. \A i, j \in 1 .. n : i # j => t[i] # t[j]
      BY <3>9, <3>10
    <3>13. ASSUME NEW i \in 1 .. n, NEW j \in 1 .. n, i < j
           PROVE  t[i].start <= t[j].start
      <4>1. i # n /\ i \in 1 .. n - 1 /\ t[i] = s[i] /\ s[i] \in S
        BY <2>0, <3>10, <3>13
      <4> QED
        BY <3>5, <3>9, <3>10, <3>13, <4>1
    <3> QED
      BY <2>2, <3>11, <3>12, <3>13
  <2> QED
    BY <2>3, <2>4
<1>2. Cardinality(ivs) \in Nat
  BY FS_CardinalityType
<1>3. Listed(Cardinality(ivs), ivs)
  <2> HIDE DEF Listed
  <2> QED
    BY <1>1, <1>2
<1>4. PICK s \in [1 .. Cardinality(ivs) -> ivs] :
         /\ \A i, j \in 1 .. Cardinality(ivs) : i # j => s[i] # s[j]
         /\ \A i, j \in 1 .. Cardinality(ivs) : i < j => s[i].start <= s[j].start
  BY <1>3
<1>5. s \in SetToSeqs(ivs) /\ DOMAIN s = 1 .. Cardinality(ivs)
  BY <1>4 DEF SetToSeqs
<1> QED
  BY <1>4, <1>5

\* One round of the merging loop keeps a list of intervals.
LEMMA StepType ==
  ASSUME NEW out \in Seq(Iv), NEW iv \in Iv
  PROVE  MergeStep(out, iv) \in Seq(Iv)
<1>1. CASE out = << >>
  BY <1>1 DEF MergeStep
<1>2. CASE out # << >>
  <2> DEFINE last == out[Len(out)]
             new == IF iv.end > last.end THEN [last EXCEPT !.end = iv.end] ELSE last
  <2>1. last \in Iv /\ Len(out) \in 1 .. Len(out)
    BY <1>2
  <2>2. new \in Iv
    BY <2>1 DEF Iv
  <2>3. [out EXCEPT ![Len(out)] = new] \in Seq(Iv)
    <3> HIDE DEF new
    <3> QED
      BY <2>1, <2>2
  <2>4. Append(out, iv) \in Seq(Iv)
    OBVIOUS
  <2> QED
    BY <1>2, <2>3, <2>4 DEF MergeStep
<1> QED
  BY <1>1, <1>2

\* The merging loop, round by round.
LEMMA MergeTrace ==
  ASSUME NEW s \in Seq(Iv)
  PROVE  \E t \in [0 .. Len(s) -> Seq(Iv)] :
           /\ t[0] = << >>
           /\ \A i \in 1 .. Len(s) : t[i] = MergeStep(t[i - 1], s[i])
           /\ FoldLeft(MergeStep, << >>, s) = t[Len(s)]
<1> DEFINE n == Len(s)
           o == [p \in Seq(Iv) \X (1 .. n) |-> MergeStep(p[1], s[p[2]])]
           R(h) == h = [x \in SUBSET DOMAIN s |->
                          IF x = {} THEN << >> ELSE MergeStep(h[x \ {Max(x)}], s[Max(x)])]
           h == CHOOSE h : R(h)
<1>1. n \in Nat /\ DOMAIN s = 1 .. n /\ \A i \in 1 .. n : s[i] \in Iv
  OBVIOUS
<1>2. o \in [Seq(Iv) \X (1 .. n) -> Seq(Iv)]
  <2>1. \A p \in Seq(Iv) \X (1 .. n) : MergeStep(p[1], s[p[2]]) \in Seq(Iv)
    BY <1>1, StepType
  <2> QED
    BY <2>1
<1>3. << >> \in Seq(Iv)
  OBVIOUS
<1>4. PICK g \in [SUBSET (1 .. n) -> Seq(Iv)] : Folds(g, << >>, o, n)
  <2> HIDE DEF o, n
  <2> QED
    BY <1>1, <1>2, <1>3, FoldExists
<1>5. R(g)
  <2>1. ASSUME NEW x \in SUBSET (1 .. n), x # {}
        PROVE  g[x] = MergeStep(g[x \ {Max(x)}], s[Max(x)])
    <3>1. g[x] = o[<<g[x \ {Max(x)}], Max(x)>>]
      BY <1>4, <2>1 DEF Folds
    <3>2. Max(x) \in 1 .. n
      BY <1>1, <2>1, MaxIn
    <3>3. x \ {Max(x)} \in SUBSET (1 .. n)
      OBVIOUS
    <3>4. g[x \ {Max(x)}] \in Seq(Iv)
      BY <3>3
    <3> QED
      BY <3>1, <3>2, <3>4
  <2>2. g[{}] = << >>
    BY <1>4 DEF Folds
  <2>3. g = [x \in SUBSET (1 .. n) |-> g[x]]
    OBVIOUS
  <2> HIDE DEF o
  <2>4. \A x \in SUBSET (1 .. n) :
          g[x] = IF x = {} THEN << >> ELSE MergeStep(g[x \ {Max(x)}], s[Max(x)])
    BY <2>1, <2>2
  <2> QED
    BY <1>1, <2>3, <2>4
<1>6. R(h)
  <2>1. \E f : R(f)
    BY <1>5
  <2> QED
    BY <2>1, Zenon
<1>7. FoldLeft(MergeStep, << >>, s) = h[DOMAIN s]
  BY DEF FoldLeft, MapThenFoldSet, Max
<1> HIDE DEF h
<1> DEFINE t == [i \in 0 .. n |-> h[1 .. i]]
<1>8. t[0] = << >> /\ \A i \in 1 .. n : t[i] = MergeStep(t[i - 1], s[i])
  <2>1. \A x \in SUBSET (1 .. n) :
          h[x] = IF x = {} THEN << >> ELSE MergeStep(h[x \ {Max(x)}], s[Max(x)])
    BY <1>1, <1>6
  <2>2. 1 .. 0 = {} /\ {} \in SUBSET (1 .. n) /\ 0 \in 0 .. n
    BY <1>1
  <2>3. ASSUME NEW i \in 1 .. n
        PROVE  t[i] = MergeStep(t[i - 1], s[i])
    <3>1. /\ i \in 0 .. n /\ i - 1 \in 0 .. n /\ 1 .. i \in SUBSET (1 .. n) /\ 1 .. i # {}
          /\ (1 .. i) \ {i} = 1 .. i - 1 /\ 1 .. i \in SUBSET Int /\ i \in 1 .. i
          /\ \A k \in 1 .. i : k <= i
      BY <1>1
    <3>2. Max(1 .. i) = i
      BY <3>1, MaxIs
    <3> HIDE DEF n
    <3> QED
      BY <2>1, <3>1, <3>2
  <2> HIDE DEF n
  <2> QED
    BY <2>1, <2>2, <2>3
<1>9. t \in [0 .. n -> Seq(Iv)]
  <2> DEFINE U == {i \in 0 .. n : t[i] \notin Seq(Iv)}
  <2>1. U = {}
    <3> SUFFICES ASSUME U # {} PROVE FALSE
      OBVIOUS
    <3>1. U \in SUBSET Nat
      BY <1>1
    <3> HIDE DEF t, n
    <3>2. PICK i \in U : \A k \in U : i <= k
      <4> HIDE DEF U
      <4> QED
        BY <3>1, Smallest
    <3>3. i # 0
      BY <1>3, <1>8, <3>2
    <3>4. i \in 1 .. n /\ i - 1 \in 0 .. n /\ ~(i <= i - 1)
      BY <1>1, <3>2, <3>3
    <3>5. t[i - 1] \in Seq(Iv) /\ s[i] \in Iv
      BY <1>1, <3>2, <3>4
    <3>6. t[i] \in Seq(Iv)
      BY <1>8, <3>4, <3>5, StepType
    <3> QED
      BY <3>2, <3>6
  <2>2. \A i \in 0 .. n : t[i] \in Seq(Iv)
    BY <2>1
  <2> QED
    BY <2>2
<1>10. FoldLeft(MergeStep, << >>, s) = t[n]
  BY <1>1, <1>7
<1> QED
  BY <1>8, <1>9, <1>10

\* What the loop has of the first i intervals, while there are more to come.
Merged(out, s, i) ==
  /\ \A a \in 1 .. Len(out) : Proper(out[a])
  /\ \A a, b \in 1 .. Len(out) : a < b => out[a].end # 0 /\ out[a].end < out[b].start
  /\ i < Len(s) => \A a \in 1 .. Len(out) : out[a].end # 0
  /\ i = 0 => out = << >>
  /\ i # 0 => /\ out # << >>
              /\ out[Len(out)].start <= s[i].start
              /\ \E j \in 1 .. i : out[Len(out)].end = s[j].end
  /\ \A x \in 0 .. Top - 1 :
       (\E a \in 1 .. Len(out) : x \in Held(out[a])) <=> (\E j \in 1 .. i : x \in Held(s[j]))

\* Sorted, and nothing reaches the top but the last one, apart from the others.
Ordered(s) ==
  /\ \A i \in 1 .. Len(s) : Proper(s[i])
  /\ \A i, j \in 1 .. Len(s) : i < j => s[i].start <= s[j].start
  /\ \A i, j \in 1 .. Len(s) : i < j => s[i].end # 0 /\ (s[j].end = 0 => s[i].end < s[j].start)

\* One round of the merging loop keeps what it has of the intervals so far.
LEMMA MergedStep ==
  ASSUME NEW s \in Seq(Iv), Ordered(s), NEW i \in 1 .. Len(s),
         NEW out \in Seq(Iv), Merged(out, s, i - 1)
  PROVE  Merged(MergeStep(out, s[i]), s, i)
<1> DEFINE iv == s[i]
           n == Len(out)
           last == out[n]
<1>0. /\ Top \in Nat /\ n \in Nat /\ i \in Nat /\ i >= 1 /\ Len(s) \in Nat /\ i <= Len(s)
      /\ iv \in Iv /\ Proper(iv) /\ i - 1 \in Nat
      /\ (i - 1 = 0 <=> i = 1) /\ i - 1 < Len(s)
      /\ \A j \in 1 .. i : j \in 1 .. i - 1 \/ j = i
      /\ \A j \in 1 .. i - 1 : j \in 1 .. i /\ j < i /\ j \in 1 .. Len(s)
      /\ i \in 1 .. i
  BY NetsAssumption DEF NetsAssumption, Ordered
<1>00. /\ iv.start \in 0 .. Top - 1 /\ iv.end \in 0 .. Top - 1
       /\ iv.end = 0 \/ iv.start < iv.end
  BY <1>0 DEF Iv, Proper
<1>a. i < Len(s) => iv.end # 0
  <2> SUFFICES ASSUME i < Len(s) PROVE iv.end # 0
    OBVIOUS
  <2>1. Len(s) \in 1 .. Len(s) /\ i \in 1 .. Len(s)
    BY <1>0
  <2> QED
    BY <2>1 DEF Ordered
<1>1. CASE out = << >>
  <2>1. i = 1
    BY <1>0, <1>1 DEF Merged
  <2>2. MergeStep(out, iv) = <<iv>> /\ Len(<<iv>>) = 1 /\ <<iv>>[1] = iv
    BY <1>1 DEF MergeStep
  <2>3. \A x : (\E a \in 1 .. 1 : x \in Held(<<iv>>[a])) <=> (\E j \in 1 .. 1 : x \in Held(s[j]))
    BY <2>1, <2>2
  <2>4. Merged(<<iv>>, s, i)
    BY <1>0, <1>00, <1>a, <2>1, <2>2, <2>3 DEF Merged
  <2> QED
    BY <2>2, <2>4
<1>2. CASE out # << >>
  <2>1. n \in 1 .. n /\ n >= 1
    BY <1>2
  <2>2. i # 1 /\ i - 1 \in 1 .. i - 1
    BY <1>0, <1>2 DEF Merged
  <2>3. /\ last \in Iv /\ last.start \in 0 .. Top - 1 /\ last.end \in 0 .. Top - 1
        /\ last.end # 0 /\ last.start < last.end /\ last.start <= s[i - 1].start
    BY <1>0, <2>1, <2>2 DEF Merged, Proper, Iv
  <2>4. s[i - 1].start <= iv.start
    BY <1>0, <2>2 DEF Ordered
  <2>5. iv.end = 0 => last.end < iv.start
    <3>1. PICK j \in 1 .. i - 1 : last.end = s[j].end
      BY <1>0, <2>2 DEF Merged
    <3> QED
      BY <1>0, <3>1 DEF Ordered
  <2>6. last.start <= iv.start
    <3>1. s[i - 1] \in Iv
      BY <1>0, <2>2
    <3>2. s[i - 1].start \in Int
      BY <3>1 DEF Iv
    <3> QED
      BY <1>00, <2>3, <2>4, <3>2
  <2>7. CASE iv.start <= last.end
    <3> DEFINE top == IF iv.end > last.end THEN iv.end ELSE last.end
               new == [start |-> last.start, end |-> top]
               next == [out EXCEPT ![n] = new]
    <3>1. MergeStep(out, iv) = next
      <4>1. last = [start |-> last.start, end |-> last.end]
        BY <2>3 DEF Iv
      <4>2. new = IF iv.end > last.end THEN [last EXCEPT !.end = iv.end] ELSE last
        BY <4>1
      <4> HIDE DEF new
      <4> QED
        BY <1>2, <2>7, <4>2 DEF MergeStep
    <3>2. /\ iv.end # 0 /\ iv.start < iv.end
          /\ top \in 0 .. Top - 1 /\ top # 0 /\ last.start < top
          /\ new.start = last.start /\ new.end = top /\ Proper(new) /\ new \in Iv
      <4>1. new.start = last.start /\ new.end = top
        OBVIOUS
      <4>2. /\ iv.end # 0 /\ iv.start < iv.end
            /\ top \in 0 .. Top - 1 /\ top # 0 /\ last.start < top
        <5> HIDE DEF iv, last, n
        <5> QED
          BY <1>00, <2>3, <2>5, <2>7
      <4>3. new \in Iv
        <5> HIDE DEF top
        <5> QED
          BY <2>3, <4>2 DEF Iv
      <4> HIDE DEF new, top, iv, last, n
      <4> QED
        BY <4>1, <4>2, <4>3 DEF Proper
    <3>3. /\ Len(next) = n /\ next[n] = new /\ next # << >>
          /\ \A a \in 1 .. n : a # n => next[a] = out[a]
      BY <2>1
    <3>4. \A x \in 0 .. Top - 1 : x \in Held(new) <=> x \in Held(last) \/ x \in Held(iv)
      BY <1>0, <1>00, <2>3, <2>6, <2>7, <3>2 DEF Held
    <3> HIDE DEF new, top, next
    <3>5. \A a \in 1 .. n : Proper(next[a]) /\ next[a].end # 0
      BY <1>0, <3>2, <3>3 DEF Merged
    <3>6. ASSUME NEW a \in 1 .. n, NEW b \in 1 .. n, a < b
          PROVE  next[a].end # 0 /\ next[a].end < next[b].start
      <4>1. a # n /\ next[a] = out[a]
        BY <1>0, <3>3, <3>6
      <4>2. next[b].start = out[b].start
        BY <3>2, <3>3
      <4> QED
        BY <1>0, <3>6, <4>1, <4>2 DEF Merged
    <3>7. ASSUME NEW x \in 0 .. Top - 1
          PROVE  (\E a \in 1 .. n : x \in Held(next[a])) <=> (\E j \in 1 .. i : x \in Held(s[j]))
      <4>1. (\E a \in 1 .. n : x \in Held(next[a]))
              <=> x \in Held(iv) \/ \E a \in 1 .. n : x \in Held(out[a])
        <5>1. ASSUME NEW a \in 1 .. n, x \in Held(next[a])
              PROVE  x \in Held(iv) \/ \E b \in 1 .. n : x \in Held(out[b])
          BY <2>1, <3>3, <3>4, <5>1
        <5>2. ASSUME NEW a \in 1 .. n, x \in Held(out[a])
              PROVE  \E b \in 1 .. n : x \in Held(next[b])
          BY <2>1, <3>3, <3>4, <5>2
        <5>3. ASSUME x \in Held(iv)
              PROVE  \E b \in 1 .. n : x \in Held(next[b])
          BY <2>1, <3>3, <3>4, <5>3
        <5> QED
          BY <5>1, <5>2, <5>3
      <4>2. (\E a \in 1 .. n : x \in Held(out[a])) <=> (\E j \in 1 .. i - 1 : x \in Held(s[j]))
        BY <1>0 DEF Merged
      <4>3. (\E j \in 1 .. i : x \in Held(s[j])) <=> x \in Held(iv) \/ \E j \in 1 .. i - 1 : x \in Held(s[j])
        BY <1>0
      <4> QED
        BY <4>1, <4>2, <4>3
    <3>8. next[n].start <= iv.start /\ \E j \in 1 .. i : next[n].end = s[j].end
      <4>1. PICK j \in 1 .. i - 1 : last.end = s[j].end
        BY <1>0, <2>2 DEF Merged
      <4>2. top = iv.end \/ top = last.end
        BY DEF top
      <4> QED
        BY <1>0, <2>6, <3>2, <3>3, <4>1, <4>2
    <3>9. Merged(next, s, i)
      BY <1>0, <3>3, <3>5, <3>6, <3>7, <3>8 DEF Merged
    <3> QED
      BY <3>1, <3>9
  <2>8. CASE ~(iv.start <= last.end)
    <3> DEFINE next == Append(out, iv)
    <3>1. MergeStep(out, iv) = next
      BY <1>2, <2>8 DEF MergeStep
    <3>2. /\ Len(next) = n + 1 /\ next[n + 1] = iv /\ next # << >>
          /\ \A a \in 1 .. n : next[a] = out[a]
      OBVIOUS
    <3>3. \A a \in 1 .. n + 1 : a \in 1 .. n \/ a = n + 1
      BY <1>0
    <3>4. \A a \in 1 .. n : a \in 1 .. n + 1 /\ a # n + 1 /\ a \in Int
      BY <1>0
    <3>0. n + 1 \in 1 .. n + 1
      BY <1>0
    <3> HIDE DEF next
    <3>5. \A a \in 1 .. n + 1 : Proper(next[a]) /\ (i < Len(s) => next[a].end # 0)
      BY <1>0, <1>a, <3>2, <3>3 DEF Merged
    <3>6. ASSUME NEW a \in 1 .. n + 1, NEW b \in 1 .. n + 1, a < b
          PROVE  next[a].end # 0 /\ next[a].end < next[b].start
      <4>1. a \in 1 .. n /\ next[a] = out[a]
        BY <1>0, <3>2, <3>6
      <4>2. CASE b \in 1 .. n
        BY <3>2, <3>6, <4>1, <4>2 DEF Merged
      <4>3. CASE b = n + 1
        <5>1. last.end < iv.start
          BY <1>00, <2>3, <2>8
        <5>2. CASE a = n
          BY <2>3, <3>2, <4>1, <4>3, <5>1, <5>2
        <5>3. CASE a # n
          <6>1. a < n
            BY <1>0, <4>1, <5>3
          <6>2. out[a].end # 0 /\ out[a].end < last.start
            BY <2>1, <4>1, <6>1 DEF Merged
          <6>3. out[a] \in Iv
            BY <4>1
          <6>4. out[a].end \in Int
            BY <6>3 DEF Iv
          <6> QED
            BY <1>00, <2>3, <3>2, <4>1, <4>3, <5>1, <6>2, <6>4
        <5> QED
          BY <5>2, <5>3
      <4> QED
        BY <3>3, <4>2, <4>3
    <3>7. ASSUME NEW x \in 0 .. Top - 1
          PROVE  (\E a \in 1 .. n + 1 : x \in Held(next[a])) <=> (\E j \in 1 .. i : x \in Held(s[j]))
      <4>1. (\E a \in 1 .. n + 1 : x \in Held(next[a]))
              <=> x \in Held(iv) \/ \E a \in 1 .. n : x \in Held(out[a])
        BY <3>0, <3>2, <3>3, <3>4
      <4>2. (\E a \in 1 .. n : x \in Held(out[a])) <=> (\E j \in 1 .. i - 1 : x \in Held(s[j]))
        BY <1>0 DEF Merged
      <4>3. (\E j \in 1 .. i : x \in Held(s[j])) <=> x \in Held(iv) \/ \E j \in 1 .. i - 1 : x \in Held(s[j])
        BY <1>0
      <4> QED
        BY <4>1, <4>2, <4>3
    <3>8. Merged(next, s, i)
      BY <1>0, <1>00, <3>2, <3>5, <3>6, <3>7 DEF Merged
    <3> QED
      BY <3>1, <3>8
  <2> QED
    BY <2>7, <2>8
<1> QED
  BY <1>1, <1>2

\* The elements of a set hold the addresses of its networks, and no two of
\* them overlap.
LEMMA ElementsHold ==
  ASSUME NEW nets \in SUBSET Nets, IsFiniteSet(nets), TopApart(nets), NEW v6
  PROVE  /\ \A x : InSet(x, Elements(nets, v6)) <=> \E n \in nets : n.v6 = v6 /\ x \in Block(n)
         /\ Loadable(Elements(nets, v6))
<1> DEFINE mine == {m \in nets : m.v6 = v6}
           ivs == {Interval(n) : n \in mine}
           s == SortedIntervals(ivs)
<1>1. IsFiniteSet(ivs) /\ ivs \in SUBSET Iv
  <2>1. IsFiniteSet(mine)
    BY FS_Subset
  <2> DEFINE f == [n \in mine |-> Interval(n)]
  <2>2. f \in Surjection(mine, ivs)
    BY DEF Surjection
  <2>3. IsFiniteSet(ivs)
    <3> HIDE DEF f, mine, ivs
    <3> QED
      BY <2>1, <2>2, FS_Surjection
  <2>4. \A n \in mine : Interval(n) \in Iv
    BY IntervalOf DEF Proper
  <2> QED
    BY <2>3, <2>4
<1>2. s \in SetToSeqs(ivs) /\ \A i, j \in DOMAIN s : i < j => s[i].start <= s[j].start
  <2> HIDE DEF ivs
  <2>1. \E t \in SetToSeqs(ivs) : \A i, j \in DOMAIN t : i < j => t[i].start <= t[j].start
    BY <1>1, SortedExists
  <2> QED
    BY <2>1 DEF SortedIntervals
<1> HIDE DEF s
<1> DEFINE k == Cardinality(ivs)
<1>3. k \in Nat
  <2> HIDE DEF ivs
  <2> QED
    BY <1>1, FS_CardinalityType
<1>4. /\ s \in [1 .. k -> ivs]
      /\ \A i, j \in 1 .. k : i # j => s[i] # s[j]
  <2> HIDE DEF ivs
  <2> QED
    BY <1>2 DEF SetToSeqs, k
<1>5. \A iv \in ivs : \E i \in 1 .. k : s[i] = iv
  <2>1. s \in Injection(1 .. k, ivs)
    <3> HIDE DEF ivs, k
    <3> QED
      BY <1>4 DEF Injection, IsInjective
  <2>2. IsFiniteSet(1 .. k) /\ Cardinality(1 .. k) = k
    <3> HIDE DEF k
    <3> QED
      BY <1>3, FS_Interval
  <2> DEFINE img == {s[i] : i \in 1 .. k}
  <2>3. s \in Bijection(1 .. k, img)
    <3> HIDE DEF ivs, k
    <3> QED
      BY <1>4 DEF Bijection, Injection, Surjection, IsInjective
  <2>4. Cardinality(img) = k /\ img \in SUBSET ivs
    <3>1. img \in SUBSET ivs
      <4> HIDE DEF ivs, k
      <4> QED
        BY <1>4
    <3>2. IsFiniteSet(img) /\ Cardinality(img) = Cardinality(1 .. k)
      <4> HIDE DEF ivs, k, img
      <4>1. ExistsBijection(1 .. k, img)
        BY <2>3 DEF ExistsBijection
      <4> QED
        BY <2>2, <4>1, FS_Bijection
    <3> QED
      BY <2>2, <3>1, <3>2
  <2>5. img = ivs
    <3> HIDE DEF ivs, img
    <3> QED
      BY <1>1, <2>4, FS_Subset DEF k
  <2> QED
    BY <2>5
<1>6. DOMAIN s = 1 .. k /\ s \in Seq(Iv) /\ Len(s) = k
  <2> HIDE DEF ivs, k
  <2> QED
    BY <1>1, <1>3, <1>4
<1>7. \A i \in 1 .. k : \E n \in nets : n \in Nets /\ n.v6 = v6 /\ s[i] = Interval(n)
  BY <1>4
<1> HIDE DEF k
<1>8. Ordered(s)
  <2>1. \A i \in 1 .. k : Proper(s[i])
    BY <1>7, IntervalOf
  <2>2. ASSUME NEW i \in 1 .. k, NEW j \in 1 .. k, i < j
        PROVE  s[i].end # 0 /\ (s[j].end = 0 => s[i].end < s[j].start)
    <3>1. PICK m \in nets : m \in Nets /\ m.v6 = v6 /\ s[i] = Interval(m)
      BY <1>7
    <3>2. PICK n \in nets : n \in Nets /\ n.v6 = v6 /\ s[j] = Interval(n)
      BY <1>7
    <3>3. /\ s[i].start = m.lo /\ s[j].start = n.lo /\ m.lo <= n.lo /\ s[i] # s[j]
          /\ s[i].end = IF m.lo + m.size = Top THEN 0 ELSE m.lo + m.size
          /\ s[j].end = IF n.lo + n.size = Top THEN 0 ELSE n.lo + n.size
      BY <1>2, <1>3, <1>4, <1>6, <2>2, <3>1, <3>2, IntervalOf
    <3>4. /\ Top \in Nat /\ m.lo \in Nat /\ n.lo \in Nat /\ m.size \in Nat /\ n.size \in Nat
          /\ m.size >= 1 /\ n.size >= 1
      BY <3>1, <3>2, NetsAssumption DEF NetsAssumption
    <3>5. ~(m.lo = n.lo /\ m.size = n.size)
      BY <3>1, <3>2, <3>3 DEF Interval
    <3>6. m.lo + m.size = Top => n.lo + n.size < m.lo
      BY <3>1, <3>2, <3>5 DEF TopApart
    <3>7. n.lo + n.size = Top => m.lo + m.size < n.lo
      BY <3>1, <3>2, <3>5 DEF TopApart
    <3>8. m.lo + m.size # Top
      BY <3>3, <3>4, <3>6
    <3> QED
      BY <3>3, <3>4, <3>7, <3>8
  <2> QED
    BY <1>2, <1>6, <2>1, <2>2 DEF Ordered
<1>9. PICK t \in [0 .. k -> Seq(Iv)] :
         /\ t[0] = << >>
         /\ \A i \in 1 .. k : t[i] = MergeStep(t[i - 1], s[i])
         /\ FoldLeft(MergeStep, << >>, s) = t[k]
  BY <1>6, MergeTrace
<1>10. \A i \in 0 .. k : Merged(t[i], s, i)
  <2> DEFINE U == {i \in 0 .. k : ~Merged(t[i], s, i)}
  <2>1. U = {}
    <3> SUFFICES ASSUME U # {} PROVE FALSE
      OBVIOUS
    <3>1. U \in SUBSET Nat
      BY <1>3
    <3>2. PICK i \in U : \A j \in U : i <= j
      <4> HIDE DEF U
      <4> QED
        BY <3>1, Smallest
    <3>3. Merged(t[0], s, 0)
      BY <1>9 DEF Merged
    <3>4. i # 0
      BY <3>2, <3>3
    <3>5. i \in 1 .. k /\ i - 1 \in 0 .. k /\ ~(i <= i - 1)
      BY <1>3, <3>2, <3>4
    <3>6. Merged(t[i - 1], s, i - 1) /\ t[i - 1] \in Seq(Iv)
      BY <3>2, <3>5
    <3>7. Merged(MergeStep(t[i - 1], s[i]), s, i)
      BY <1>6, <1>8, <3>5, <3>6, MergedStep
    <3> QED
      BY <1>9, <3>2, <3>5, <3>7
  <2> QED
    BY <2>1
<1>11. Merged(t[k], s, k) /\ t[k] \in Seq(Iv)
  <2>1. k \in 0 .. k
    BY <1>3
  <2> QED
    BY <1>10, <2>1
<1>12. Elements(nets, v6) = t[k]
  BY <1>9 DEF Elements, MergeIntervals, s
<1> DEFINE out == t[k]
<1>13. out \in Seq(Iv) /\ DOMAIN out = 1 .. Len(out) /\ Len(out) \in Nat
  BY <1>11
<1>14. ASSUME NEW x
       PROVE  InSet(x, out) <=> \E n \in nets : n.v6 = v6 /\ x \in Block(n)
  <2>1. InSet(x, out) <=> \E a \in 1 .. Len(out) : x \in Held(out[a])
    BY <1>13 DEF InSet
  <2>2. (\E j \in 1 .. k : x \in Held(s[j])) <=> \E n \in nets : n.v6 = v6 /\ x \in Block(n)
    <3>1. ASSUME NEW j \in 1 .. k, x \in Held(s[j])
          PROVE  \E n \in nets : n.v6 = v6 /\ x \in Block(n)
      BY <1>7, <3>1, IntervalOf
    <3>2. ASSUME NEW n \in nets, n.v6 = v6, x \in Block(n)
          PROVE  \E j \in 1 .. k : x \in Held(s[j])
      <4>1. PICK j \in 1 .. k : s[j] = Interval(n)
        BY <1>5, <3>2
      <4> QED
        BY <3>2, <4>1, IntervalOf
    <3> QED
      BY <3>1, <3>2
  <2>3. CASE x \in 0 .. Top - 1
    BY <1>11, <2>1, <2>2, <2>3 DEF Merged
  <2>4. CASE x \notin 0 .. Top - 1
    <3>1. \A iv : x \notin Held(iv)
      BY <2>4 DEF Held
    <3> QED
      BY <2>1, <2>2, <3>1
  <2> QED
    BY <2>3, <2>4
<1>15. ASSUME NEW a \in 1 .. Len(out), NEW b \in 1 .. Len(out), a < b
       PROVE  Held(out[a]) \cap Held(out[b]) = {}
  <2>1. out[a].end # 0 /\ out[a].end < out[b].start
    BY <1>11, <1>15 DEF Merged
  <2>2. out[a] \in Iv /\ out[b] \in Iv
    BY <1>13
  <2>3. out[a].end \in Int /\ out[b].start \in Int
    BY <2>2 DEF Iv
  <2> QED
    BY <2>1, <2>3 DEF Held
<1>16. Loadable(out)
  <2> SUFFICES ASSUME NEW a \in 1 .. Len(out), NEW b \in 1 .. Len(out), a # b
               PROVE  Held(out[a]) \cap Held(out[b]) = {}
    BY <1>13 DEF Loadable
  <2>1. a < b \/ b < a
    OBVIOUS
  <2> HIDE DEF out
  <2> QED
    BY <1>15, <2>1
<1> QED
  BY <1>12, <1>14, <1>16

-----------------------------------------------------------------------------
(* Chains: the rules of the chains that do not depend on the users'.       *)

\* The rules that a chain is made of.
Entries == [on : SUBSET Packets,
            do : {"accept", "drop", "reject", "return", "log", "jump"},
            to : Chains \cup {<< >>}]

\* The rules that the helpers of the compiler build.
LEMMA EntryTypes ==
  ASSUME NEW S \in SUBSET Packets
  PROVE  /\ Accept(S) \in Entries /\ Drop(S) \in Entries /\ Reject(S) \in Entries
         /\ Return(S) \in Entries /\ Log(S) \in Entries
         /\ \A c \in Chains : Jump(S, c) \in Entries
  BY DEF Entries, Accept, Drop, Reject, Return, Log, Jump, Rule

\* What is in the fields of those rules.
LEMMA Fields ==
  ASSUME NEW S, NEW c
  PROVE  /\ Accept(S).on = S /\ Accept(S).do = "accept"
         /\ Drop(S).on = S /\ Drop(S).do = "drop"
         /\ Reject(S).on = S /\ Reject(S).do = "reject"
         /\ Return(S).on = S /\ Return(S).do = "return"
         /\ Log(S).on = S /\ Log(S).do = "log"
         /\ Jump(S, c).on = S /\ Jump(S, c).do = "jump" /\ Jump(S, c).to = c
  BY DEF Accept, Drop, Reject, Return, Log, Jump, Rule

\* Every expression matches packets.
LEMMA MatchTypes ==
  /\ \A v6 : Nfproto(v6) \in SUBSET Packets
  /\ \A proto : L4proto(proto) \in SUBSET Packets
  /\ \A n : Iif(n) \in SUBSET Packets /\ Oif(n) \in SUBSET Packets
  /\ \A x : CtState(x) \in SUBSET Packets
  /\ \A proto, x : IcmpType(proto, x) \in SUBSET Packets
  /\ \A n : HopLimit(n) \in SUBSET Packets
  /\ \A n : FibAddrType(n) \in SUBSET Packets
  /\ \A proto, w, n : PortEq(proto, w, n) \in SUBSET Packets
  /\ \A w, n, v6 : AddrMatch(w, n, v6) \in SUBSET Packets
  /\ \A w, n, v6 : SetMatch(w, n, v6) \in SUBSET Packets
  /\ Limit3 \in SUBSET Packets
  /\ LinkLocal \in SUBSET Packets
  /\ Icmp4 \in SUBSET Packets /\ PingReply6 \in SUBSET Packets
  /\ MobileIp6 \in SUBSET Packets /\ DhcpAnswer \in SUBSET Packets
  /\ DhcpAnswer6 \in SUBSET Packets /\ Discovery \in SUBSET Packets
  /\ RoutingHeader0 \in SUBSET Packets
  /\ \A d : Icmp6(d) \in SUBSET Packets
  /\ \A d \in Directions : Loopback(d) \in SUBSET Packets
  /\ \A state : LogLimit(state) \in SUBSET Packets
<1>1. /\ \A v6 : Nfproto(v6) \in SUBSET Packets
      /\ \A proto : L4proto(proto) \in SUBSET Packets
      /\ \A n : Iif(n) \in SUBSET Packets /\ Oif(n) \in SUBSET Packets
      /\ \A x : CtState(x) \in SUBSET Packets
      /\ \A proto, x : IcmpType(proto, x) \in SUBSET Packets
      /\ \A n : HopLimit(n) \in SUBSET Packets
      /\ \A n : FibAddrType(n) \in SUBSET Packets
      /\ \A proto, w, n : PortEq(proto, w, n) \in SUBSET Packets
      /\ \A w, n, v6 : AddrMatch(w, n, v6) \in SUBSET Packets
      /\ \A w, n, v6 : SetMatch(w, n, v6) \in SUBSET Packets
      /\ Limit3 \in SUBSET Packets
      /\ LinkLocal \in SUBSET Packets
  BY DEF Nfproto, L4proto, Iif, Oif, CtState, IcmpType, HopLimit, FibAddrType, PortEq,
         AddrMatch, SetMatch, Limit3, LinkLocal
<1>2. /\ Icmp4 \in SUBSET Packets /\ PingReply6 \in SUBSET Packets
      /\ MobileIp6 \in SUBSET Packets /\ DhcpAnswer \in SUBSET Packets
      /\ DhcpAnswer6 \in SUBSET Packets
      /\ RoutingHeader0 \in SUBSET Packets
  BY <1>1 DEF Icmp4, PingReply6, MobileIp6, DhcpAnswer, DhcpAnswer6, RoutingHeader0
<1>3. Discovery \in SUBSET Packets
  BY <1>1 DEF Discovery
<1>4. \A d : Icmp6(d) \in SUBSET Packets
  <2> SUFFICES ASSUME NEW d PROVE Icmp6(d) \in SUBSET Packets
    OBVIOUS
  <2>1. \A p \in Icmp6(d) : p \in Nfproto(TRUE)
    BY DEF Icmp6
  <2> QED
    BY <1>1, <2>1
<1>5. \A d \in Directions : Loopback(d) \in SUBSET Packets
  BY <1>1 DEF Loopback, Directions
<1>6. \A state : LogLimit(state) \in SUBSET Packets
  BY <1>1 DEF LogLimit
<1> QED
  BY <1>1, <1>2, <1>3, <1>4, <1>5, <1>6

\* The names that jumps have.
LEMMA ChainNames ==
  /\ \A d \in Directions : {<<x, d>> : x \in {"base", "before-logging", "before", "user", "after",
        "after-logging", "user-logging", "reject", "track", "skip-to-policy"}} \subseteq Chains
  /\ <<"not-local", "any">> \in Chains /\ <<"logging-deny", "any">> \in Chains
  /\ <<"user-limit", "any">> \in Chains /\ <<"user-limit-accept", "any">> \in Chains
  /\ <<"user-egress", "any">> \in Chains
  /\ "in" \in Directions /\ "out" \in Directions /\ "routed" \in Directions
BY DEF Chains, Directions

\* The rules of the before chain for packets that come in.
LEMMA BeforeIn ==
  ASSUME NEW state
  PROVE  LET R == Before(state, "in") IN
         /\ R \in Seq(Entries) /\ Len(R) = 15
         /\ R[1] = Accept(Loopback("in"))
         /\ R[2] = Drop(RoutingHeader0)
         /\ R[3] = Drop(SetMatch("src", Elements(state.bans, FALSE), FALSE))
         /\ R[4] = Drop(SetMatch("src", Elements(state.bans, TRUE), TRUE))
         /\ R[5] = Accept(CtState({"established", "related"}))
         /\ R[6] = Accept(PingReply6)
         /\ R[7] = Jump(CtState({"invalid"}), <<"logging-deny", "any">>)
         /\ R[8] = Drop(CtState({"invalid"}))
         /\ R[9] = Accept(Icmp4)
         /\ R[10] = Accept(Icmp6("in"))
         /\ R[11] = Accept(MobileIp6)
         /\ R[12] = Accept(DhcpAnswer)
         /\ R[13] = Accept(DhcpAnswer6)
         /\ R[14] = Jump(Nfproto(FALSE), <<"not-local", "any">>)
         /\ R[15] = Accept(Discovery)
<1> DEFINE e1 == Accept(Loopback("in"))
           e2 == Drop(RoutingHeader0)
           e3 == Drop(SetMatch("src", Elements(state.bans, FALSE), FALSE))
           e4 == Drop(SetMatch("src", Elements(state.bans, TRUE), TRUE))
           e5 == Accept(CtState({"established", "related"}))
           e6 == Accept(PingReply6)
           e7 == Jump(CtState({"invalid"}), <<"logging-deny", "any">>)
           e8 == Drop(CtState({"invalid"}))
           e9 == Accept(Icmp4)
           e10 == Accept(Icmp6("in"))
           e11 == Accept(MobileIp6)
           e12 == Accept(DhcpAnswer)
           e13 == Accept(DhcpAnswer6)
           e14 == Jump(Nfproto(FALSE), <<"not-local", "any">>)
           e15 == Accept(Discovery)
<1>1. e1 \in Entries
  BY MatchTypes, EntryTypes, ChainNames
<1>2. e2 \in Entries
  BY MatchTypes, EntryTypes, ChainNames
<1>3. e3 \in Entries
  BY MatchTypes, EntryTypes, ChainNames
<1>4. e4 \in Entries
  BY MatchTypes, EntryTypes, ChainNames
<1>5. e5 \in Entries
  BY MatchTypes, EntryTypes, ChainNames
<1>6. e6 \in Entries
  BY MatchTypes, EntryTypes, ChainNames
<1>7. e7 \in Entries
  BY MatchTypes, EntryTypes, ChainNames
<1>8. e8 \in Entries
  BY MatchTypes, EntryTypes, ChainNames
<1>9. e9 \in Entries
  BY MatchTypes, EntryTypes, ChainNames
<1>10. e10 \in Entries
  BY MatchTypes, EntryTypes, ChainNames
<1>11. e11 \in Entries
  BY MatchTypes, EntryTypes, ChainNames
<1>12. e12 \in Entries
  BY MatchTypes, EntryTypes, ChainNames
<1>13. e13 \in Entries
  BY MatchTypes, EntryTypes, ChainNames
<1>14. e14 \in Entries
  BY MatchTypes, EntryTypes, ChainNames
<1>15. e15 \in Entries
  BY MatchTypes, EntryTypes, ChainNames
<1> DEFINE R == <<e1>> \o <<e2>> \o <<e3, e4>> \o <<e5>> \o <<e6, e7, e8>>
                 \o <<e9>> \o <<e10>> \o <<e11, e12, e13, e14, e15>> \o << >>
<1>16. Before(state, "in") = R
  BY DEF Before, BanRules
<1> HIDE DEF e1, e2, e3, e4, e5, e6, e7, e8, e9, e10, e11, e12, e13, e14, e15
<1>17. /\ R \in Seq(Entries) /\ Len(R) = 15
      /\ R[1] = e1 /\ R[2] = e2 /\ R[3] = e3 /\ R[4] = e4 /\ R[5] = e5
      /\ R[6] = e6 /\ R[7] = e7 /\ R[8] = e8 /\ R[9] = e9 /\ R[10] = e10
      /\ R[11] = e11 /\ R[12] = e12 /\ R[13] = e13 /\ R[14] = e14 /\ R[15] = e15
  BY <1>1, <1>2, <1>3, <1>4, <1>5, <1>6, <1>7, <1>8, <1>9, <1>10, <1>11, <1>12, <1>13, <1>14, <1>15
<1> HIDE DEF R
<1> QED
  BY <1>16, <1>17 DEF e1, e2, e3, e4, e5, e6, e7, e8, e9, e10, e11, e12, e13, e14, e15

\* The rules of the before chain for packets that pass through.
LEMMA BeforeRouted ==
  ASSUME NEW state
  PROVE  LET R == Before(state, "routed") IN
         /\ R \in Seq(Entries) /\ Len(R) = 6
         /\ R[1] = Drop(RoutingHeader0)
         /\ R[2] = Drop(SetMatch("src", Elements(state.bans, FALSE), FALSE))
         /\ R[3] = Drop(SetMatch("src", Elements(state.bans, TRUE), TRUE))
         /\ R[4] = Accept(CtState({"established", "related"}))
         /\ R[5] = Accept(Icmp4)
         /\ R[6] = Accept(Icmp6("routed"))
<1> DEFINE e1 == Drop(RoutingHeader0)
           e2 == Drop(SetMatch("src", Elements(state.bans, FALSE), FALSE))
           e3 == Drop(SetMatch("src", Elements(state.bans, TRUE), TRUE))
           e4 == Accept(CtState({"established", "related"}))
           e5 == Accept(Icmp4)
           e6 == Accept(Icmp6("routed"))
<1>1. e1 \in Entries
  BY MatchTypes, EntryTypes, ChainNames
<1>2. e2 \in Entries
  BY MatchTypes, EntryTypes, ChainNames
<1>3. e3 \in Entries
  BY MatchTypes, EntryTypes, ChainNames
<1>4. e4 \in Entries
  BY MatchTypes, EntryTypes, ChainNames
<1>5. e5 \in Entries
  BY MatchTypes, EntryTypes, ChainNames
<1>6. e6 \in Entries
  BY MatchTypes, EntryTypes, ChainNames
<1> DEFINE R == << >> \o <<e1>> \o <<e2, e3>> \o <<e4>> \o << >> \o <<e5>>
                 \o <<e6>> \o << >> \o << >>
<1>7. Before(state, "routed") = R
  BY DEF Before, BanRules
<1> HIDE DEF e1, e2, e3, e4, e5, e6
<1>8. /\ R \in Seq(Entries) /\ Len(R) = 6
      /\ R[1] = e1 /\ R[2] = e2 /\ R[3] = e3 /\ R[4] = e4 /\ R[5] = e5 /\ R[6] = e6
  BY <1>1, <1>2, <1>3, <1>4, <1>5, <1>6
<1> HIDE DEF R
<1> QED
  BY <1>7, <1>8 DEF e1, e2, e3, e4, e5, e6

\* The rules of the before chain for packets that go out.
LEMMA BeforeOut ==
  ASSUME NEW state
  PROVE  LET R == Before(state, "out") IN
         /\ R \in Seq(Entries) /\ Len(R) = 5
         /\ R[1] = Accept(Loopback("out"))
         /\ R[2] = Drop(RoutingHeader0)
         /\ R[3] = Accept(CtState({"established", "related"}))
         /\ R[4] = Accept(Icmp6("out"))
         /\ R[5] = Jump(Packets, <<"user-egress", "any">>)
<1> DEFINE e1 == Accept(Loopback("out"))
           e2 == Drop(RoutingHeader0)
           e3 == Accept(CtState({"established", "related"}))
           e4 == Accept(Icmp6("out"))
           e5 == Jump(Packets, <<"user-egress", "any">>)
<1>1. e1 \in Entries
  BY MatchTypes, EntryTypes, ChainNames
<1>2. e2 \in Entries
  BY MatchTypes, EntryTypes, ChainNames
<1>3. e3 \in Entries
  BY MatchTypes, EntryTypes, ChainNames
<1>4. e4 \in Entries
  BY MatchTypes, EntryTypes, ChainNames
<1>5. e5 \in Entries
  BY MatchTypes, EntryTypes, ChainNames
<1> DEFINE R == <<e1>> \o <<e2>> \o << >> \o <<e3>> \o << >> \o << >> \o <<e4>>
                 \o << >> \o <<e5>>
<1>6. Before(state, "out") = R
  BY DEF Before
<1> HIDE DEF e1, e2, e3, e4, e5
<1>7. /\ R \in Seq(Entries) /\ Len(R) = 5
      /\ R[1] = e1 /\ R[2] = e2 /\ R[3] = e3 /\ R[4] = e4 /\ R[5] = e5
  BY <1>1, <1>2, <1>3, <1>4, <1>5
<1> HIDE DEF R
<1> QED
  BY <1>6, <1>7 DEF e1, e2, e3, e4, e5

\* Which chain a name is of.
LEMMA ChainIs ==
  ASSUME NEW s, NEW d
  PROVE  /\ Chain(s, <<"base", d>>) = Base(s, d)
         /\ Chain(s, <<"before-logging", d>>) = BeforeLogging(s)
         /\ Chain(s, <<"before", d>>) = Before(s, d)
         /\ Chain(s, <<"user", d>>) = User(s, d)
         /\ Chain(s, <<"after", d>>) = After(d)
         /\ Chain(s, <<"after-logging", d>>) = AfterLogging(s, d)
         /\ Chain(s, <<"reject", d>>) = RejectChain(s, d)
         /\ Chain(s, <<"track", d>>) = TrackChain(s, d)
         /\ Chain(s, <<"skip-to-policy", d>>) = <<PolicyVerdict(s, d)>>
         /\ Chain(s, <<"user-logging", d>>) = UserLogging(s, d)
         /\ Chain(s, <<"logging-deny", d>>) = LoggingDeny(s)
         /\ Chain(s, <<"not-local", d>>) = NotLocal
         /\ Chain(s, <<"user-limit", d>>) = UserLimit(s)
         /\ Chain(s, <<"user-limit-accept", d>>) = <<Accept(Packets)>>
         /\ Chain(s, <<"user-egress", d>>) = << >>
BY DEF Chain

\* The rules of a base chain while the firewall is in force.
LEMMA BaseOn ==
  ASSUME NEW s, NEW d \in Directions, ~s.panic, IPv6On(s)
  PROVE  LET R == Base(s, d) IN
         /\ R \in Seq(Entries) /\ Len(R) = 7
         /\ R[1] = Jump(Packets, <<"before-logging", d>>)
         /\ R[2] = Jump(Packets, <<"before", d>>)
         /\ R[3] = Jump(Packets, <<"user", d>>)
         /\ R[4] = Jump(Packets, <<"after", d>>)
         /\ R[5] = Jump(Packets, <<"after-logging", d>>)
         /\ R[6] = Jump(Packets, <<"reject", d>>)
         /\ R[7] = Jump(Packets, <<"track", d>>)
<1> DEFINE e1 == Jump(Packets, <<"before-logging", d>>)
           e2 == Jump(Packets, <<"before", d>>)
           e3 == Jump(Packets, <<"user", d>>)
           e4 == Jump(Packets, <<"after", d>>)
           e5 == Jump(Packets, <<"after-logging", d>>)
           e6 == Jump(Packets, <<"reject", d>>)
           e7 == Jump(Packets, <<"track", d>>)
<1>0. {<<x, d>> : x \in {"base", "before-logging", "before", "user", "after",
        "after-logging", "user-logging", "reject", "track", "skip-to-policy"}} \subseteq Chains
  BY ChainNames
<1>1. /\ e1 \in Entries /\ e2 \in Entries /\ e3 \in Entries /\ e4 \in Entries
      /\ e5 \in Entries /\ e6 \in Entries /\ e7 \in Entries
  <2>1. \A c \in Chains : Jump(Packets, c) \in Entries
    BY EntryTypes
  <2> QED
    BY <1>0, <2>1
<1> DEFINE R == <<e1, e2, e3, e4, e5, e6, e7>>
<1>2. Base(s, d) = << >> \o R
  BY DEF Base
<1> HIDE DEF e1, e2, e3, e4, e5, e6, e7
<1>3. /\ << >> \o R \in Seq(Entries) /\ Len(<< >> \o R) = 7
      /\ (<< >> \o R)[1] = e1 /\ (<< >> \o R)[2] = e2 /\ (<< >> \o R)[3] = e3
      /\ (<< >> \o R)[4] = e4 /\ (<< >> \o R)[5] = e5 /\ (<< >> \o R)[6] = e6
      /\ (<< >> \o R)[7] = e7
  BY <1>1
<1> HIDE DEF R
<1> QED
  BY <1>2, <1>3 DEF e1, e2, e3, e4, e5, e6, e7

\* The rules of a base chain in a panic.
LEMMA BaseOff ==
  ASSUME NEW s, NEW d \in Directions, ~s.panic, ~IPv6On(s)
  PROVE  LET R == Base(s, d) IN
         /\ R \in Seq(Entries) /\ Len(R) = 9
         /\ R[1] = Accept(Nfproto(TRUE) \cap Loopback(d))
         /\ R[2] = Drop(Nfproto(TRUE))
         /\ R[3] = Jump(Packets, <<"before-logging", d>>)
         /\ R[4] = Jump(Packets, <<"before", d>>)
         /\ R[5] = Jump(Packets, <<"user", d>>)
         /\ R[6] = Jump(Packets, <<"after", d>>)
         /\ R[7] = Jump(Packets, <<"after-logging", d>>)
         /\ R[8] = Jump(Packets, <<"reject", d>>)
         /\ R[9] = Jump(Packets, <<"track", d>>)
<1> DEFINE e1 == Accept(Nfproto(TRUE) \cap Loopback(d))
           e2 == Drop(Nfproto(TRUE))
           e3 == Jump(Packets, <<"before-logging", d>>)
           e4 == Jump(Packets, <<"before", d>>)
           e5 == Jump(Packets, <<"user", d>>)
           e6 == Jump(Packets, <<"after", d>>)
           e7 == Jump(Packets, <<"after-logging", d>>)
           e8 == Jump(Packets, <<"reject", d>>)
           e9 == Jump(Packets, <<"track", d>>)
<1>0. {<<x, d>> : x \in {"base", "before-logging", "before", "user", "after",
        "after-logging", "user-logging", "reject", "track", "skip-to-policy"}} \subseteq Chains
  BY ChainNames
<1>1. /\ e3 \in Entries /\ e4 \in Entries
      /\ e5 \in Entries /\ e6 \in Entries /\ e7 \in Entries /\ e8 \in Entries /\ e9 \in Entries
  <2>1. \A c \in Chains : Jump(Packets, c) \in Entries
    BY EntryTypes
  <2> QED
    BY <1>0, <2>1
<1>11. e1 \in Entries /\ e2 \in Entries
  <2>1. Nfproto(TRUE) \in SUBSET Packets
    BY MatchTypes
  <2>2. Nfproto(TRUE) \cap Loopback(d) \in SUBSET Packets
    BY <2>1
  <2> QED
    BY <2>1, <2>2, EntryTypes
<1> DEFINE L == <<e1, e2>>
           Q == <<e3, e4, e5, e6, e7, e8, e9>>
<1>2. Base(s, d) = L \o Q
  BY DEF Base
<1> HIDE DEF e1, e2, e3, e4, e5, e6, e7, e8, e9
<1>3. /\ L \o Q \in Seq(Entries) /\ Len(L \o Q) = 9
      /\ (L \o Q)[1] = e1 /\ (L \o Q)[2] = e2 /\ (L \o Q)[3] = e3
      /\ (L \o Q)[4] = e4 /\ (L \o Q)[5] = e5 /\ (L \o Q)[6] = e6
      /\ (L \o Q)[7] = e7 /\ (L \o Q)[8] = e8 /\ (L \o Q)[9] = e9
  BY <1>1, <1>11
<1> HIDE DEF L, Q
<1> QED
  BY <1>2, <1>3 DEF e1, e2, e3, e4, e5, e6, e7, e8, e9

\* FirstMatch is the least index of a rule that matches.
LEMMA FirstMatchIs ==
  ASSUME NEW s, NEW p, RulesFor(s, p) \in Seq(Rules)
  PROVE  LET l == RulesFor(s, p)
             I == {i \in 1 .. Len(l) : Matches(s, l[i], p.v6, p)} IN
         /\ I = {} => FirstMatch(s, p) = 0
         /\ \A i \in I : (\A k \in I : i <= k) => FirstMatch(s, p) = i
         /\ I # {} => FirstMatch(s, p) \in I
         /\ FirstMatch(s, p) # 0 => \A k \in I : FirstMatch(s, p) <= k
<1> DEFINE l == RulesFor(s, p)
           I == {i \in 1 .. Len(l) : Matches(s, l[i], p.v6, p)}
<1>1. FirstMatch(s, p) = IF I # {} THEN Min(I) ELSE 0
  BY DEF FirstMatch, SelectInSeq
<1>2. I \in SUBSET Nat
  OBVIOUS
<1> HIDE DEF I
<1>3. I # {} => \E m \in I : \A k \in I : m <= k
  BY <1>2, Smallest
<1>4. I # {} => Min(I) \in I /\ \A k \in I : Min(I) <= k
  BY <1>3 DEF Min
<1>5. \A i \in I : (\A k \in I : i <= k) => Min(I) = i
  <2> SUFFICES ASSUME NEW i \in I, \A k \in I : i <= k PROVE Min(I) = i
    OBVIOUS
  <2>1. Min(I) \in I /\ Min(I) <= i /\ i <= Min(I)
    BY <1>4
  <2>2. Min(I) \in Nat /\ i \in Nat
    BY <1>2, <2>1
  <2> QED
    BY <2>1, <2>2
<1>6. /\ I = {} => FirstMatch(s, p) = 0
      /\ \A i \in I : (\A k \in I : i <= k) => FirstMatch(s, p) = i
      /\ I # {} => FirstMatch(s, p) \in I
      /\ FirstMatch(s, p) # 0 => \A k \in I : FirstMatch(s, p) <= k
  BY <1>1, <1>4, <1>5
<1> QED
  BY <1>6 DEF I

\* What a rule says of the ports of a side, and what that is compiled to.
LEMMA PortsMatch ==
  ASSUME NEW p \in Packets, NEW ports, NEW which, NEW proto, p.proto = proto,
         ports # {} => \E q \in ports : q.proto \in {"any", proto}
  PROVE  p \in PortExprs(ports, which, proto) <=> InPorts(ports, p[which], proto)
BY DEF PortExprs, InPorts

-----------------------------------------------------------------------------
(* The rules of the users, compiled one by one.                            *)

\* The protocols that a rule is compiled for, in their order.
LEMMA ProtosAre ==
  ASSUME NEW r
  PROVE  /\ r.proto # "any" => ToSet(ProtoVariants(r)) = {r.proto}
         /\ r.proto = "any" =>
              LET protos == PortProtos(r.src.ports \cup r.dst.ports) IN
              /\ protos \subseteq {"tcp", "udp"}
              /\ ToSet(ProtoVariants(r)) = IF protos = {} THEN {"any"} ELSE protos
         /\ ProtoVariants(r) \in Seq(ToSet(ProtoVariants(r)))
<1> DEFINE protos == PortProtos(r.src.ports \cup r.dst.ports)
           V == ProtoVariants(r)
<1>1. protos \subseteq {"tcp", "udp"}
  BY DEF PortProtos
<1>2. \/ r.proto # "any" /\ V = <<r.proto>>
      \/ r.proto = "any" /\ protos = {} /\ V = <<"any">>
      \/ r.proto = "any" /\ "tcp" \in protos /\ "udp" \in protos /\ V = <<"tcp">> \o <<"udp">>
      \/ r.proto = "any" /\ "tcp" \in protos /\ "udp" \notin protos /\ V = <<"tcp">> \o << >>
      \/ r.proto = "any" /\ "tcp" \notin protos /\ "udp" \in protos /\ V = << >> \o <<"udp">>
  BY <1>1 DEF ProtoVariants
<1>3. ASSUME NEW x, V = <<x>>
      PROVE  V \in Seq(ToSet(V)) /\ ToSet(V) = {x}
  <2>1. V \in Seq({x}) /\ Len(V) = 1 /\ V[1] = x /\ DOMAIN V = {1}
    BY <1>3
  <2>2. ToSet(V) = {x}
    BY <2>1 DEF ToSet
  <2> QED
    BY <2>1, <2>2
<1>4. /\ V = <<"tcp">> \o << >> => V = <<"tcp">>
      /\ V = << >> \o <<"udp">> => V = <<"udp">>
      /\ V = <<"tcp">> \o <<"udp">> => /\ V \in Seq({"tcp", "udp"}) /\ DOMAIN V = {1, 2}
                                       /\ V[1] = "tcp" /\ V[2] = "udp"
  <2>1. <<"tcp">> \in Seq({"tcp", "udp"}) /\ <<"udp">> \in Seq({"tcp", "udp"})
    OBVIOUS
  <2>2. <<"tcp">> \o << >> = <<"tcp">> /\ << >> \o <<"udp">> = <<"udp">>
    <3> DEFINE a == <<"tcp">>
               b == <<"udp">>
    <3>1. a \in Seq({"tcp", "udp"}) /\ b \in Seq({"tcp", "udp"})
      BY <2>1
    <3> HIDE DEF a, b
    <3>2. a \o << >> = a /\ << >> \o b = b
      BY <3>1, ConcatEmptySeq
    <3> QED
      BY <3>2 DEF a, b
  <2>3. /\ <<"tcp">> \o <<"udp">> \in Seq({"tcp", "udp"}) /\ Len(<<"tcp">> \o <<"udp">>) = 2
        /\ (<<"tcp">> \o <<"udp">>)[1] = "tcp" /\ (<<"tcp">> \o <<"udp">>)[2] = "udp"
    OBVIOUS
  <2>4. DOMAIN (<<"tcp">> \o <<"udp">>) = {1, 2}
    BY <2>3
  <2> HIDE DEF V
  <2> QED
    BY <2>2, <2>3, <2>4
<1> HIDE DEF V
<1>5. CASE V = <<"tcp">> \o <<"udp">>
  <2>1. ToSet(V) = {"tcp", "udp"}
    BY <1>4, <1>5 DEF ToSet
  <2>2. V \in Seq(ToSet(V))
    BY <1>4, <1>5, <2>1
  <2>3. \/ r.proto = "any" /\ "tcp" \in protos /\ "udp" \in protos
        \/ V = <<r.proto>> \/ V = <<"any">> \/ V = <<"tcp">> \/ V = <<"udp">>
    BY <1>2, <1>4
  <2>4. \A x : V # <<x>>
    <3>1. \A x : DOMAIN <<x>> = {1}
      OBVIOUS
    <3>2. DOMAIN V = {1, 2}
      BY <1>4, <1>5
    <3> QED
      BY <3>1, <3>2
  <2>5. r.proto = "any" /\ "tcp" \in protos /\ "udp" \in protos
    BY <2>3, <2>4
  <2>6. protos = {"tcp", "udp"}
    BY <1>1, <2>5
  <2> HIDE DEF protos
  <2> QED
    BY <2>1, <2>2, <2>5, <2>6 DEF V, protos
<1>6. CASE V # <<"tcp">> \o <<"udp">>
  <2> HIDE DEF protos
  <2>1. \/ r.proto # "any" /\ V = <<r.proto>>
        \/ r.proto = "any" /\ protos = {} /\ V = <<"any">>
        \/ r.proto = "any" /\ protos = {"tcp"} /\ V = <<"tcp">>
        \/ r.proto = "any" /\ protos = {"udp"} /\ V = <<"udp">>
    BY <1>1, <1>2, <1>4, <1>6 DEF V, protos
  <2> QED
    BY <1>1, <1>3, <2>1 DEF V, protos
<1> QED
  BY <1>5, <1>6

\* A rule compiled for one protocol.
Pass(r, match) ==
    (IF r.log = "" THEN << >> ELSE <<Jump(match, <<"user-logging", r.dir>>)>>)
    \o RuleVerdict(r, match)

\* A jump to a chain that only logs.
Soft(e) == e.do = "jump" /\ e.to[1] = "user-logging"

\* What a rule does to a packet that it decides on.
Settles(e, r, p) ==
    \/ e.do \in {"accept", "drop", "reject"} /\ e.do = RuleDecides(r, p)
    \/ e.do = "jump" /\ e.to = <<"user-limit", "any">> /\ RuleDecides(r, p) = "reject"
    \/ e.do = "jump" /\ e.to = <<"user-limit-accept", "any">> /\ RuleDecides(r, p) = "accept"

\* The one to three rules of a pass.
LEMMA PassIs ==
  ASSUME NEW r \in Rules, NEW match \in SUBSET Packets
  PROVE  LET L == Pass(r, match)
             h == IF r.log = "" THEN 0 ELSE 1 IN
         /\ L \in Seq(Entries)
         /\ Len(L) = h + (IF r.action = "limit" THEN 2 ELSE 1)
         /\ h = 1 => L[1] = Jump(match, <<"user-logging", r.dir>>)
         /\ r.action = "allow" => L[h + 1] = Accept(match)
         /\ r.action = "deny" => L[h + 1] = Drop(match)
         /\ r.action = "reject" => L[h + 1] = Reject(match)
         /\ r.action = "limit" =>
              /\ L[h + 1] = Jump(match \cap CtState({"new"}) \cap {p \in Packets : p.over},
                                 <<"user-limit", "any">>)
              /\ L[h + 2] = Jump(match, <<"user-limit-accept", "any">>)
<1> DEFINE h == IF r.log = "" THEN 0 ELSE 1
           over == match \cap CtState({"new"}) \cap {p \in Packets : p.over}
           log == Jump(match, <<"user-logging", r.dir>>)
           lim == Jump(over, <<"user-limit", "any">>)
           acc == Jump(match, <<"user-limit-accept", "any">>)
           H == IF r.log = "" THEN << >> ELSE <<log>>
           one == CASE r.action = "allow" -> Accept(match)
                    [] r.action = "deny" -> Drop(match)
                    [] OTHER -> Reject(match)
<1>1. r.action \in {"allow", "deny", "reject", "limit"} /\ r.dir \in Directions
  BY DEF Rules
<1>2. log \in Entries
  <2>1. <<"user-logging", r.dir>> \in Chains
    BY <1>1, ChainNames
  <2> QED
    BY <2>1, EntryTypes
<1>3. lim \in Entries /\ acc \in Entries
  <2>1. <<"user-limit", "any">> \in Chains /\ <<"user-limit-accept", "any">> \in Chains
    BY ChainNames
  <2>2. over \in SUBSET Packets
    OBVIOUS
  <2> HIDE DEF over
  <2> QED
    BY <2>1, <2>2, EntryTypes
<1>4. one \in Entries
  BY <1>1, EntryTypes
<1>5. /\ r.action # "limit" => RuleVerdict(r, match) = <<one>>
      /\ r.action = "limit" => RuleVerdict(r, match) = <<lim, acc>>
  BY <1>1 DEF RuleVerdict, CompileLimit
<1>6. /\ r.action = "allow" => one = Accept(match)
      /\ r.action = "deny" => one = Drop(match)
      /\ r.action = "reject" => one = Reject(match)
  OBVIOUS
<1>7. Pass(r, match) = H \o RuleVerdict(r, match)
  BY DEF Pass
<1> HIDE DEF log, lim, acc, one, over
<1>8. /\ H \in Seq(Entries) /\ Len(H) = h /\ h \in {0, 1}
      /\ h = 1 => H[1] = log
  <2>1. CASE r.log = ""
    <3>1. H = << >> /\ h = 0
      BY <2>1
    <3> HIDE DEF H, h
    <3> QED
      BY <3>1
  <2>2. CASE r.log # ""
    <3>1. H = <<log>> /\ h = 1
      BY <2>2
    <3>2. <<log>> \in Seq(Entries) /\ Len(<<log>>) = 1 /\ <<log>>[1] = log
      BY <1>2
    <3> HIDE DEF H, h
    <3> QED
      BY <3>1, <3>2
  <2> QED
    BY <2>1, <2>2
<1> HIDE DEF H, h
<1> DEFINE L == Pass(r, match)
<1>9. /\ L \in Seq(Entries)
      /\ Len(L) = h + (IF r.action = "limit" THEN 2 ELSE 1)
      /\ h = 1 => L[1] = log
      /\ r.action # "limit" => L[h + 1] = one
      /\ r.action = "limit" => L[h + 1] = lim /\ L[h + 2] = acc
  <2>1. CASE r.action # "limit"
    <3>1. L = H \o <<one>>
      BY <1>5, <1>7, <2>1
    <3>2. /\ H \o <<one>> \in Seq(Entries) /\ Len(H \o <<one>>) = h + 1
          /\ h = 1 => (H \o <<one>>)[1] = log
          /\ (H \o <<one>>)[h + 1] = one
      BY <1>4, <1>8
    <3> HIDE DEF L
    <3> QED
      BY <2>1, <3>1, <3>2
  <2>2. CASE r.action = "limit"
    <3>1. L = H \o <<lim, acc>>
      BY <1>5, <1>7, <2>2
    <3>2. /\ H \o <<lim, acc>> \in Seq(Entries) /\ Len(H \o <<lim, acc>>) = h + 2
          /\ h = 1 => (H \o <<lim, acc>>)[1] = log
          /\ (H \o <<lim, acc>>)[h + 1] = lim /\ (H \o <<lim, acc>>)[h + 2] = acc
      BY <1>3, <1>8
    <3> HIDE DEF L
    <3> QED
      BY <2>2, <3>1, <3>2
  <2> QED
    BY <2>1, <2>2
<1> HIDE DEF L
<1>10. /\ L \in Seq(Entries)
       /\ Len(L) = h + (IF r.action = "limit" THEN 2 ELSE 1)
       /\ h = 1 => L[1] = log
       /\ r.action = "allow" => L[h + 1] = Accept(match)
       /\ r.action = "deny" => L[h + 1] = Drop(match)
       /\ r.action = "reject" => L[h + 1] = Reject(match)
       /\ r.action = "limit" => L[h + 1] = lim /\ L[h + 2] = acc
  BY <1>6, <1>9
<1> QED
  BY <1>10 DEF L, h, log, lim, acc, over

\* What a rule compiled for one protocol does to a packet that it matches.
LEMMA PassActs ==
  ASSUME NEW r \in Rules, NEW match \in SUBSET Packets, NEW p \in Packets
  PROVE  LET L == Pass(r, match) IN
         /\ \A b \in 1 .. Len(L) :
              /\ L[b].on \subseteq match
              /\ L[b].do \in {"accept", "drop", "reject", "jump"}
              /\ L[b].do = "jump" => L[b].to \in Chains
              /\ L[b].on = match \/ ~Soft(L[b])
              /\ Soft(L[b]) => L[b].to = <<"user-logging", r.dir>>
              /\ p \in L[b].on =>
                   \/ Soft(L[b])
                   \/ Settles(L[b], r, p)
                   \/ \E a \in 1 .. b - 1 : p \in L[a].on /\ ~Soft(L[a])
         /\ p \in match => \E b \in 1 .. Len(L) : p \in L[b].on /\ ~Soft(L[b])
<1> DEFINE L == Pass(r, match)
           h == IF r.log = "" THEN 0 ELSE 1
           over == match \cap CtState({"new"}) \cap {q \in Packets : q.over}
           cl == <<"user-logging", r.dir>>
           cr == <<"user-limit", "any">>
           ca == <<"user-limit-accept", "any">>
<1>1. /\ L \in Seq(Entries) /\ h \in {0, 1}
      /\ Len(L) = h + (IF r.action = "limit" THEN 2 ELSE 1)
      /\ h = 1 => L[1] = Jump(match, cl)
      /\ r.action = "allow" => L[h + 1] = Accept(match)
      /\ r.action = "deny" => L[h + 1] = Drop(match)
      /\ r.action = "reject" => L[h + 1] = Reject(match)
      /\ r.action = "limit" => L[h + 1] = Jump(over, cr) /\ L[h + 2] = Jump(match, ca)
  BY PassIs
<1>2. r.action \in {"allow", "deny", "reject", "limit"} /\ r.dir \in Directions
  BY DEF Rules
<1>3. over \subseteq match /\ (p \in match => (p \in over <=> p.ct = "new" /\ p.over))
  BY DEF CtState
<1>4. cl \in Chains /\ cr \in Chains /\ ca \in Chains
  BY <1>2, ChainNames
<1>5. cl[1] = "user-logging" /\ cr[1] # "user-logging" /\ ca[1] # "user-logging"
  OBVIOUS
<1>6. /\ r.action = "allow" => RuleDecides(r, p) = "accept"
      /\ r.action = "deny" => RuleDecides(r, p) = "drop"
      /\ r.action = "reject" => RuleDecides(r, p) = "reject"
      /\ r.action = "limit" /\ p.ct = "new" /\ p.over => RuleDecides(r, p) = "reject"
      /\ r.action = "limit" /\ ~(p.ct = "new" /\ p.over) => RuleDecides(r, p) = "accept"
  BY DEF RuleDecides
<1> HIDE DEF L, h, over, cl, cr, ca
<1>7. /\ h = 1 => L[1].on = match /\ L[1].do = "jump" /\ L[1].to = cl
      /\ r.action = "allow" => L[h + 1].on = match /\ L[h + 1].do = "accept"
      /\ r.action = "deny" => L[h + 1].on = match /\ L[h + 1].do = "drop"
      /\ r.action = "reject" => L[h + 1].on = match /\ L[h + 1].do = "reject"
      /\ r.action = "limit" =>
           /\ L[h + 1].on = over /\ L[h + 1].do = "jump" /\ L[h + 1].to = cr
           /\ L[h + 2].on = match /\ L[h + 2].do = "jump" /\ L[h + 2].to = ca
  <2>1. /\ \A S : Accept(S).on = S /\ Accept(S).do = "accept"
        /\ \A S : Drop(S).on = S /\ Drop(S).do = "drop"
        /\ \A S : Reject(S).on = S /\ Reject(S).do = "reject"
        /\ \A S, x : Jump(S, x).on = S /\ Jump(S, x).do = "jump" /\ Jump(S, x).to = x
    BY Fields
  <2> QED
    BY <1>1, <2>1
<1>8. /\ h = 1 => Soft(L[1])
      /\ ~Soft(L[h + 1])
      /\ r.action = "limit" => ~Soft(L[h + 2])
  BY <1>2, <1>5, <1>7 DEF Soft
<1>9. Len(L) \in Nat /\ h + 1 \in 1 .. Len(L) /\ (r.action = "limit" => h + 2 \in 1 .. Len(L))
  BY <1>1
<1>10. \A b \in 1 .. Len(L) : \/ h = 1 /\ b = 1
                              \/ b = h + 1
                              \/ r.action = "limit" /\ b = h + 2
  BY <1>1
<1>11. ASSUME NEW b \in 1 .. Len(L)
       PROVE  /\ L[b].on \subseteq match
              /\ L[b].do \in {"accept", "drop", "reject", "jump"}
              /\ L[b].do = "jump" => L[b].to \in Chains
              /\ L[b].on = match \/ ~Soft(L[b])
              /\ Soft(L[b]) => L[b].to = cl
              /\ p \in L[b].on =>
                   \/ Soft(L[b])
                   \/ Settles(L[b], r, p)
                   \/ \E a \in 1 .. b - 1 : p \in L[a].on /\ ~Soft(L[a])
  <2>1. CASE h = 1 /\ b = 1
    BY <1>4, <1>7, <1>8, <2>1
  <2>2. CASE b = h + 1
    <3>1. p \in L[b].on => Settles(L[b], r, p)
      BY <1>2, <1>3, <1>6, <1>7, <2>2 DEF Settles, cr, ca
    <3> QED
      BY <1>2, <1>3, <1>4, <1>7, <1>8, <2>2, <3>1
  <2>3. CASE r.action = "limit" /\ b = h + 2
    <3>1. CASE p \in over
      <4>1. h + 1 \in 1 .. b - 1
        BY <1>1, <2>3
      <4>2. p \in L[h + 1].on /\ ~Soft(L[h + 1])
        BY <1>7, <1>8, <2>3, <3>1
      <4> QED
        BY <1>4, <1>7, <1>8, <2>3, <4>1, <4>2
    <3>2. CASE p \notin over
      <4>1. p \in L[b].on => Settles(L[b], r, p)
        BY <1>3, <1>6, <1>7, <2>3, <3>2 DEF Settles, cr, ca
      <4> QED
        BY <1>4, <1>7, <1>8, <2>3, <4>1
    <3> QED
      BY <3>1, <3>2
  <2> QED
    BY <1>10, <2>1, <2>2, <2>3
<1>12. p \in match => \E b \in 1 .. Len(L) : p \in L[b].on /\ ~Soft(L[b])
  <2>1. CASE r.action = "limit"
    BY <1>7, <1>8, <1>9, <2>1
  <2>2. CASE r.action # "limit"
    BY <1>2, <1>7, <1>8, <1>9, <2>2
  <2> QED
    BY <2>1, <2>2
<1> QED
  BY <1>11, <1>12 DEF L, cl

\* What a rule matches are packets.
LEMMA RuleMatchType ==
  ASSUME NEW s, NEW r, NEW v, NEW v6
  PROVE  RuleMatch(s, r, v, v6) \in SUBSET Packets
<1>1. Nfproto(v6) \in SUBSET Packets
  BY MatchTypes
<1> QED
  BY <1>1 DEF RuleMatch

\* The passes of a rule, one after the other.
Passes(s, r, v6, seqs) ==
    /\ seqs \in Seq(Seq(Entries)) /\ Len(seqs) = Len(ProtoVariants(r))
    /\ \A i \in 1 .. Len(seqs) : seqs[i] = Pass(r, RuleMatch(s, r, ProtoVariants(r)[i], v6))

\* A rule is compiled to its passes.
LEMMA BlockIs ==
  ASSUME NEW s, NEW r \in Rules, NEW v6
  PROVE  LET B == CompileRule(s, r, v6) IN
         /\ B \in Seq(Entries)
         /\ \E seqs, own, pos : Passes(s, r, v6, seqs) /\ Comes(B, seqs, Len(seqs), own, pos)
<1> DEFINE V == ProtoVariants(r)
           B == CompileRule(s, r, v6)
           P(i) == Pass(r, RuleMatch(s, r, V[i], v6))
           n == Len(V)
           seqs == [i \in DOMAIN V |-> P(i)]
<1>1. n \in Nat /\ DOMAIN V = 1 .. n
  <2>1. V \in Seq(ToSet(V))
    BY ProtosAre
  <2> HIDE DEF V
  <2> QED
    BY <2>1
<1>2. \A i : P(i) \in Seq(Entries)
  BY RuleMatchType, PassIs
<1>3. B = FlattenSeq(seqs)
  BY DEF CompileRule, Pass
<1> HIDE DEF P, V, B
<1>4. seqs \in Seq(Seq(Entries)) /\ Len(seqs) = n /\ \A i \in 1 .. n : seqs[i] = P(i)
  BY <1>1, <1>2
<1> HIDE DEF seqs
<1>5. B \in Seq(Entries) /\ \E own, pos : Comes(B, seqs, Len(seqs), own, pos)
  BY <1>3, <1>4, FlattenIndex
<1>6. Passes(s, r, v6, seqs)
  BY <1>4 DEF Passes, P, V
<1>7. \E q, own, pos : Passes(s, r, v6, q) /\ Comes(B, q, Len(q), own, pos)
  BY <1>5, <1>6
<1> QED
  BY <1>5, <1>7 DEF B

\* The rules of one list that are compiled into the chain of a direction.
Part(rules, v6, d) ==
    FlattenSeq([i \in DOMAIN rules |->
        IF Active(rules[i]) /\ rules[i].dir = d
        THEN <<[rule |-> rules[i], v6 |-> v6]>> ELSE <<>>])

\* Where they are in their list.
Selects(rules, v6, d, P, q) ==
    /\ q \in [1 .. Len(P) -> 1 .. Len(rules)]
    /\ \A i \in 1 .. Len(P) : /\ P[i] = [rule |-> rules[q[i]], v6 |-> v6]
                              /\ Active(rules[q[i]]) /\ rules[q[i]].dir = d
    /\ \A j \in 1 .. Len(rules) :
         Active(rules[j]) /\ rules[j].dir = d => \E i \in 1 .. Len(P) : q[i] = j
    /\ \A k, l \in 1 .. Len(P) : k < l => q[k] < q[l]

\* The rules of a list that are compiled keep their order in the chain.
LEMMA PartIs ==
  ASSUME NEW rules \in Seq(Rules), NEW v6 \in BOOLEAN, NEW d
  PROVE  /\ Part(rules, v6, d) \in Seq([rule : Rules, v6 : BOOLEAN])
         /\ \E q : Selects(rules, v6, d, Part(rules, v6, d), q)
<1> DEFINE S == [rule : Rules, v6 : BOOLEAN]
           n == Len(rules)
           e(i) == [rule |-> rules[i], v6 |-> v6]
           used(i) == Active(rules[i]) /\ rules[i].dir = d
           seqs == [i \in DOMAIN rules |-> IF used(i) THEN <<e(i)>> ELSE << >>]
           P == Part(rules, v6, d)
<1>1. n \in Nat /\ DOMAIN rules = 1 .. n
  OBVIOUS
<1>2. P = FlattenSeq(seqs)
  BY DEF Part
<1>3. \A i \in 1 .. n : e(i) \in S
  BY <1>1
<1> HIDE DEF P, S, e, n
<1>4. \A i \in 1 .. n : /\ used(i) => seqs[i] = <<e(i)>>
                        /\ ~used(i) => seqs[i] = << >>
  BY <1>1
<1>5. \A x \in S : <<x>> \in Seq(S) /\ Len(<<x>>) = 1 /\ <<x>>[1] = x
  OBVIOUS
<1>6. << >> \in Seq(S) /\ Len(<< >>) = 0
  OBVIOUS
<1> HIDE DEF used
<1>7. \A i \in 1 .. n : /\ seqs[i] \in Seq(S)
                        /\ used(i) => Len(seqs[i]) = 1 /\ seqs[i][1] = e(i)
                        /\ ~used(i) => Len(seqs[i]) = 0
  <2> SUFFICES ASSUME NEW i \in 1 .. n
               PROVE  /\ seqs[i] \in Seq(S)
                      /\ used(i) => Len(seqs[i]) = 1 /\ seqs[i][1] = e(i)
                      /\ ~used(i) => Len(seqs[i]) = 0
    OBVIOUS
  <2> HIDE DEF seqs
  <2>1. CASE used(i)
    BY <1>3, <1>4, <1>5, <2>1
  <2>2. CASE ~used(i)
    BY <1>4, <1>6, <2>2
  <2> QED
    BY <2>1, <2>2
<1>8. seqs \in Seq(Seq(S)) /\ Len(seqs) = n
  <2>1. DOMAIN seqs = 1 .. n
    BY <1>1
  <2>2. seqs = [i \in 1 .. n |-> seqs[i]]
    BY <1>1
  <2> HIDE DEF seqs
  <2> QED
    BY <1>1, <1>7, <2>1, <2>2
<1> HIDE DEF seqs
<1>9. P \in Seq(S) /\ \E own, pos : Comes(P, seqs, n, own, pos)
  BY <1>2, <1>8, FlattenIndex
<1>10. PICK own, pos : Comes(P, seqs, n, own, pos)
  BY <1>9
<1>11. /\ own \in [1 .. Len(P) -> 1 .. n]
       /\ \A k \in 1 .. Len(P) : pos[k] \in 1 .. Len(seqs[own[k]]) /\ P[k] = seqs[own[k]][pos[k]]
       /\ \A i \in 1 .. n : \A j \in 1 .. Len(seqs[i]) :
            \E k \in 1 .. Len(P) : own[k] = i /\ pos[k] = j
       /\ \A k, l \in 1 .. Len(P) :
            k < l => own[k] < own[l] \/ (own[k] = own[l] /\ pos[k] < pos[l])
  BY <1>10 DEF Comes
<1>12. \A k \in 1 .. Len(P) : used(own[k]) /\ pos[k] = 1 /\ P[k] = e(own[k])
  <2> SUFFICES ASSUME NEW k \in 1 .. Len(P)
               PROVE  used(own[k]) /\ pos[k] = 1 /\ P[k] = e(own[k])
    OBVIOUS
  <2>1. own[k] \in 1 .. n /\ pos[k] \in 1 .. Len(seqs[own[k]]) /\ P[k] = seqs[own[k]][pos[k]]
    BY <1>11
  <2>2. used(own[k])
    <3>1. CASE ~used(own[k])
      <4>1. Len(seqs[own[k]]) = 0
        BY <1>7, <2>1, <3>1
      <4>2. 1 .. 0 = {}
        OBVIOUS
      <4> QED
        BY <2>1, <4>1, <4>2
    <3> QED
      BY <3>1
  <2>3. Len(seqs[own[k]]) = 1 /\ seqs[own[k]][1] = e(own[k])
    BY <1>7, <2>1, <2>2
  <2>4. pos[k] = 1
    BY <2>1, <2>3
  <2> QED
    BY <2>1, <2>2, <2>3, <2>4
<1>13. \A k, l \in 1 .. Len(P) : k < l => own[k] < own[l]
  <2> SUFFICES ASSUME NEW k \in 1 .. Len(P), NEW l \in 1 .. Len(P), k < l
               PROVE  own[k] < own[l]
    OBVIOUS
  <2>1. pos[k] = 1 /\ pos[l] = 1
    BY <1>12
  <2>2. own[k] < own[l] \/ (own[k] = own[l] /\ pos[k] < pos[l])
    BY <1>11
  <2> QED
    BY <2>1, <2>2
<1>14. \A j \in 1 .. n : used(j) => \E i \in 1 .. Len(P) : own[i] = j
  <2> SUFFICES ASSUME NEW j \in 1 .. n, used(j)
               PROVE  \E i \in 1 .. Len(P) : own[i] = j
    OBVIOUS
  <2>1. 1 \in 1 .. Len(seqs[j])
    BY <1>7
  <2> QED
    BY <1>11, <2>1
<1>15. Selects(rules, v6, d, P, own)
  BY <1>11, <1>12, <1>13, <1>14 DEF Selects, used, e, n
<1> QED
  BY <1>9, <1>15 DEF P, S

\* Rules that log and return, and nothing else.
Logs(L) == L \in Seq(Entries) /\ \A k \in 1 .. Len(L) : L[k].do \in {"log", "return"}

\* Sequences of rules that only log are flattened to one.
LEMMA FlatLogs ==
  ASSUME NEW seqs \in Seq(Seq(Entries)), \A i \in 1 .. Len(seqs) : Logs(seqs[i])
  PROVE  Logs(FlattenSeq(seqs))
<1> DEFINE R == FlattenSeq(seqs)
<1>1. R \in Seq(Entries) /\ \E own, pos : Comes(R, seqs, Len(seqs), own, pos)
  BY FlattenIndex
<1> HIDE DEF R
<1>2. PICK own, pos : Comes(R, seqs, Len(seqs), own, pos)
  BY <1>1
<1>3. ASSUME NEW k \in 1 .. Len(R)
      PROVE  R[k].do \in {"log", "return"}
  <2>1. own[k] \in 1 .. Len(seqs) /\ pos[k] \in 1 .. Len(seqs[own[k]])
        /\ R[k] = seqs[own[k]][pos[k]]
    BY <1>2 DEF Comes
  <2> QED
    BY <2>1 DEF Logs
<1>4. Logs(R)
  BY <1>1, <1>3 DEF Logs
<1> QED
  BY <1>4 DEF R

\* A rule's part of the logging chain.
LEMMA RuleLogs ==
  ASSUME NEW s, NEW r, NEW v6
  PROVE  Logs(CompileRuleLog(s, r, v6))
<1> DEFINE V == ProtoVariants(r)
           n == Len(V)
           logged(i) == Logged(r, RuleMatch(s, r, V[i], v6))
           P(i) == <<Log(logged(i) \cap Limit3), Return(logged(i))>>
           seqs == [i \in DOMAIN V |-> P(i)]
<1>1. n \in Nat /\ DOMAIN V = 1 .. n
  <2>1. V \in Seq(ToSet(V))
    BY ProtosAre
  <2> HIDE DEF V
  <2> QED
    BY <2>1
<1>2. \A i : logged(i) \in SUBSET Packets
  <2> SUFFICES ASSUME NEW i PROVE logged(i) \in SUBSET Packets
    OBVIOUS
  <2>1. RuleMatch(s, r, V[i], v6) \in SUBSET Packets
    BY RuleMatchType
  <2> QED
    BY <2>1 DEF Logged
<1>3. CompileRuleLog(s, r, v6) = IF r.log = "" THEN << >> ELSE FlattenSeq(seqs)
  BY DEF CompileRuleLog
<1> HIDE DEF V, logged
<1>4. \A i : Logs(P(i))
  <2> SUFFICES ASSUME NEW i PROVE Logs(P(i))
    OBVIOUS
  <2> DEFINE a == Log(logged(i) \cap Limit3)
             b == Return(logged(i))
  <2>1. a \in Entries /\ b \in Entries
    BY <1>2, EntryTypes
  <2>2. a.do = "log" /\ b.do = "return"
    BY Fields
  <2>3. P(i) = <<a, b>>
    OBVIOUS
  <2> HIDE DEF P, a, b
  <2>4. <<a, b>> \in Seq(Entries) /\ Len(<<a, b>>) = 2 /\ <<a, b>>[1] = a /\ <<a, b>>[2] = b
    BY <2>1
  <2>5. \A k \in 1 .. 2 : k = 1 \/ k = 2
    OBVIOUS
  <2> QED
    BY <2>2, <2>3, <2>4, <2>5 DEF Logs
<1> HIDE DEF P
<1>5. seqs \in Seq(Seq(Entries)) /\ Len(seqs) = n /\ \A i \in 1 .. n : seqs[i] = P(i)
  BY <1>1, <1>4 DEF Logs
<1> HIDE DEF seqs
<1>6. Logs(FlattenSeq(seqs))
  BY <1>4, <1>5, FlatLogs
<1>7. Logs(<< >>)
  BY DEF Logs
<1> QED
  BY <1>3, <1>6, <1>7

\* What is in one of two lists is in them joined.
LEMMA ConcatRange ==
  ASSUME NEW S, NEW a \in Seq(S), NEW b \in Seq(S)
  PROVE  ToSet(a) \cup ToSet(b) \subseteq ToSet(a \o b)
<1>1. /\ Len(a) \in Nat /\ Len(b) \in Nat /\ Len(a \o b) = Len(a) + Len(b)
      /\ DOMAIN a = 1 .. Len(a) /\ DOMAIN b = 1 .. Len(b) /\ DOMAIN (a \o b) = 1 .. Len(a \o b)
      /\ \A k \in 1 .. Len(a) : (a \o b)[k] = a[k]
      /\ \A k \in 1 .. Len(b) : (a \o b)[Len(a) + k] = b[k]
  BY ConcatProperties
<1>2. \A k \in 1 .. Len(a) : a[k] \in ToSet(a \o b)
  <2> SUFFICES ASSUME NEW k \in 1 .. Len(a) PROVE a[k] \in ToSet(a \o b)
    OBVIOUS
  <2>1. k \in DOMAIN (a \o b) /\ (a \o b)[k] = a[k]
    BY <1>1
  <2> QED
    BY <2>1 DEF ToSet
<1>3. \A k \in 1 .. Len(b) : b[k] \in ToSet(a \o b)
  <2> SUFFICES ASSUME NEW k \in 1 .. Len(b) PROVE b[k] \in ToSet(a \o b)
    OBVIOUS
  <2>1. Len(a) + k \in DOMAIN (a \o b) /\ (a \o b)[Len(a) + k] = b[k]
    BY <1>1
  <2> QED
    BY <2>1 DEF ToSet
<1> QED
  BY <1>1, <1>2, <1>3 DEF ToSet

-----------------------------------------------------------------------------
(* What it means that a chain does what is called for.                     *)

\* A chain does what Judge calls for, to a packet that is in it.
Obeys(s, p, c) ==
  LET R == Chain(s, c) IN
  Within(s, p, c) =>
    /\ R \in Seq(Entries)
    /\ \A i \in 1 .. Len(R) :
         p \in R[i].on /\ Through(s, p, c, i) =>
           /\ R[i].do \in {"accept", "drop", "reject"} => R[i].do = Judge(s, p)
           /\ R[i].do = "jump" => R[i].to \in Chains /\ Within(s, p, R[i].to)
           /\ R[i].do = "return" => c[1] # "base" /\ LetGo(s, p, c)
    /\ Through(s, p, c, Len(R) + 1) =>
         IF c[1] = "base" THEN ChainPolicy(s, p.dir) = Judge(s, p) ELSE LetGo(s, p, c)

\* What a packet is that is in a chain of that name.
LEMMA WithinIs ==
  ASSUME NEW s, NEW p, NEW d
  PROVE  /\ Within(s, p, <<"base", d>>) <=> d = p.dir
         /\ Within(s, p, <<"before-logging", d>>) <=> d = p.dir /\ LetOn(s, p)
         /\ Within(s, p, <<"before", d>>) <=> d = p.dir /\ LetOn(s, p)
         /\ Within(s, p, <<"user", d>>) <=> d = p.dir /\ PastBefore(s, p)
         /\ Within(s, p, <<"after", d>>) <=> d = p.dir /\ PastBefore(s, p) /\ FirstMatch(s, p) = 0
         /\ Within(s, p, <<"after-logging", d>>) <=> d = p.dir /\ PastBefore(s, p) /\ FirstMatch(s, p) = 0
         /\ Within(s, p, <<"reject", d>>) <=> d = p.dir /\ PastBefore(s, p) /\ FirstMatch(s, p) = 0
         /\ Within(s, p, <<"skip-to-policy", d>>) <=> d = p.dir /\ PastBefore(s, p) /\ FirstMatch(s, p) = 0
         /\ Within(s, p, <<"track", d>>) <=>
              d = p.dir /\ PastBefore(s, p) /\ FirstMatch(s, p) = 0 /\ Policy(s, p.dir) # "reject"
         /\ Within(s, p, <<"not-local", d>>) <=> p.dir = "in" /\ ~p.v6 /\ Undecided(s, p)
         /\ Within(s, p, <<"user-limit", d>>) <=> Judge(s, p) = "reject"
         /\ Within(s, p, <<"user-limit-accept", d>>) <=> Judge(s, p) = "accept"
         /\ Within(s, p, <<"logging-deny", d>>)
         /\ Within(s, p, <<"user-logging", d>>)
         /\ Within(s, p, <<"user-egress", d>>)
BY DEF Within

\* What a packet is that a chain of that name let go.
LEMMA LetGoIs ==
  ASSUME NEW s, NEW p, NEW d
  PROVE  /\ LetGo(s, p, <<"before", d>>) <=> PastBefore(s, p)
         /\ LetGo(s, p, <<"user", d>>) <=> FirstMatch(s, p) = 0
         /\ LetGo(s, p, <<"not-local", d>>) <=> ~Elsewhere(p)
         /\ LetGo(s, p, <<"reject", d>>) <=> Policy(s, p.dir) # "reject"
         /\ ~LetGo(s, p, <<"skip-to-policy", d>>)
         /\ ~LetGo(s, p, <<"user-limit", d>>)
         /\ ~LetGo(s, p, <<"user-limit-accept", d>>)
         /\ LetGo(s, p, <<"before-logging", d>>)
         /\ LetGo(s, p, <<"after", d>>)
         /\ LetGo(s, p, <<"after-logging", d>>)
         /\ LetGo(s, p, <<"track", d>>)
         /\ LetGo(s, p, <<"logging-deny", d>>)
         /\ LetGo(s, p, <<"user-logging", d>>)
         /\ LetGo(s, p, <<"user-egress", d>>)
BY DEF LetGo

\* What a packet is that meets none of the rules before the next.
LEMMA Passed ==
  ASSUME NEW s, NEW p, NEW c, NEW n \in Int, Through(s, p, c, n),
         NEW j \in 1 .. n - 1, p \in Chain(s, c)[j].on
  PROVE  \/ Chain(s, c)[j].do = "log"
         \/ Chain(s, c)[j].do = "jump" /\ LetGo(s, p, Chain(s, c)[j].to)
BY DEF Through

\* The cases of Judge, in their order.
LEMMA JudgeCases ==
  ASSUME NEW s \in States, NEW p \in Packets
  PROVE  /\ s.panic => Judge(s, p) = "drop"
         /\ ~s.panic /\ p \in Loopback(p.dir) => Judge(s, p) = "accept"
         /\ ~s.panic /\ p \notin Loopback(p.dir) /\ Forbidden(s, p) => Judge(s, p) = "drop"
         /\ ~s.panic /\ p \notin Loopback(p.dir) /\ ~Forbidden(s, p) /\ Open(p)
              => Judge(s, p) = "accept"
         /\ ~s.panic /\ p \notin Loopback(p.dir) /\ ~Forbidden(s, p) /\ ~Open(p)
              /\ p.dir = "in" /\ p.ct = "invalid" => Judge(s, p) = "drop"
         /\ ~s.panic /\ p \notin Loopback(p.dir) /\ ~Forbidden(s, p) /\ ~Open(p)
              /\ ~(p.dir = "in" /\ p.ct = "invalid") /\ Needed(p) => Judge(s, p) = "accept"
         /\ Undecided(s, p) /\ Elsewhere(p) => Judge(s, p) = "drop"
         /\ Undecided(s, p) /\ ~Elsewhere(p) /\ p.dir = "in" /\ p \in Discovery
              => Judge(s, p) = "accept"
         /\ PastBefore(s, p) /\ FirstMatch(s, p) # 0
              => Judge(s, p) = RuleDecides(RulesFor(s, p)[FirstMatch(s, p)], p)
         /\ PastBefore(s, p) /\ FirstMatch(s, p) = 0 => Judge(s, p) = PolicyDecides(s, p)
BY DEF Judge, Undecided, PastBefore

-----------------------------------------------------------------------------
(* The chains before the users' rules.                                     *)

\* The base chains do what is called for.
LEMMA ObeysBase ==
  ASSUME NEW s \in States, NEW p \in Packets, NEW d
  PROVE  Obeys(s, p, <<"base", d>>)
<1> DEFINE c == <<"base", d>>
           R == Base(s, d)
           o == IF IPv6On(s) THEN 0 ELSE 2
           c1 == <<"before-logging", d>>
           c2 == <<"before", d>>
           c3 == <<"user", d>>
           c4 == <<"after", d>>
           c5 == <<"after-logging", d>>
           c6 == <<"reject", d>>
           c7 == <<"track", d>>
<1>0. Chain(s, c) = R /\ c[1] = "base"
  BY ChainIs
<1> SUFFICES ASSUME Within(s, p, c) PROVE Obeys(s, p, c)
  BY DEF Obeys
<1>1. d = p.dir /\ d \in Directions
  BY WithinIs, PacketsAssumption DEF PacketsAssumption
<1>2. CASE s.panic
  <2>1. R = << >>
    BY <1>2 DEF Base
  <2>2. ChainPolicy(s, p.dir) = Judge(s, p)
    BY <1>2, JudgeCases DEF ChainPolicy, Policy
  <2> HIDE DEF c, R
  <2> QED
    BY <1>0, <2>1, <2>2 DEF Obeys
<1>3. CASE ~s.panic
  <2>1. /\ Within(s, p, c1) <=> LetOn(s, p)
        /\ Within(s, p, c2) <=> LetOn(s, p)
        /\ Within(s, p, c3) <=> PastBefore(s, p)
        /\ Within(s, p, c4) <=> PastBefore(s, p) /\ FirstMatch(s, p) = 0
        /\ Within(s, p, c5) <=> PastBefore(s, p) /\ FirstMatch(s, p) = 0
        /\ Within(s, p, c6) <=> PastBefore(s, p) /\ FirstMatch(s, p) = 0
        /\ Within(s, p, c7) <=> PastBefore(s, p) /\ FirstMatch(s, p) = 0 /\ Policy(s, d) # "reject"
    BY <1>1, WithinIs
  <2>2. /\ LetGo(s, p, c2) <=> PastBefore(s, p)
        /\ LetGo(s, p, c3) <=> FirstMatch(s, p) = 0
        /\ LetGo(s, p, c6) <=> Policy(s, d) # "reject"
    BY <1>1, LetGoIs
  <2>3. {c1, c2, c3, c4, c5, c6, c7} \subseteq Chains
    BY <1>1 DEF Chains
  <2>4. /\ R \in Seq(Entries) /\ Len(R) = o + 7
        /\ R[o + 1] = Jump(Packets, c1) /\ R[o + 2] = Jump(Packets, c2)
        /\ R[o + 3] = Jump(Packets, c3) /\ R[o + 4] = Jump(Packets, c4)
        /\ R[o + 5] = Jump(Packets, c5) /\ R[o + 6] = Jump(Packets, c6)
        /\ R[o + 7] = Jump(Packets, c7)
    <3>1. CASE IPv6On(s)
      <4>1. o + 1 = 1 /\ o + 2 = 2 /\ o + 3 = 3 /\ o + 4 = 4 /\ o + 5 = 5 /\ o + 6 = 6 /\ o + 7 = 7
        BY <3>1
      <4>2. /\ R \in Seq(Entries) /\ Len(R) = 7
            /\ R[1] = Jump(Packets, c1) /\ R[2] = Jump(Packets, c2) /\ R[3] = Jump(Packets, c3)
            /\ R[4] = Jump(Packets, c4) /\ R[5] = Jump(Packets, c5) /\ R[6] = Jump(Packets, c6)
            /\ R[7] = Jump(Packets, c7)
        BY <1>1, <1>3, <3>1, BaseOn
      <4> HIDE DEF o, R, c1, c2, c3, c4, c5, c6, c7
      <4> QED
        BY <4>1, <4>2
    <3>2. CASE ~IPv6On(s)
      <4>1. o + 1 = 3 /\ o + 2 = 4 /\ o + 3 = 5 /\ o + 4 = 6 /\ o + 5 = 7 /\ o + 6 = 8 /\ o + 7 = 9
        BY <3>2
      <4>2. /\ R \in Seq(Entries) /\ Len(R) = 9
            /\ R[3] = Jump(Packets, c1) /\ R[4] = Jump(Packets, c2) /\ R[5] = Jump(Packets, c3)
            /\ R[6] = Jump(Packets, c4) /\ R[7] = Jump(Packets, c5) /\ R[8] = Jump(Packets, c6)
            /\ R[9] = Jump(Packets, c7)
        BY <1>1, <1>3, <3>2, BaseOff
      <4> HIDE DEF o, R, c1, c2, c3, c4, c5, c6, c7
      <4> QED
        BY <4>1, <4>2
    <3> QED
      BY <3>1, <3>2
  <2>5. ~IPv6On(s) => /\ R[1] = Accept(Nfproto(TRUE) \cap Loopback(d))
                      /\ R[2] = Drop(Nfproto(TRUE))
    BY <1>1, <1>3, BaseOff
  <2>6. o \in {0, 2} /\ (o = 2 <=> ~IPv6On(s))
    OBVIOUS
  <2> HIDE DEF o, R, c1, c2, c3, c4, c5, c6, c7, c
  <2>7. /\ \A k \in 1 .. 7 : R[o + k].on = Packets /\ R[o + k].do = "jump"
        /\ R[o + 1].to = c1 /\ R[o + 2].to = c2 /\ R[o + 3].to = c3 /\ R[o + 4].to = c4
        /\ R[o + 5].to = c5 /\ R[o + 6].to = c6 /\ R[o + 7].to = c7
    <3>1. \A x : /\ Jump(Packets, x).on = Packets /\ Jump(Packets, x).do = "jump"
                 /\ Jump(Packets, x).to = x
      BY Fields
    <3>2. \A k \in 1 .. 7 : k = 1 \/ k = 2 \/ k = 3 \/ k = 4 \/ k = 5 \/ k = 6 \/ k = 7
      OBVIOUS
    <3> QED
      BY <2>4, <3>1, <3>2
  <2>8. o = 2 => /\ R[1].do = "accept" /\ (p \in R[1].on <=> p.v6 /\ p \in Loopback(d))
                 /\ R[2].do = "drop" /\ (p \in R[2].on <=> p.v6)
    <3>1. p \in Nfproto(TRUE) <=> p.v6
      BY PacketsAssumption DEF Nfproto, PacketsAssumption
    <3>2. /\ \A S : Accept(S).on = S /\ Accept(S).do = "accept"
          /\ \A S : Drop(S).on = S /\ Drop(S).do = "drop"
      BY Fields
    <3>3. p \in Nfproto(TRUE) \cap Loopback(d) <=> p.v6 /\ p \in Loopback(d)
      BY <3>1
    <3> DEFINE X == Nfproto(TRUE) \cap Loopback(d)
               Y == Nfproto(TRUE)
    <3>4. o = 2 => R[1] = Accept(X) /\ R[2] = Drop(Y)
      BY <2>5, <2>6
    <3> HIDE DEF X, Y
    <3>5. o = 2 => /\ R[1].do = "accept" /\ R[1].on = X
                   /\ R[2].do = "drop" /\ R[2].on = Y
      BY <3>2, <3>4
    <3> QED
      BY <3>1, <3>3, <3>5 DEF X, Y
  <2>9. /\ o = 0 => LetOn(s, p)
        /\ ~p.v6 => LetOn(s, p)
        /\ o = 2 /\ p.v6 /\ p \in Loopback(d) => Judge(s, p) = "accept"
        /\ o = 2 /\ p.v6 /\ p \notin Loopback(d) => Judge(s, p) = "drop"
    BY <1>1, <1>3, <2>6, JudgeCases DEF LetOn, Forbidden
  <2>10. ASSUME NEW n \in 1 .. o + 8, Through(s, p, c, n)
         PROVE  /\ o = 2 /\ n >= 2 => ~(p.v6 /\ p \in Loopback(d))
                /\ n > o => LetOn(s, p)
                /\ n > o + 2 => PastBefore(s, p)
                /\ n > o + 3 => FirstMatch(s, p) = 0
                /\ n > o + 6 => Policy(s, d) # "reject"
    <3>1. ASSUME NEW j \in 1 .. n - 1, p \in R[j].on
          PROVE  \/ R[j].do = "log"
                 \/ R[j].do = "jump" /\ LetGo(s, p, R[j].to)
      <4>1. n \in Int
        BY <2>6
      <4> QED
        BY <1>0, <2>10, <3>1, <4>1, Passed
    <3>2. /\ o = 2 /\ n >= 2 => ~(p.v6 /\ p \in Loopback(d))
          /\ o = 2 /\ n > 2 => ~p.v6
      <4>1. o = 2 /\ n >= 2 => 1 \in 1 .. n - 1
        OBVIOUS
      <4>2. o = 2 /\ n > 2 => 2 \in 1 .. n - 1
        OBVIOUS
      <4> QED
        BY <2>8, <3>1, <4>1, <4>2
    <3>3. n > o => LetOn(s, p)
      BY <2>6, <2>9, <3>2
    <3>4. ASSUME NEW k \in 1 .. 7, n > o + k
          PROVE  LetGo(s, p, R[o + k].to)
      <4>1. o + k \in 1 .. n - 1
        BY <2>6, <3>4
      <4> QED
        BY <2>7, <3>1, <4>1
    <3>5. /\ n > o + 2 => LetGo(s, p, R[o + 2].to)
          /\ n > o + 3 => LetGo(s, p, R[o + 3].to)
          /\ n > o + 6 => LetGo(s, p, R[o + 6].to)
      BY <3>4
    <3> QED
      BY <2>2, <2>7, <3>2, <3>3, <3>5
  <2>11. ASSUME NEW k \in 1 .. 7, Through(s, p, c, o + k)
         PROVE  R[o + k].do = "jump" /\ R[o + k].to \in Chains /\ Within(s, p, R[o + k].to)
    <3>1. /\ o + k > o /\ (k >= 3 => o + k > o + 2) /\ (k >= 4 => o + k > o + 3)
          /\ (k >= 7 => o + k > o + 6) /\ o + k \in 1 .. o + 8
      BY <2>6
    <3>2. /\ LetOn(s, p)
          /\ k >= 3 => PastBefore(s, p)
          /\ k >= 4 => FirstMatch(s, p) = 0
          /\ k >= 7 => Policy(s, d) # "reject"
      BY <2>10, <2>11, <3>1
    <3>3. k = 1 \/ k = 2 \/ k = 3 \/ k = 4 \/ k = 5 \/ k = 6 \/ k = 7
      OBVIOUS
    <3>4. R[o + k].to \in Chains
      BY <2>3, <2>7, <3>3
    <3>5. Within(s, p, R[o + k].to)
      BY <2>1, <2>7, <3>2, <3>3
    <3> QED
      BY <2>7, <3>4, <3>5
  <2>12. ASSUME NEW i \in 1 .. o + 7, Through(s, p, c, i), p \in R[i].on
         PROVE  \/ R[i].do \in {"accept", "drop"} /\ R[i].do = Judge(s, p)
                \/ R[i].do = "jump" /\ R[i].to \in Chains /\ Within(s, p, R[i].to)
    <3>1. CASE o = 2 /\ i = 1
      BY <2>8, <2>9, <2>12, <3>1
    <3>2. CASE o = 2 /\ i = 2
      <4>1. ~(p.v6 /\ p \in Loopback(d))
        BY <2>10, <2>12, <3>2
      <4> QED
        BY <2>8, <2>9, <2>12, <3>2, <4>1
    <3>3. CASE i > o
      <4>1. i - o \in 1 .. 7 /\ o + (i - o) = i
        BY <2>6, <3>3
      <4> QED
        BY <2>11, <2>12, <4>1
    <3> QED
      BY <2>6, <3>1, <3>2, <3>3
  <2>13. Through(s, p, c, o + 8) => ChainPolicy(s, p.dir) = Judge(s, p)
    <3>1. /\ PastBefore(s, p) /\ FirstMatch(s, p) = 0 /\ Policy(s, d) # "reject"
             => ChainPolicy(s, d) = Judge(s, p)
      BY <1>1, JudgeCases DEF ChainPolicy, PolicyDecides
    <3>2. o + 8 \in 1 .. o + 8 /\ o + 8 > o + 2 /\ o + 8 > o + 3 /\ o + 8 > o + 6
      BY <2>6
    <3> QED
      BY <1>1, <2>10, <3>1, <3>2
  <2>14. Len(R) = o + 7 /\ Len(R) + 1 = o + 8
    BY <2>4, <2>6
  <2> QED
    BY <1>0, <2>4, <2>12, <2>13, <2>14 DEF Obeys
<1> QED
  BY <1>2, <1>3

\* The bans are in the sets of the two families.
LEMMA BansHeld ==
  ASSUME SetsApart, NEW s \in States, NEW p \in Packets, NEW v6
  PROVE  p \in SetMatch("src", Elements(s.bans, v6), v6) <=> p.v6 = v6 /\ Banned(s, p)
<1>1. s.bans \in SUBSET Nets /\ IsFiniteSet(s.bans) /\ TopApart(s.bans)
  BY StatesAssumption DEF StatesAssumption, SetsApart
<1>2. InSet(p.src, Elements(s.bans, v6)) <=> \E n \in s.bans : n.v6 = v6 /\ p.src \in Block(n)
  BY <1>1, ElementsHold
<1>3. p \in SetMatch("src", Elements(s.bans, v6), v6)
        <=> p.v6 = v6 /\ InSet(p.src, Elements(s.bans, v6))
  <2>1. p["src"] = p.src
    OBVIOUS
  <2> HIDE DEF Elements
  <2> QED
    BY <2>1 DEF SetMatch
<1> QED
  BY <1>2, <1>3 DEF Banned

\* So does the before chain for packets that come in.
LEMMA ObeysBeforeIn ==
  ASSUME SetsApart, NEW s \in States, NEW p \in Packets, p.dir = "in"
  PROVE  Obeys(s, p, <<"before", "in">>)
<1> DEFINE c == <<"before", "in">>
           R == Before(s, "in")
           deny == <<"logging-deny", "any">>
           other == <<"not-local", "any">>
           lb == p \in Loopback("in")
           b4 == p \in SetMatch("src", Elements(s.bans, FALSE), FALSE)
           b6 == p \in SetMatch("src", Elements(s.bans, TRUE), TRUE)
<1>0. Chain(s, c) = R /\ c[1] = "before"
  BY ChainIs
<1> SUFFICES ASSUME Within(s, p, c) PROVE Obeys(s, p, c)
  BY DEF Obeys
<1>1. LetOn(s, p)
  BY WithinIs
<1> DEFINE s1 == Loopback("in")
           s2 == RoutingHeader0
           s3 == SetMatch("src", Elements(s.bans, FALSE), FALSE)
           s4 == SetMatch("src", Elements(s.bans, TRUE), TRUE)
           s5 == CtState({"established", "related"})
           s6 == PingReply6
           s7 == CtState({"invalid"})
           s8 == CtState({"invalid"})
           s9 == Icmp4
           s10 == Icmp6("in")
           s11 == MobileIp6
           s12 == DhcpAnswer
           s13 == DhcpAnswer6
           s14 == Nfproto(FALSE)
           s15 == Discovery
<1>2. /\ R \in Seq(Entries) /\ Len(R) = 15
      /\ R[1] = Accept(s1) /\ R[2] = Drop(s2)
      /\ R[3] = Drop(s3) /\ R[4] = Drop(s4)
      /\ R[5] = Accept(s5) /\ R[6] = Accept(s6)
      /\ R[7] = Jump(s7, deny) /\ R[8] = Drop(s8)
      /\ R[9] = Accept(s9) /\ R[10] = Accept(s10)
      /\ R[11] = Accept(s11) /\ R[12] = Accept(s12)
      /\ R[13] = Accept(s13) /\ R[14] = Jump(s14, other)
      /\ R[15] = Accept(s15)
  BY BeforeIn
<1>21. /\ p \in s1 <=> lb
       /\ p \in s2 <=> p.v6 /\ p.rh0
       /\ p \in s3 <=> b4
       /\ p \in s4 <=> b6
       /\ p \in s5 <=> p.ct \in {"established", "related"}
       /\ p \in s6 <=> p \in PingReply6
       /\ p \in s7 <=> p.ct = "invalid"
       /\ p \in s8 <=> p.ct = "invalid"
       /\ p \in s9 <=> p \in Icmp4
       /\ p \in s10 <=> p \in Icmp6("in")
       /\ p \in s11 <=> p \in MobileIp6
       /\ p \in s12 <=> p \in DhcpAnswer
       /\ p \in s13 <=> p \in DhcpAnswer6
       /\ p \in s14 <=> ~p.v6
       /\ p \in s15 <=> p \in Discovery
  BY PacketsAssumption DEF PacketsAssumption, RoutingHeader0, CtState, Nfproto
<1> HIDE DEF R, deny, other, s1, s2, s3, s4, s5, s6, s7, s8, s9, s10, s11, s12, s13, s14, s15
<1>4. b4 \/ b6 <=> Banned(s, p)
  BY BansHeld, PacketsAssumption DEF PacketsAssumption
<1>41. lb <=> p \in Loopback(p.dir)
  OBVIOUS
<1> HIDE DEF lb, b4, b6
<1>22. /\ \A S : Accept(S).on = S /\ Accept(S).do = "accept"
       /\ \A S : Drop(S).on = S /\ Drop(S).do = "drop"
       /\ \A S, x : Jump(S, x).on = S /\ Jump(S, x).do = "jump" /\ Jump(S, x).to = x
  BY Fields
<1>3. /\ R[1].do = "accept" /\ (p \in R[1].on <=> lb)
      /\ R[2].do = "drop" /\ (p \in R[2].on <=> p.v6 /\ p.rh0)
      /\ R[3].do = "drop" /\ (p \in R[3].on <=> b4)
      /\ R[4].do = "drop" /\ (p \in R[4].on <=> b6)
      /\ R[5].do = "accept" /\ (p \in R[5].on <=> p.ct \in {"established", "related"})
      /\ R[6].do = "accept" /\ (p \in R[6].on <=> p \in PingReply6)
      /\ R[7].do = "jump" /\ (p \in R[7].on <=> p.ct = "invalid")
      /\ R[8].do = "drop" /\ (p \in R[8].on <=> p.ct = "invalid")
      /\ R[9].do = "accept" /\ (p \in R[9].on <=> p \in Icmp4)
      /\ R[10].do = "accept" /\ (p \in R[10].on <=> p \in Icmp6("in"))
      /\ R[11].do = "accept" /\ (p \in R[11].on <=> p \in MobileIp6)
      /\ R[12].do = "accept" /\ (p \in R[12].on <=> p \in DhcpAnswer)
      /\ R[13].do = "accept" /\ (p \in R[13].on <=> p \in DhcpAnswer6)
      /\ R[14].do = "jump" /\ (p \in R[14].on <=> ~p.v6)
      /\ R[15].do = "accept" /\ (p \in R[15].on <=> p \in Discovery)
      /\ R[7].to = deny /\ R[14].to = other
  <2>1. /\ R[1].do = "accept" /\ R[1].on = s1
        /\ R[2].do = "drop" /\ R[2].on = s2
        /\ R[3].do = "drop" /\ R[3].on = s3
        /\ R[4].do = "drop" /\ R[4].on = s4
        /\ R[5].do = "accept" /\ R[5].on = s5
        /\ R[6].do = "accept" /\ R[6].on = s6
        /\ R[7].do = "jump" /\ R[7].on = s7
        /\ R[8].do = "drop" /\ R[8].on = s8
        /\ R[9].do = "accept" /\ R[9].on = s9
        /\ R[10].do = "accept" /\ R[10].on = s10
        /\ R[11].do = "accept" /\ R[11].on = s11
        /\ R[12].do = "accept" /\ R[12].on = s12
        /\ R[13].do = "accept" /\ R[13].on = s13
        /\ R[14].do = "jump" /\ R[14].on = s14
        /\ R[15].do = "accept" /\ R[15].on = s15
        /\ R[7].to = deny /\ R[14].to = other
    BY <1>2, <1>22
  <2>2. /\ R[1].do = "accept" /\ (p \in R[1].on <=> lb)
        /\ R[2].do = "drop" /\ (p \in R[2].on <=> p.v6 /\ p.rh0)
        /\ R[3].do = "drop" /\ (p \in R[3].on <=> b4)
        /\ R[4].do = "drop" /\ (p \in R[4].on <=> b6)
    BY <1>21, <2>1
  <2>3. /\ R[5].do = "accept" /\ (p \in R[5].on <=> p.ct \in {"established", "related"})
        /\ R[6].do = "accept" /\ (p \in R[6].on <=> p \in PingReply6)
        /\ R[7].do = "jump" /\ (p \in R[7].on <=> p.ct = "invalid")
        /\ R[8].do = "drop" /\ (p \in R[8].on <=> p.ct = "invalid")
    BY <1>21, <2>1
  <2>4. /\ R[9].do = "accept" /\ (p \in R[9].on <=> p \in Icmp4)
        /\ R[10].do = "accept" /\ (p \in R[10].on <=> p \in Icmp6("in"))
        /\ R[11].do = "accept" /\ (p \in R[11].on <=> p \in MobileIp6)
        /\ R[12].do = "accept" /\ (p \in R[12].on <=> p \in DhcpAnswer)
    BY <1>21, <2>1
  <2>5. /\ R[13].do = "accept" /\ (p \in R[13].on <=> p \in DhcpAnswer6)
        /\ R[14].do = "jump" /\ (p \in R[14].on <=> ~p.v6)
        /\ R[15].do = "accept" /\ (p \in R[15].on <=> p \in Discovery)
        /\ R[7].to = deny /\ R[14].to = other
    BY <1>21, <2>1
  <2> QED
    BY <2>2, <2>3, <2>4, <2>5
<1>5. deny \in Chains /\ other \in Chains
  BY ChainNames DEF deny, other
<1>6. /\ Within(s, p, deny)
      /\ Within(s, p, other) <=> ~p.v6 /\ Undecided(s, p)
      /\ LetGo(s, p, other) <=> ~Elsewhere(p)
      /\ LetGo(s, p, c) <=> PastBefore(s, p)
  BY WithinIs, LetGoIs DEF deny, other
<1> HIDE DEF c, R, deny, other
<1>7. ASSUME NEW n \in 1 .. 16, Through(s, p, c, n)
      PROVE  /\ n > 1 => ~lb
             /\ n > 2 => ~(p.v6 /\ p.rh0)
             /\ n > 4 => ~Banned(s, p)
             /\ n > 5 => p.ct \notin {"established", "related"}
             /\ n > 6 => p \notin PingReply6
             /\ n > 8 => p.ct # "invalid"
             /\ n > 13 => ~Needed(p)
             /\ n > 14 => ~Elsewhere(p)
             /\ n > 15 => p \notin Discovery
  <2>1. ASSUME NEW j \in 1 .. n - 1, p \in R[j].on
        PROVE  \/ R[j].do = "log"
               \/ R[j].do = "jump" /\ LetGo(s, p, R[j].to)
    BY <1>0, <1>7, <2>1, Passed
  <2>2. ASSUME NEW j \in 1 .. 15, j < n, R[j].do \in {"accept", "drop"}
        PROVE  p \notin R[j].on
    <3>1. j \in 1 .. n - 1
      BY <2>2
    <3> QED
      BY <2>1, <2>2, <3>1
  <2>3. /\ n > 1 => p \notin R[1].on
        /\ n > 2 => p \notin R[2].on
        /\ n > 4 => p \notin R[3].on /\ p \notin R[4].on
        /\ n > 5 => p \notin R[5].on
        /\ n > 6 => p \notin R[6].on
        /\ n > 8 => p \notin R[8].on
    BY <1>3, <2>2
  <2>4. /\ n > 13 => /\ p \notin R[9].on /\ p \notin R[10].on /\ p \notin R[11].on
                     /\ p \notin R[12].on /\ p \notin R[13].on
        /\ n > 15 => p \notin R[15].on
    BY <1>3, <2>2
  <2>5. n > 14 => ~Elsewhere(p)
    <3>1. CASE n > 14 /\ ~p.v6
      <4>1. 14 \in 1 .. n - 1 /\ p \in R[14].on
        BY <1>3, <3>1
      <4>2. LetGo(s, p, R[14].to)
        BY <1>3, <2>1, <4>1
      <4> QED
        BY <1>3, <1>6, <4>2
    <3> QED
      BY <3>1 DEF Elsewhere
  <2>6. n > 13 => ~Needed(p)
    BY <1>3, <2>4 DEF Needed
  <2>7. /\ n > 1 => ~lb
        /\ n > 2 => ~(p.v6 /\ p.rh0)
        /\ n > 5 => p.ct \notin {"established", "related"}
        /\ n > 6 => p \notin PingReply6
        /\ n > 8 => p.ct # "invalid"
        /\ n > 15 => p \notin Discovery
    BY <1>3, <2>3, <2>4
  <2>8. n > 4 => ~Banned(s, p)
    BY <1>3, <1>4, <2>3
  <2> QED
    BY <2>5, <2>6, <2>7, <2>8
<1>8. /\ ~s.panic /\ (lb => Judge(s, p) = "accept")
      /\ ~lb /\ p.v6 /\ p.rh0 => Judge(s, p) = "drop"
      /\ ~lb /\ Banned(s, p) => Judge(s, p) = "drop"
  <2>1. p.dir # "out"
    OBVIOUS
  <2> QED
    BY <1>1, <1>41, <2>1, JudgeCases DEF LetOn, Forbidden
<1>9. ASSUME ~lb, ~(p.v6 /\ p.rh0), ~Banned(s, p)
      PROVE  /\ p.ct \in {"established", "related"} \/ p \in PingReply6 => Judge(s, p) = "accept"
             /\ /\ p.ct \notin {"established", "related"} /\ p \notin PingReply6
                => /\ p.ct = "invalid" => Judge(s, p) = "drop"
                   /\ p.ct # "invalid" /\ Needed(p) => Judge(s, p) = "accept"
                   /\ p.ct # "invalid" /\ ~Needed(p)
                        => /\ Undecided(s, p)
                           /\ ~Elsewhere(p) => /\ p \in Discovery => Judge(s, p) = "accept"
                                               /\ p \notin Discovery => PastBefore(s, p)
  <2>1. ~Forbidden(s, p)
    BY <1>1, <1>9 DEF Forbidden, LetOn
  <2>2. Open(p) <=> p.ct \in {"established", "related"} \/ p \in PingReply6
    BY DEF Open
  <2>3. /\ Open(p) => Judge(s, p) = "accept"
        /\ ~Open(p) /\ p.ct = "invalid" => Judge(s, p) = "drop"
        /\ ~Open(p) /\ p.ct # "invalid" /\ Needed(p) => Judge(s, p) = "accept"
    BY <1>8, <1>9, <1>41, <2>1, JudgeCases
  <2>4. ~Open(p) /\ p.ct # "invalid" /\ ~Needed(p) => Undecided(s, p)
    BY <1>8, <1>9, <1>41, <2>1 DEF Undecided
  <2>5. Undecided(s, p) /\ ~Elsewhere(p)
          => /\ p \in Discovery => Judge(s, p) = "accept"
             /\ p \notin Discovery => PastBefore(s, p)
    BY JudgeCases DEF PastBefore
  <2> QED
    BY <2>2, <2>3, <2>4, <2>5
<1>10. p \in Icmp4 \/ p \in Icmp6("in") \/ p \in MobileIp6 \/ p \in DhcpAnswer \/ p \in DhcpAnswer6
         => Needed(p)
  BY DEF Needed
<1>11. ASSUME NEW i \in 1 .. 15, Through(s, p, c, i), p \in R[i].on
       PROVE  \/ R[i].do \in {"accept", "drop"} /\ R[i].do = Judge(s, p)
              \/ R[i].do = "jump" /\ R[i].to \in Chains /\ Within(s, p, R[i].to)
  <2>1. CASE i = 1
    BY <1>3, <1>8, <1>11, <2>1
  <2>2. CASE i = 2
    <3>1. ~lb
      BY <1>7, <1>11, <2>2
    <3> QED
      BY <1>3, <1>8, <1>11, <2>2, <3>1
  <2>3. CASE i \in {3, 4}
    <3>1. ~lb
      BY <1>7, <1>11, <2>3
    <3>2. Banned(s, p)
      BY <1>3, <1>4, <1>11, <2>3
    <3> QED
      BY <1>3, <1>8, <2>3, <3>1, <3>2
  <2>4. CASE i \in 5 .. 15
    <3>1. ~lb /\ ~(p.v6 /\ p.rh0) /\ ~Banned(s, p)
      <4>1. i > 1 /\ i > 2 /\ i > 4 /\ i \in 1 .. 16
        BY <2>4
      <4> QED
        BY <1>7, <1>11, <4>1
    <3>2. CASE i \in {5, 6}
      BY <1>3, <1>9, <1>11, <3>1, <3>2
    <3>3. CASE i \in 7 .. 15
      <4>1. p.ct \notin {"established", "related"} /\ p \notin PingReply6
        <5>1. i > 5 /\ i > 6 /\ i \in 1 .. 16
          BY <3>3
        <5> QED
          BY <1>7, <1>11, <5>1
      <4>2. CASE i = 7
        BY <1>3, <1>5, <1>6, <4>2
      <4>3. CASE i = 8
        BY <1>3, <1>9, <1>11, <3>1, <4>1, <4>3
      <4>4. CASE i \in 9 .. 15
        <5>1. p.ct # "invalid"
          <6>1. i > 8 /\ i \in 1 .. 16
            BY <4>4
          <6> QED
            BY <1>7, <1>11, <6>1
        <5>2. CASE i \in 9 .. 13
          <6>1. R[i].do = "accept"
            BY <1>3, <5>2
          <6>2. Needed(p)
            BY <1>3, <1>10, <1>11, <5>2
          <6> QED
            BY <1>9, <3>1, <4>1, <5>1, <6>1, <6>2
        <5>3. CASE i = 14
          <6>1. ~Needed(p)
            BY <1>7, <1>11, <5>3
          <6> QED
            BY <1>3, <1>5, <1>6, <1>9, <1>11, <3>1, <4>1, <5>1, <5>3, <6>1
        <5>4. CASE i = 15
          <6>1. ~Needed(p) /\ ~Elsewhere(p)
            BY <1>7, <1>11, <5>4
          <6> QED
            BY <1>3, <1>9, <1>11, <3>1, <4>1, <5>1, <5>4, <6>1
        <5> QED
          BY <4>4, <5>2, <5>3, <5>4
      <4> QED
        BY <3>3, <4>2, <4>3, <4>4
    <3> QED
      BY <2>4, <3>2, <3>3
  <2> QED
    BY <2>1, <2>2, <2>3, <2>4
<1>12. Through(s, p, c, 16) => LetGo(s, p, c)
  <2> SUFFICES ASSUME Through(s, p, c, 16) PROVE LetGo(s, p, c)
    OBVIOUS
  <2>1. /\ ~lb /\ ~(p.v6 /\ p.rh0) /\ ~Banned(s, p)
        /\ p.ct \notin {"established", "related"} /\ p \notin PingReply6
        /\ p.ct # "invalid" /\ ~Needed(p) /\ ~Elsewhere(p) /\ p \notin Discovery
    <3>1. 16 \in 1 .. 16
      OBVIOUS
    <3> QED
      BY <1>7, <3>1
  <2> QED
    BY <1>6, <1>9, <2>1
<1>13. Len(R) = 15 /\ Len(R) + 1 = 16
  BY <1>2
<1> QED
  BY <1>0, <1>2, <1>11, <1>12, <1>13 DEF Obeys

\* So does the before chain for packets that pass through.
LEMMA ObeysBeforeRouted ==
  ASSUME SetsApart, NEW s \in States, NEW p \in Packets, p.dir = "routed"
  PROVE  Obeys(s, p, <<"before", "routed">>)
<1> DEFINE c == <<"before", "routed">>
           R == Before(s, "routed")
           b4 == p \in SetMatch("src", Elements(s.bans, FALSE), FALSE)
           b6 == p \in SetMatch("src", Elements(s.bans, TRUE), TRUE)
           s1 == RoutingHeader0
           s2 == SetMatch("src", Elements(s.bans, FALSE), FALSE)
           s3 == SetMatch("src", Elements(s.bans, TRUE), TRUE)
           s4 == CtState({"established", "related"})
           s5 == Icmp4
           s6 == Icmp6("routed")
<1>0. Chain(s, c) = R /\ c[1] = "before"
  BY ChainIs
<1> SUFFICES ASSUME Within(s, p, c) PROVE Obeys(s, p, c)
  BY DEF Obeys
<1>1. LetOn(s, p) /\ (LetGo(s, p, c) <=> PastBefore(s, p))
  BY WithinIs, LetGoIs
<1>2. /\ R \in Seq(Entries) /\ Len(R) = 6
      /\ R[1] = Drop(s1) /\ R[2] = Drop(s2) /\ R[3] = Drop(s3)
      /\ R[4] = Accept(s4) /\ R[5] = Accept(s5) /\ R[6] = Accept(s6)
  BY BeforeRouted
<1>3. /\ p \in s1 <=> p.v6 /\ p.rh0
      /\ p \in s2 <=> b4
      /\ p \in s3 <=> b6
      /\ p \in s4 <=> p.ct \in {"established", "related"}
      /\ p \in s5 <=> p \in Icmp4
      /\ p \in s6 <=> p \in Icmp6("routed")
  BY DEF RoutingHeader0, CtState, Nfproto
<1>4. b4 \/ b6 <=> Banned(s, p)
  BY BansHeld, PacketsAssumption DEF PacketsAssumption
<1>5. p \notin Loopback(p.dir)
  BY DEF Loopback
<1> HIDE DEF c, R, b4, b6, s1, s2, s3, s4, s5, s6
<1>6. /\ R[1].do = "drop" /\ (p \in R[1].on <=> p.v6 /\ p.rh0)
      /\ R[2].do = "drop" /\ (p \in R[2].on <=> b4)
      /\ R[3].do = "drop" /\ (p \in R[3].on <=> b6)
      /\ R[4].do = "accept" /\ (p \in R[4].on <=> p.ct \in {"established", "related"})
      /\ R[5].do = "accept" /\ (p \in R[5].on <=> p \in Icmp4)
      /\ R[6].do = "accept" /\ (p \in R[6].on <=> p \in Icmp6("routed"))
  <2>1. /\ \A S : Accept(S).on = S /\ Accept(S).do = "accept"
        /\ \A S : Drop(S).on = S /\ Drop(S).do = "drop"
    BY Fields
  <2>2. /\ R[1].do = "drop" /\ R[1].on = s1 /\ R[2].do = "drop" /\ R[2].on = s2
        /\ R[3].do = "drop" /\ R[3].on = s3 /\ R[4].do = "accept" /\ R[4].on = s4
        /\ R[5].do = "accept" /\ R[5].on = s5 /\ R[6].do = "accept" /\ R[6].on = s6
    BY <1>2, <2>1
  <2> QED
    BY <1>3, <2>2
<1>7. ASSUME NEW n \in 1 .. 7, Through(s, p, c, n)
      PROVE  /\ n > 1 => ~(p.v6 /\ p.rh0)
             /\ n > 3 => ~Banned(s, p)
             /\ n > 4 => p.ct \notin {"established", "related"}
             /\ n > 6 => ~Needed(p)
  <2>1. ASSUME NEW j \in 1 .. 6, j < n
        PROVE  p \notin R[j].on
    <3>1. j \in 1 .. n - 1
      BY <2>1
    <3>2. R[j].do \in {"accept", "drop"}
      BY <1>6
    <3>3. p \in R[j].on => R[j].do \in {"log", "jump"}
      BY <1>0, <1>7, <3>1, Passed
    <3> QED
      BY <3>2, <3>3
  <2>2. /\ n > 1 => p \notin R[1].on
        /\ n > 3 => p \notin R[2].on /\ p \notin R[3].on
        /\ n > 4 => p \notin R[4].on
        /\ n > 6 => p \notin R[5].on /\ p \notin R[6].on
    BY <2>1
  <2>3. n > 6 => ~Needed(p)
    BY <1>6, <2>2 DEF Needed
  <2> QED
    BY <1>4, <1>6, <2>2, <2>3
<1>8. /\ ~s.panic
      /\ p.v6 /\ p.rh0 => Judge(s, p) = "drop"
      /\ Banned(s, p) => Judge(s, p) = "drop"
  <2>1. p.dir # "out"
    OBVIOUS
  <2> QED
    BY <1>1, <1>5, <2>1, JudgeCases DEF LetOn, Forbidden
<1>9. ASSUME ~(p.v6 /\ p.rh0), ~Banned(s, p)
      PROVE  /\ p.ct \in {"established", "related"} => Judge(s, p) = "accept"
             /\ p.ct \notin {"established", "related"} =>
                  /\ Needed(p) => Judge(s, p) = "accept"
                  /\ ~Needed(p) => PastBefore(s, p)
  <2>1. ~Forbidden(s, p) /\ p.dir # "in"
    BY <1>1, <1>9 DEF Forbidden, LetOn
  <2>2. Open(p) <=> p.ct \in {"established", "related"}
    BY DEF Open
  <2> QED
    BY <1>5, <1>8, <2>1, <2>2, JudgeCases DEF Undecided, PastBefore, Elsewhere
<1>10. p \in Icmp4 \/ p \in Icmp6("routed") => Needed(p)
  BY DEF Needed
<1>11. ASSUME NEW i \in 1 .. 6, Through(s, p, c, i), p \in R[i].on
       PROVE  R[i].do \in {"accept", "drop"} /\ R[i].do = Judge(s, p)
  <2>1. CASE i \in {1, 2, 3}
    BY <1>4, <1>6, <1>8, <1>11, <2>1
  <2>2. CASE i \in {4, 5, 6}
    <3>1. ~(p.v6 /\ p.rh0) /\ ~Banned(s, p)
      <4>1. i > 1 /\ i > 3 /\ i \in 1 .. 7
        BY <2>2
      <4> QED
        BY <1>7, <1>11, <4>1
    <3>2. CASE i = 4
      BY <1>6, <1>9, <1>11, <3>1, <3>2
    <3>3. CASE i \in {5, 6}
      <4>1. p.ct \notin {"established", "related"}
        <5>1. i > 4 /\ i \in 1 .. 7
          BY <3>3
        <5> QED
          BY <1>7, <1>11, <5>1
      <4> QED
        BY <1>6, <1>9, <1>10, <1>11, <3>1, <3>3, <4>1
    <3> QED
      BY <2>2, <3>2, <3>3
  <2> QED
    BY <2>1, <2>2
<1>12. Through(s, p, c, 7) => LetGo(s, p, c)
  <2>1. 7 \in 1 .. 7
    OBVIOUS
  <2> QED
    BY <1>1, <1>7, <1>9, <2>1
<1>13. Len(R) = 6 /\ Len(R) + 1 = 7
  BY <1>2
<1> QED
  BY <1>0, <1>2, <1>11, <1>12, <1>13 DEF Obeys

\* So does the before chain for packets that go out.
LEMMA ObeysBeforeOut ==
  ASSUME NEW s \in States, NEW p \in Packets, p.dir = "out"
  PROVE  Obeys(s, p, <<"before", "out">>)
<1> DEFINE c == <<"before", "out">>
           R == Before(s, "out")
           egress == <<"user-egress", "any">>
           lb == p \in Loopback("out")
           s1 == Loopback("out")
           s2 == RoutingHeader0
           s3 == CtState({"established", "related"})
           s4 == Icmp6("out")
<1>0. Chain(s, c) = R /\ c[1] = "before"
  BY ChainIs
<1> SUFFICES ASSUME Within(s, p, c) PROVE Obeys(s, p, c)
  BY DEF Obeys
<1>1. /\ LetOn(s, p) /\ (LetGo(s, p, c) <=> PastBefore(s, p))
      /\ Within(s, p, egress) /\ egress \in Chains
  BY WithinIs, LetGoIs, ChainNames
<1>2. /\ R \in Seq(Entries) /\ Len(R) = 5
      /\ R[1] = Accept(s1) /\ R[2] = Drop(s2) /\ R[3] = Accept(s3) /\ R[4] = Accept(s4)
      /\ R[5] = Jump(Packets, egress)
  BY BeforeOut
<1>3. /\ p \in s1 <=> lb
      /\ p \in s2 <=> p.v6 /\ p.rh0
      /\ p \in s3 <=> p.ct \in {"established", "related"}
      /\ p \in s4 <=> p \in Icmp6("out")
  BY DEF RoutingHeader0, CtState, Nfproto
<1>4. lb <=> p \in Loopback(p.dir)
  OBVIOUS
<1> HIDE DEF c, R, egress, lb, s1, s2, s3, s4
<1>5. /\ R[1].do = "accept" /\ (p \in R[1].on <=> lb)
      /\ R[2].do = "drop" /\ (p \in R[2].on <=> p.v6 /\ p.rh0)
      /\ R[3].do = "accept" /\ (p \in R[3].on <=> p.ct \in {"established", "related"})
      /\ R[4].do = "accept" /\ (p \in R[4].on <=> p \in Icmp6("out"))
      /\ R[5].do = "jump" /\ R[5].to = egress
  <2>1. /\ \A S : Accept(S).on = S /\ Accept(S).do = "accept"
        /\ \A S : Drop(S).on = S /\ Drop(S).do = "drop"
        /\ \A S, x : Jump(S, x).do = "jump" /\ Jump(S, x).to = x
    BY Fields
  <2>2. /\ R[1].do = "accept" /\ R[1].on = s1 /\ R[2].do = "drop" /\ R[2].on = s2
        /\ R[3].do = "accept" /\ R[3].on = s3 /\ R[4].do = "accept" /\ R[4].on = s4
        /\ R[5].do = "jump" /\ R[5].to = egress
    BY <1>2, <2>1
  <2> QED
    BY <1>3, <2>2
<1>6. ASSUME NEW n \in 1 .. 6, Through(s, p, c, n)
      PROVE  /\ n > 1 => ~lb
             /\ n > 2 => ~(p.v6 /\ p.rh0)
             /\ n > 3 => p.ct \notin {"established", "related"}
             /\ n > 4 => p \notin Icmp6("out")
  <2>1. ASSUME NEW j \in 1 .. 4, j < n
        PROVE  p \notin R[j].on
    <3>1. j \in 1 .. n - 1
      BY <2>1
    <3>2. R[j].do \in {"accept", "drop"}
      BY <1>5
    <3>3. p \in R[j].on => R[j].do \in {"log", "jump"}
      BY <1>0, <1>6, <3>1, Passed
    <3> QED
      BY <3>2, <3>3
  <2>2. /\ n > 1 => p \notin R[1].on
        /\ n > 2 => p \notin R[2].on
        /\ n > 3 => p \notin R[3].on
        /\ n > 4 => p \notin R[4].on
    BY <2>1
  <2> QED
    BY <1>5, <2>2
<1>7. Forbidden(s, p) <=> p.v6 /\ p.rh0
  BY <1>1 DEF Forbidden, LetOn
<1>8. Open(p) <=> p.ct \in {"established", "related"}
  BY DEF Open
<1>9. Needed(p) <=> p \in Icmp6("out")
  BY DEF Needed
<1>10. /\ lb => Judge(s, p) = "accept"
       /\ ~lb /\ p.v6 /\ p.rh0 => Judge(s, p) = "drop"
       /\ ~lb /\ ~(p.v6 /\ p.rh0) /\ p.ct \in {"established", "related"} => Judge(s, p) = "accept"
       /\ /\ ~lb /\ ~(p.v6 /\ p.rh0) /\ p.ct \notin {"established", "related"}
          => /\ p \in Icmp6("out") => Judge(s, p) = "accept"
             /\ p \notin Icmp6("out") => PastBefore(s, p)
  <2>1. ~s.panic /\ p.dir # "in"
    BY <1>1 DEF LetOn
  <2> QED
    BY <1>4, <1>7, <1>8, <1>9, <2>1, JudgeCases DEF Undecided, PastBefore, Elsewhere
<1>11. ASSUME NEW i \in 1 .. 5, Through(s, p, c, i), p \in R[i].on
       PROVE  \/ R[i].do \in {"accept", "drop"} /\ R[i].do = Judge(s, p)
              \/ R[i].do = "jump" /\ R[i].to \in Chains /\ Within(s, p, R[i].to)
  <2>1. i \in 1 .. 6
    BY <1>11
  <2>2. /\ i > 1 => ~lb
        /\ i > 2 => ~(p.v6 /\ p.rh0)
        /\ i > 3 => p.ct \notin {"established", "related"}
    BY <1>6, <1>11, <2>1
  <2>3. i = 1 \/ i = 2 \/ i = 3 \/ i = 4 \/ i = 5
    BY <1>11
  <2> QED
    BY <1>1, <1>5, <1>10, <1>11, <2>2, <2>3
<1>12. Through(s, p, c, 6) => LetGo(s, p, c)
  <2>1. 6 \in 1 .. 6
    OBVIOUS
  <2> QED
    BY <1>1, <1>6, <1>10, <2>1
<1>13. Len(R) = 5 /\ Len(R) + 1 = 6
  BY <1>2
<1> QED
  BY <1>0, <1>2, <1>11, <1>12, <1>13 DEF Obeys

-----------------------------------------------------------------------------
(* The chains that log, or that end in a verdict.                          *)

\* A chain that only logs.
LEMMA Harmless ==
  ASSUME NEW s, NEW p, NEW c, c[1] # "base", LetGo(s, p, c), Chain(s, c) \in Seq(Entries),
         \A i \in 1 .. Len(Chain(s, c)) : Chain(s, c)[i].do \in {"log", "return"}
  PROVE  Obeys(s, p, c)
BY DEF Obeys

\* The chains that only log.
LEMMA ObeysLogging ==
  ASSUME NEW s \in States, NEW p \in Packets, NEW d
  PROVE  /\ Obeys(s, p, <<"before-logging", d>>)
         /\ Obeys(s, p, <<"after-logging", d>>)
         /\ Obeys(s, p, <<"logging-deny", d>>)
         /\ Obeys(s, p, <<"user-egress", d>>)
<1>1. s.logging \in {"off", "low", "medium", "high", "full"}
  BY StatesAssumption DEF StatesAssumption, Levels
<1>2. /\ \A S : Log(S).do = "log" /\ Return(S).do = "return"
      /\ \A S \in SUBSET Packets : Log(S) \in Entries /\ Return(S) \in Entries
  BY Fields, EntryTypes
<1>3. /\ CtState({"new"}) \cap Limit3 \in SUBSET Packets /\ Limit3 \in SUBSET Packets
      /\ Packets \in SUBSET Packets /\ LogLimit(s) \in SUBSET Packets
      /\ CtState({"invalid"}) \cap Limit3 \in SUBSET Packets
      /\ CtState({"invalid"}) \cap LogLimit(s) \in SUBSET Packets
  BY MatchTypes
<1>4. \A e1, e2 \in Entries : /\ << >> \in Seq(Entries) /\ <<e1>> \in Seq(Entries)
                              /\ <<e1, e2>> \in Seq(Entries)
  OBVIOUS
<1>5. ASSUME NEW c, c[1] # "base", LetGo(s, p, c),
             \/ Chain(s, c) = << >>
             \/ \E e1 \in Entries : e1.do \in {"log", "return"} /\ Chain(s, c) = <<e1>>
             \/ \E e1, e2 \in Entries : /\ e1.do \in {"log", "return"} /\ e2.do \in {"log", "return"}
                                        /\ Chain(s, c) = <<e1, e2>>
      PROVE  Obeys(s, p, c)
  <2>1. CASE Chain(s, c) = << >>
    <3>1. Chain(s, c) \in Seq(Entries) /\ 1 .. Len(Chain(s, c)) = {}
      BY <2>1
    <3> QED
      BY <1>5, <3>1, Harmless
  <2>2. CASE \E e1 \in Entries : e1.do \in {"log", "return"} /\ Chain(s, c) = <<e1>>
    <3>1. PICK e1 \in Entries : e1.do \in {"log", "return"} /\ Chain(s, c) = <<e1>>
      BY <2>2
    <3>2. Chain(s, c) \in Seq(Entries) /\ Len(Chain(s, c)) = 1 /\ Chain(s, c)[1] = e1
      BY <3>1
    <3>3. \A i \in 1 .. Len(Chain(s, c)) : Chain(s, c)[i].do \in {"log", "return"}
      BY <3>1, <3>2
    <3> QED
      BY <1>5, <3>2, <3>3, Harmless
  <2>3. CASE \E e1, e2 \in Entries : /\ e1.do \in {"log", "return"} /\ e2.do \in {"log", "return"}
                                     /\ Chain(s, c) = <<e1, e2>>
    <3>1. PICK e1 \in Entries, e2 \in Entries :
            e1.do \in {"log", "return"} /\ e2.do \in {"log", "return"} /\ Chain(s, c) = <<e1, e2>>
      BY <2>3
    <3>2. Chain(s, c) \in Seq(Entries) /\ Len(Chain(s, c)) = 2
          /\ Chain(s, c)[1] = e1 /\ Chain(s, c)[2] = e2
      BY <3>1
    <3>3. \A i \in 1 .. Len(Chain(s, c)) : Chain(s, c)[i].do \in {"log", "return"}
      BY <3>1, <3>2
    <3> QED
      BY <1>5, <3>2, <3>3, Harmless
  <2> QED
    BY <1>5, <2>1, <2>2, <2>3
<1>6. /\ LetGo(s, p, <<"before-logging", d>>) /\ LetGo(s, p, <<"after-logging", d>>)
      /\ LetGo(s, p, <<"logging-deny", d>>) /\ LetGo(s, p, <<"user-egress", d>>)
  BY LetGoIs
<1>7. Obeys(s, p, <<"before-logging", d>>)
  <2> DEFINE c == <<"before-logging", d>>
             s1 == CtState({"new"}) \cap Limit3
  <2>1. c[1] # "base" /\ LetGo(s, p, c) /\ Chain(s, c) = BeforeLogging(s)
        /\ s1 \in SUBSET Packets
    BY <1>3, <1>6, ChainIs
  <2>2. \/ BeforeLogging(s) = <<Log(s1)>> \/ BeforeLogging(s) = <<Log(Limit3)>>
        \/ BeforeLogging(s) = <<Log(Packets)>> \/ BeforeLogging(s) = << >>
    BY <1>1 DEF BeforeLogging
  <2> HIDE DEF c, s1
  <2> QED
    BY <1>2, <1>3, <1>5, <2>1, <2>2 DEF c
<1>8. Obeys(s, p, <<"after-logging", d>>)
  <2> DEFINE c == <<"after-logging", d>>
  <2>1. c[1] # "base" /\ LetGo(s, p, c) /\ Chain(s, c) = AfterLogging(s, d)
    BY <1>6, ChainIs
  <2>2. AfterLogging(s, d) = <<Log(LogLimit(s))>> \/ AfterLogging(s, d) = << >>
    BY DEF AfterLogging
  <2> HIDE DEF c
  <2> QED
    BY <1>2, <1>3, <1>5, <2>1, <2>2 DEF c
<1>9. Obeys(s, p, <<"logging-deny", d>>)
  <2> DEFINE c == <<"logging-deny", d>>
             s1 == CtState({"invalid"}) \cap Limit3
             s2 == CtState({"invalid"}) \cap LogLimit(s)
             s3 == LogLimit(s)
  <2>1. c[1] # "base" /\ LetGo(s, p, c) /\ Chain(s, c) = LoggingDeny(s)
        /\ s1 \in SUBSET Packets /\ s2 \in SUBSET Packets /\ s3 \in SUBSET Packets
    BY <1>3, <1>6, ChainIs
  <2>2. \/ LoggingDeny(s) = << >> \/ LoggingDeny(s) = <<Return(s1), Log(Limit3)>>
        \/ LoggingDeny(s) = <<Log(s2), Log(s3)>>
    BY <1>1 DEF LoggingDeny
  <2> HIDE DEF c, s1, s2, s3
  <2> QED
    BY <1>2, <1>3, <1>5, <2>1, <2>2 DEF c
<1>10. Obeys(s, p, <<"user-egress", d>>)
  <2> DEFINE c == <<"user-egress", d>>
  <2>1. c[1] # "base" /\ LetGo(s, p, c) /\ Chain(s, c) = << >>
    BY <1>6, ChainIs
  <2> HIDE DEF c
  <2> QED
    BY <1>5, <2>1 DEF c
<1> QED
  BY <1>7, <1>8, <1>9, <1>10

\* The chains that end in a verdict, whatever they are asked about.
LEMMA ObeysVerdicts ==
  ASSUME NEW s \in States, NEW p \in Packets, NEW d
  PROVE  /\ Obeys(s, p, <<"skip-to-policy", d>>)
         /\ Obeys(s, p, <<"reject", d>>)
         /\ Obeys(s, p, <<"user-limit-accept", d>>)
         /\ Obeys(s, p, <<"user-limit", d>>)
         /\ Obeys(s, p, <<"track", d>>)
<1>1. /\ \A S : /\ Log(S).do = "log" /\ Accept(S).do = "accept" /\ Drop(S).do = "drop"
                /\ Reject(S).do = "reject" /\ Accept(S).on = S /\ Drop(S).on = S
                /\ Reject(S).on = S
      /\ \A S \in SUBSET Packets : /\ Log(S) \in Entries /\ Accept(S) \in Entries
                                   /\ Drop(S) \in Entries /\ Reject(S) \in Entries
  BY Fields, EntryTypes
<1>2. Limit3 \in SUBSET Packets /\ Packets \in SUBSET Packets
  BY MatchTypes
<1>3. PastBefore(s, p) /\ FirstMatch(s, p) = 0 => Judge(s, p) = PolicyDecides(s, p)
  BY JudgeCases
<1>4. Obeys(s, p, <<"skip-to-policy", d>>)
  <2> DEFINE c == <<"skip-to-policy", d>>
             R == Chain(s, c)
             e == PolicyVerdict(s, d)
  <2> SUFFICES ASSUME Within(s, p, c) PROVE Obeys(s, p, c)
    BY DEF Obeys
  <2>1. d = p.dir /\ PastBefore(s, p) /\ FirstMatch(s, p) = 0 /\ R = <<e>> /\ c[1] # "base"
    BY WithinIs, ChainIs
  <2>2. e \in Entries /\ e.do = Judge(s, p) /\ e.do \in {"accept", "drop", "reject"} /\ e.on = Packets
    BY <1>1, <1>2, <1>3, <2>1 DEF PolicyVerdict, PolicyDecides
  <2> HIDE DEF e, c
  <2>3. R \in Seq(Entries) /\ Len(R) = 1 /\ R[1] = e
    BY <2>1, <2>2
  <2>4. ~Through(s, p, c, 2)
    <3>1. 1 \in 1 .. 2 - 1
      OBVIOUS
    <3> QED
      BY <2>2, <2>3, <3>1 DEF Through
  <2> QED
    BY <2>1, <2>2, <2>3, <2>4 DEF Obeys
<1>5. Obeys(s, p, <<"reject", d>>)
  <2> DEFINE c == <<"reject", d>>
             R == Chain(s, c)
             e == Reject(Packets)
  <2> SUFFICES ASSUME Within(s, p, c) PROVE Obeys(s, p, c)
    BY DEF Obeys
  <2>1. /\ d = p.dir /\ PastBefore(s, p) /\ FirstMatch(s, p) = 0
        /\ R = RejectChain(s, d) /\ c[1] # "base"
        /\ LetGo(s, p, c) <=> Policy(s, p.dir) # "reject"
    BY WithinIs, LetGoIs, ChainIs
  <2>2. e \in Entries /\ e.do = "reject" /\ e.on = Packets
    BY <1>1, <1>2
  <2> HIDE DEF e, c
  <2>3. CASE Policy(s, d) = "reject"
    <3>1. R = <<e>>
      BY <2>1, <2>3 DEF RejectChain, e
    <3>2. R \in Seq(Entries) /\ Len(R) = 1 /\ R[1] = e
      BY <2>2, <3>1
    <3>3. Judge(s, p) = "reject"
      BY <1>3, <2>1, <2>3 DEF PolicyDecides
    <3>4. ~Through(s, p, c, 2)
      <4>1. 1 \in 1 .. 2 - 1
        OBVIOUS
      <4> QED
        BY <2>2, <3>2, <4>1 DEF Through
    <3> QED
      BY <2>1, <2>2, <3>2, <3>3, <3>4 DEF Obeys
  <2>4. CASE Policy(s, d) # "reject"
    <3>1. R = << >> /\ LetGo(s, p, c)
      BY <2>1, <2>4 DEF RejectChain
    <3> QED
      BY <2>1, <3>1 DEF Obeys
  <2> QED
    BY <2>3, <2>4
<1>6. Obeys(s, p, <<"user-limit-accept", d>>)
  <2> DEFINE c == <<"user-limit-accept", d>>
             R == Chain(s, c)
             e == Accept(Packets)
  <2> SUFFICES ASSUME Within(s, p, c) PROVE Obeys(s, p, c)
    BY DEF Obeys
  <2>1. Judge(s, p) = "accept" /\ R = <<e>> /\ c[1] # "base"
    BY WithinIs, ChainIs
  <2>2. e \in Entries /\ e.do = "accept" /\ e.on = Packets
    BY <1>1, <1>2
  <2> HIDE DEF e, c
  <2>3. R \in Seq(Entries) /\ Len(R) = 1 /\ R[1] = e
    BY <2>1, <2>2
  <2>4. ~Through(s, p, c, 2)
    <3>1. 1 \in 1 .. 2 - 1
      OBVIOUS
    <3> QED
      BY <2>2, <2>3, <3>1 DEF Through
  <2> QED
    BY <2>1, <2>2, <2>3, <2>4 DEF Obeys
<1>7. Obeys(s, p, <<"user-limit", d>>)
  <2> DEFINE c == <<"user-limit", d>>
             R == Chain(s, c)
             e == Reject(Packets)
             l == Log(Limit3)
  <2> SUFFICES ASSUME Within(s, p, c) PROVE Obeys(s, p, c)
    BY DEF Obeys
  <2>1. /\ Judge(s, p) = "reject" /\ c[1] # "base"
        /\ R = (IF s.logging = "off" THEN << >> ELSE <<l>>) \o <<e>>
    BY WithinIs, ChainIs DEF UserLimit
  <2>2. e \in Entries /\ e.do = "reject" /\ e.on = Packets /\ l \in Entries /\ l.do = "log"
    BY <1>1, <1>2
  <2> HIDE DEF e, l, c
  <2>3. \/ R \in Seq(Entries) /\ Len(R) = 1 /\ R[1] = e
        \/ R \in Seq(Entries) /\ Len(R) = 2 /\ R[1] = l /\ R[2] = e
    <3>1. CASE s.logging = "off"
      <4>1. R = << >> \o <<e>>
        BY <2>1, <3>1
      <4>2. << >> \o <<e>> \in Seq(Entries) /\ Len(<< >> \o <<e>>) = 1 /\ (<< >> \o <<e>>)[1] = e
        BY <2>2
      <4> HIDE DEF R
      <4> QED
        BY <4>1, <4>2
    <3>2. CASE s.logging # "off"
      <4>1. R = <<l>> \o <<e>>
        BY <2>1, <3>2
      <4>2. /\ <<l>> \o <<e>> \in Seq(Entries) /\ Len(<<l>> \o <<e>>) = 2
            /\ (<<l>> \o <<e>>)[1] = l /\ (<<l>> \o <<e>>)[2] = e
        BY <2>2
      <4> HIDE DEF R
      <4> QED
        BY <4>1, <4>2
    <3> QED
      BY <3>1, <3>2
  <2>4. /\ Len(R) = 1 => ~Through(s, p, c, 2)
        /\ Len(R) = 2 => ~Through(s, p, c, 3)
    <3>1. 1 \in 1 .. 2 - 1 /\ 2 \in 1 .. 3 - 1
      OBVIOUS
    <3> QED
      BY <2>2, <2>3, <3>1 DEF Through
  <2> HIDE DEF R
  <2>5. \A i \in 1 .. Len(R) : R[i] = l \/ R[i] = e
    BY <2>3
  <2>6. ~Through(s, p, c, Len(R) + 1)
    <3>1. CASE Len(R) = 1
      <4>1. Len(R) + 1 = 2
        BY <3>1
      <4> QED
        BY <2>4, <3>1, <4>1
    <3>2. CASE Len(R) = 2
      <4>1. Len(R) + 1 = 3
        BY <3>2
      <4> QED
        BY <2>4, <3>2, <4>1
    <3> QED
      BY <2>3, <3>1, <3>2
  <2> QED
    BY <2>1, <2>2, <2>3, <2>5, <2>6 DEF Obeys, R
<1>8. Obeys(s, p, <<"track", d>>)
  <2> DEFINE c == <<"track", d>>
             R == Chain(s, c)
             s1 == L4proto("tcp") \cap CtState({"new"})
             s2 == L4proto("udp") \cap CtState({"new"})
             e1 == Accept(s1)
             e2 == Accept(s2)
  <2> SUFFICES ASSUME Within(s, p, c) PROVE Obeys(s, p, c)
    BY DEF Obeys
  <2>1. /\ d = p.dir /\ PastBefore(s, p) /\ FirstMatch(s, p) = 0
        /\ R = TrackChain(s, d) /\ c[1] # "base" /\ LetGo(s, p, c)
    BY WithinIs, LetGoIs, ChainIs
  <2>2. e1 \in Entries /\ e1.do = "accept" /\ e2 \in Entries /\ e2.do = "accept"
    <3>1. s1 \in SUBSET Packets /\ s2 \in SUBSET Packets
      BY MatchTypes
    <3> HIDE DEF s1, s2
    <3>2. Accept(s1) \in Entries /\ Accept(s2) \in Entries
      BY <3>1, EntryTypes
    <3>3. Accept(s1).do = "accept" /\ Accept(s2).do = "accept"
      BY Fields
    <3> QED
      BY <3>2, <3>3
  <2>3. Policy(s, d) = "allow" => R = <<e1, e2>> /\ Judge(s, p) = "accept"
    BY <1>3, <2>1 DEF TrackChain, PolicyDecides
  <2>4. Policy(s, d) # "allow" => R = << >>
    BY <2>1 DEF TrackChain
  <2> HIDE DEF e1, e2, c, R
  <2>5. \/ R = << >>
        \/ R \in Seq(Entries) /\ Len(R) = 2 /\ R[1] = e1 /\ R[2] = e2 /\ Judge(s, p) = "accept"
    <3>1. /\ <<e1, e2>> \in Seq(Entries) /\ Len(<<e1, e2>>) = 2
          /\ <<e1, e2>>[1] = e1 /\ <<e1, e2>>[2] = e2
      BY <2>2
    <3> QED
      BY <2>3, <2>4, <3>1
  <2>6. CASE R = << >>
    BY <2>1, <2>6 DEF Obeys, R
  <2>7. CASE R \in Seq(Entries) /\ Len(R) = 2 /\ R[1] = e1 /\ R[2] = e2 /\ Judge(s, p) = "accept"
    <3>1. \A i \in 1 .. Len(R) : R[i].do = "accept"
      BY <2>2, <2>7
    <3> QED
      BY <2>1, <2>7, <3>1 DEF Obeys, R
  <2> QED
    BY <2>5, <2>6, <2>7
<1> QED
  BY <1>4, <1>5, <1>6, <1>7, <1>8

\* The chain that drops what is for nobody here.
LEMMA ObeysNotLocal ==
  ASSUME NEW s \in States, NEW p \in Packets, NEW d
  PROVE  Obeys(s, p, <<"not-local", d>>)
<1> DEFINE c == <<"not-local", d>>
           R == Chain(s, c)
           deny == <<"logging-deny", "any">>
           e1 == Return(FibAddrType("local"))
           e2 == Return(FibAddrType("multicast"))
           e3 == Return(FibAddrType("broadcast"))
           e4 == Jump(Limit3, deny)
           e5 == Drop(Packets)
<1> SUFFICES ASSUME Within(s, p, c) PROVE Obeys(s, p, c)
  BY DEF Obeys
<1>1. /\ p.dir = "in" /\ ~p.v6 /\ Undecided(s, p) /\ Within(s, p, deny)
      /\ R = <<e1, e2, e3, e4, e5>> /\ c[1] # "base"
      /\ LetGo(s, p, c) <=> ~Elsewhere(p)
  BY WithinIs, LetGoIs, ChainIs DEF NotLocal
<1>2. deny \in Chains
  BY ChainNames
<1>3. /\ e1 \in Entries /\ e2 \in Entries /\ e3 \in Entries /\ e5 \in Entries
      /\ e1.do = "return" /\ e2.do = "return" /\ e3.do = "return"
      /\ e5.do = "drop" /\ e5.on = Packets
  <2>1. /\ e1 \in Entries /\ e2 \in Entries /\ e3 \in Entries
    BY MatchTypes, EntryTypes
  <2>2. e5 \in Entries
    BY EntryTypes
  <2> QED
    BY <2>1, <2>2, Fields
<1>31. e4 \in Entries /\ e4.do = "jump" /\ e4.to = deny
  <2>1. Limit3 \in SUBSET Packets
    BY MatchTypes
  <2> HIDE DEF deny
  <2>2. e4 \in Entries
    BY <1>2, <2>1, EntryTypes
  <2> QED
    BY <2>2, Fields
<1>32. /\ p \in e1.on <=> p.cast = "local"
       /\ p \in e2.on <=> p.cast = "multicast"
       /\ p \in e3.on <=> p.cast = "broadcast"
  BY Fields DEF FibAddrType
<1>4. p.cast \in {"local", "multicast", "broadcast", "other"}
  BY PacketsAssumption DEF PacketsAssumption
<1>5. Elsewhere(p) <=> p.cast = "other"
  BY <1>1 DEF Elsewhere
<1>6. Elsewhere(p) => Judge(s, p) = "drop"
  BY <1>1, JudgeCases
<1> HIDE DEF c, e1, e2, e3, e4, e5, deny
<1>7. /\ R \in Seq(Entries) /\ Len(R) = 5
      /\ R[1] = e1 /\ R[2] = e2 /\ R[3] = e3 /\ R[4] = e4 /\ R[5] = e5
  BY <1>1, <1>3, <1>31
<1> HIDE DEF R
<1>8. \A n \in {4, 5, 6} : Through(s, p, c, n) => p.cast = "other"
  <2> SUFFICES ASSUME NEW n \in {4, 5, 6}, Through(s, p, c, n) PROVE p.cast = "other"
    OBVIOUS
  <2>1. 1 \in 1 .. n - 1 /\ 2 \in 1 .. n - 1 /\ 3 \in 1 .. n - 1
    OBVIOUS
  <2>2. p \notin R[1].on /\ p \notin R[2].on /\ p \notin R[3].on
    BY <1>3, <1>7, <2>1 DEF Through, R
  <2> QED
    BY <1>32, <1>4, <1>7, <2>2
<1>9. ~Through(s, p, c, 6)
  <2>1. 5 \in 1 .. 6 - 1
    OBVIOUS
  <2> QED
    BY <1>3, <1>7, <2>1 DEF Through, R
<1>10. ASSUME NEW i \in 1 .. 5, Through(s, p, c, i), p \in R[i].on
       PROVE  /\ R[i].do \in {"accept", "drop", "reject"} => R[i].do = Judge(s, p)
              /\ R[i].do = "jump" => R[i].to \in Chains /\ Within(s, p, R[i].to)
              /\ R[i].do = "return" => LetGo(s, p, c)
  <2>1. i \in {1, 2, 3} \/ i = 4 \/ i = 5
    BY <1>10
  <2>2. CASE i \in {1, 2, 3}
    BY <1>1, <1>10, <1>3, <1>32, <1>5, <1>7, <2>2
  <2>3. CASE i = 4
    BY <1>1, <1>2, <1>31, <1>7, <2>3
  <2>4. CASE i = 5
    BY <1>10, <1>3, <1>5, <1>6, <1>7, <1>8, <2>4
  <2> QED
    BY <2>1, <2>2, <2>3, <2>4
<1>11. Len(R) = 5 /\ Len(R) + 1 = 6
  BY <1>7
<1> QED
  BY <1>1, <1>7, <1>9, <1>10, <1>11 DEF Obeys, R

\* The after chains, which refuse some packets without a word.
LEMMA ObeysAfter ==
  ASSUME NEW s \in States, NEW p \in Packets, NEW d
  PROVE  Obeys(s, p, <<"after", d>>)
<1> DEFINE c == <<"after", d>>
           R == Chain(s, c)
           skip == <<"skip-to-policy", d>>
           ports(v6, proto, ns) == Nfproto(v6) \cap UNION {PortEq(proto, "dport", n) : n \in ns}
           s1 == Nfproto(FALSE) \cap FibAddrType("broadcast")
           s2 == ports(FALSE, "udp", {137, 138})
           s3 == ports(FALSE, "tcp", {139, 445})
           s4 == DhcpAnswer \cup ports(TRUE, "udp", {546, 547})
           e1 == Jump(s1, skip)
           e2 == Jump(s2, skip)
           e3 == Jump(s3, skip)
           e4 == Jump(s4, skip)
<1> SUFFICES ASSUME Within(s, p, c) PROVE Obeys(s, p, c)
  BY DEF Obeys
<1>1. /\ d = p.dir /\ c[1] # "base" /\ LetGo(s, p, c) /\ Within(s, p, skip)
      /\ R = After(d)
  BY WithinIs, LetGoIs, ChainIs
<1>2. skip \in Chains
  BY <1>1, PacketsAssumption DEF PacketsAssumption, Chains
<1>3. /\ s1 \in SUBSET Packets /\ s2 \in SUBSET Packets /\ s3 \in SUBSET Packets
      /\ s4 \in SUBSET Packets
  <2>1. \A v6 : Nfproto(v6) \in SUBSET Packets
    BY MatchTypes
  <2>2. DhcpAnswer \in SUBSET Packets
    BY MatchTypes
  <2>3. \A v6, proto, ns : ports(v6, proto, ns) \in SUBSET Packets
    BY <2>1
  <2>31. ports(TRUE, "udp", {546, 547}) \in SUBSET Packets
    BY <2>1
  <2>4. s1 \in SUBSET Packets
    BY <2>1
  <2> HIDE DEF ports
  <2>5. s2 \in SUBSET Packets /\ s3 \in SUBSET Packets
    BY <2>3
  <2>6. s4 \in SUBSET Packets
    BY <2>2, <2>31
  <2> QED
    BY <2>4, <2>5, <2>6
<1> HIDE DEF s1, s2, s3, s4, skip, c
<1>4. /\ e1 \in Entries /\ e2 \in Entries /\ e3 \in Entries /\ e4 \in Entries
      /\ e1.do = "jump" /\ e2.do = "jump" /\ e3.do = "jump" /\ e4.do = "jump"
      /\ e1.to = skip /\ e2.to = skip /\ e3.to = skip /\ e4.to = skip
  <2>1. \A S \in SUBSET Packets : Jump(S, skip) \in Entries
    BY <1>2, EntryTypes
  <2>2. \A S : Jump(S, skip).do = "jump" /\ Jump(S, skip).to = skip
    BY Fields
  <2> QED
    BY <1>3, <2>1, <2>2
<1>5. After(d) = IF d # "in" THEN << >> ELSE <<e1, e2, e3, e4>>
  BY DEF After, s1, s2, s3, s4, skip
<1> HIDE DEF e1, e2, e3, e4
<1>6. CASE d # "in"
  <2>1. R = << >>
    BY <1>1, <1>5, <1>6
  <2> QED
    BY <1>1, <2>1 DEF Obeys
<1>7. CASE d = "in"
  <2>1. R = <<e1, e2, e3, e4>>
    BY <1>1, <1>5, <1>7
  <2>2. /\ <<e1, e2, e3, e4>> \in Seq(Entries) /\ Len(<<e1, e2, e3, e4>>) = 4
        /\ <<e1, e2, e3, e4>>[1] = e1 /\ <<e1, e2, e3, e4>>[2] = e2
        /\ <<e1, e2, e3, e4>>[3] = e3 /\ <<e1, e2, e3, e4>>[4] = e4
    BY <1>4
  <2>3. R \in Seq(Entries) /\ \A i \in 1 .. Len(R) : R[i].do = "jump" /\ R[i].to = skip
    <3>1. R \in Seq(Entries) /\ Len(R) = 4 /\ R[1] = e1 /\ R[2] = e2 /\ R[3] = e3 /\ R[4] = e4
      BY <2>1, <2>2
    <3>2. \A i \in 1 .. 4 : i = 1 \/ i = 2 \/ i = 3 \/ i = 4
      OBVIOUS
    <3> HIDE DEF R
    <3> QED
      BY <1>4, <3>1, <3>2
  <2> QED
    BY <1>1, <1>2, <2>3 DEF Obeys
<1> QED
  BY <1>6, <1>7

-----------------------------------------------------------------------------
(* The rules of the user.                                                  *)

-----------------------------------------------------------------------------
(* The chains of the users' rules.                                         *)

\* The rules of a state, and the sets that they name.
LEMMA RuleTypes ==
  ASSUME NEW s \in States, NEW r \in RulesOf(s)
  PROVE  /\ r \in Rules
         /\ r.src.set # NoSet => r.src.set \in DOMAIN s.sets
         /\ r.dst.set # NoSet => r.dst.set \in DOMAIN s.sets
<1>1. s.rules4 \in Seq(Rules) /\ s.rules6 \in Seq(Rules)
  BY StatesAssumption DEF StatesAssumption
<1>2. r \in Rules
  BY <1>1 DEF RulesOf, ToSet
<1>3. {r.src.set, r.dst.set} \subseteq {NoSet} \cup DOMAIN s.sets
  BY StatesAssumption DEF StatesAssumption
<1> QED
  BY <1>2, <1>3

\* What a rule says of an address, and the expression that it is compiled to.
LEMMA EndpointFits ==
  ASSUME SetsApart, NEW s \in States, NEW p \in Packets, NEW a, NEW v6, p.v6 = v6,
         a.set # NoSet => a.set \in DOMAIN s.sets, NEW which
  PROVE  p \in EndpointAddr(s, a, which, v6) <=> InEndpoint(s, a, p[which], v6)
<1>1. CASE a.set # NoSet
  <2> DEFINE nets == s.sets[a.set]
  <2>1. nets \in SUBSET Nets /\ IsFiniteSet(nets) /\ TopApart(nets)
    BY <1>1, StatesAssumption DEF StatesAssumption, SetsApart
  <2>2. InSet(p[which], Elements(nets, v6)) <=> \E n \in nets : n.v6 = v6 /\ p[which] \in Block(n)
    BY <2>1, ElementsHold
  <2>3. p \in SetMatch(which, Elements(nets, v6), v6) <=> InSet(p[which], Elements(nets, v6))
    BY DEF SetMatch
  <2> QED
    BY <1>1, <2>2, <2>3 DEF EndpointAddr, InEndpoint
<1>2. CASE a.set = NoSet
  BY <1>2 DEF EndpointAddr, InEndpoint, AddrMatch
<1> QED
  BY <1>1, <1>2

\* A rule matches a packet when one of its passes does.
LEMMA VariantsFit ==
  ASSUME SetsApart, PortsFit, NEW s \in States, NEW r \in RulesOf(s), NEW p \in Packets,
         NEW v6 \in BOOLEAN, Active(r), r.dir = p.dir
  PROVE  Matches(s, r, v6, p) <=> \E v \in ToSet(ProtoVariants(r)) : p \in RuleMatch(s, r, v, v6)
<1> DEFINE V == ToSet(ProtoVariants(r))
           protos == PortProtos(r.src.ports \cup r.dst.ports)
           sides == /\ r.iif = AnyIface \/ p.iif \in Ifaces[r.iif]
                    /\ r.oif = AnyIface \/ p.oif \in Ifaces[r.oif]
                    /\ InEndpoint(s, r.src, p.src, v6) /\ InEndpoint(s, r.dst, p.dst, v6)
           ins == InPorts(r.src.ports, p.sport, p.proto) /\ InPorts(r.dst.ports, p.dport, p.proto)
           none == r.src.ports = {} /\ r.dst.ports = {}
           exprs(v) == /\ p \in PortExprs(r.src.ports, "sport", v)
                       /\ p \in PortExprs(r.dst.ports, "dport", v)
<1>1. /\ r.icmp # AnyType => r.proto # "any"
      /\ \A ports \in {r.src.ports, r.dst.ports} \ {{}} :
           /\ r.proto \in {"any", "tcp", "udp"}
           /\ \A proto \in V : \E q \in ports : q.proto \in {"any", proto}
  BY DEF PortsFit
<1>2. /\ r.proto # "any" => V = {r.proto}
      /\ r.proto = "any" => V = IF protos = {} THEN {"any"} ELSE protos
      /\ r.proto = "any" => protos \subseteq {"tcp", "udp"}
  BY ProtosAre
<1>3. /\ r.src.set # NoSet => r.src.set \in DOMAIN s.sets
      /\ r.dst.set # NoSet => r.dst.set \in DOMAIN s.sets
  BY RuleTypes
<1>4. r \in Rules /\ r.src.ports \in SUBSET [lo : Nat, hi : Nat, proto : {"any", "tcp", "udp"}]
      /\ r.dst.ports \in SUBSET [lo : Nat, hi : Nat, proto : {"any", "tcp", "udp"}]
  BY RuleTypes DEF Rules, Endpoints
<1>5. protos = {} <=> none
  BY <1>4 DEF PortProtos
<1>6. \A q \in r.src.ports \cup r.dst.ports :
         /\ q.proto \in {"any", "tcp", "udp"}
         /\ q.proto = "any" => protos = {"tcp", "udp"}
         /\ q.proto # "any" => q.proto \in protos
  BY <1>4 DEF PortProtos
<1>7. Matches(s, r, v6, p) <=>
        /\ p.v6 = v6 /\ sides /\ ins
        /\ r.proto \in {"any", p.proto} /\ r.icmp \in {AnyType, p.icmp}
        /\ ~none => p.proto \in {"tcp", "udp"}
  BY DEF Matches, Active
<1> HIDE DEF protos
<1>8. ASSUME NEW v \in V
      PROVE  p \in RuleMatch(s, r, v, v6) <=>
               /\ p.v6 = v6 /\ sides
               /\ v \in {"any", p.proto}
               /\ r.icmp = AnyType \/ (p.proto = v /\ p.icmp = r.icmp)
               /\ v \in {"tcp", "udp"} => exprs(v)
  <2>1. p \in RuleMatch(s, r, v, v6) <=>
          /\ p \in Nfproto(v6)
          /\ p \in (IF r.iif = AnyIface THEN Packets ELSE Iif(r.iif))
          /\ p \in (IF r.oif = AnyIface THEN Packets ELSE Oif(r.oif))
          /\ p \in (IF v = "any" THEN Packets ELSE L4proto(v))
          /\ p \in (IF r.icmp = AnyType THEN Packets ELSE IcmpType(v, {r.icmp}))
          /\ p \in EndpointAddr(s, r.src, "src", v6)
          /\ p \in EndpointAddr(s, r.dst, "dst", v6)
          /\ p \in (IF v \notin {"tcp", "udp"} THEN Packets
                    ELSE PortExprs(r.src.ports, "sport", v) \cap PortExprs(r.dst.ports, "dport", v))
    BY DEF RuleMatch
  <2>2. /\ p \in Nfproto(v6) <=> p.v6 = v6
        /\ p \in (IF r.iif = AnyIface THEN Packets ELSE Iif(r.iif))
             <=> (r.iif = AnyIface \/ p.iif \in Ifaces[r.iif])
        /\ p \in (IF r.oif = AnyIface THEN Packets ELSE Oif(r.oif))
             <=> (r.oif = AnyIface \/ p.oif \in Ifaces[r.oif])
    BY DEF Nfproto, Iif, Oif
  <2>3. /\ p \in (IF v = "any" THEN Packets ELSE L4proto(v)) <=> v \in {"any", p.proto}
        /\ p \in (IF r.icmp = AnyType THEN Packets ELSE IcmpType(v, {r.icmp}))
             <=> (r.icmp = AnyType \/ (p.proto = v /\ p.icmp = r.icmp))
    BY DEF L4proto, IcmpType
  <2>4. p \in (IF v \notin {"tcp", "udp"} THEN Packets
               ELSE PortExprs(r.src.ports, "sport", v) \cap PortExprs(r.dst.ports, "dport", v))
          <=> (v \in {"tcp", "udp"} => exprs(v))
    OBVIOUS
  <2>5. p.v6 = v6 => /\ p \in EndpointAddr(s, r.src, "src", v6) <=> InEndpoint(s, r.src, p.src, v6)
                     /\ p \in EndpointAddr(s, r.dst, "dst", v6) <=> InEndpoint(s, r.dst, p.dst, v6)
    <3> SUFFICES ASSUME p.v6 = v6
                 PROVE  /\ p \in EndpointAddr(s, r.src, "src", v6) <=> InEndpoint(s, r.src, p.src, v6)
                        /\ p \in EndpointAddr(s, r.dst, "dst", v6) <=> InEndpoint(s, r.dst, p.dst, v6)
      OBVIOUS
    <3>1. /\ p \in EndpointAddr(s, r.src, "src", v6) <=> InEndpoint(s, r.src, p["src"], v6)
          /\ p \in EndpointAddr(s, r.dst, "dst", v6) <=> InEndpoint(s, r.dst, p["dst"], v6)
      BY <1>3, EndpointFits
    <3>2. p["src"] = p.src /\ p["dst"] = p.dst
      OBVIOUS
    <3> QED
      BY <3>1, <3>2
  <2> HIDE DEF V, exprs
  <2> QED
    BY <2>1, <2>2, <2>3, <2>4, <2>5
<1>9. ASSUME NEW v \in V, p.proto = v
      PROVE  exprs(v) <=> ins
  <2>1. /\ r.src.ports # {} => \E q \in r.src.ports : q.proto \in {"any", v}
        /\ r.dst.ports # {} => \E q \in r.dst.ports : q.proto \in {"any", v}
    BY <1>1
  <2>2. /\ p \in PortExprs(r.src.ports, "sport", v) <=> InPorts(r.src.ports, p["sport"], v)
        /\ p \in PortExprs(r.dst.ports, "dport", v) <=> InPorts(r.dst.ports, p["dport"], v)
    BY <1>9, <2>1, PortsMatch
  <2>3. p["sport"] = p.sport /\ p["dport"] = p.dport
    OBVIOUS
  <2> QED
    BY <1>9, <2>2, <2>3
<1>10. none => ins
  BY DEF InPorts
<1>11. ~none => r.proto \in {"any", "tcp", "udp"}
  BY <1>1
<1>12. ins /\ ~none => \E q \in r.src.ports \cup r.dst.ports : q.proto \in {"any", p.proto}
  BY DEF InPorts
<1> HIDE DEF sides, ins, none, exprs, V
<1>13. CASE r.proto # "any"
  <2>1. V = {r.proto}
    BY <1>2, <1>13
  <2>2. \A v \in V : p \in RuleMatch(s, r, v, v6) <=>
           /\ p.v6 = v6 /\ sides /\ p.proto = v
           /\ r.icmp \in {AnyType, p.icmp}
           /\ v \in {"tcp", "udp"} => ins
    <3> SUFFICES ASSUME NEW v \in V
                 PROVE  p \in RuleMatch(s, r, v, v6) <=>
                          /\ p.v6 = v6 /\ sides /\ p.proto = v
                          /\ r.icmp \in {AnyType, p.icmp}
                          /\ v \in {"tcp", "udp"} => ins
      OBVIOUS
    <3>1. v # "any"
      BY <1>13, <2>1
    <3>2. p.proto = v => (exprs(v) <=> ins)
      BY <1>9
    <3>3. p \in RuleMatch(s, r, v, v6) <=>
            /\ p.v6 = v6 /\ sides
            /\ v \in {"any", p.proto}
            /\ r.icmp = AnyType \/ (p.proto = v /\ p.icmp = r.icmp)
            /\ v \in {"tcp", "udp"} => exprs(v)
      BY <1>8
    <3> QED
      BY <3>1, <3>2, <3>3
  <2> QED
    BY <1>7, <1>10, <1>11, <1>13, <2>1, <2>2 DEF V
<1>14. CASE r.proto = "any" /\ none
  <2>1. V = {"any"} /\ r.icmp = AnyType
    BY <1>1, <1>2, <1>5, <1>14
  <2>2. \A v \in V : p \in RuleMatch(s, r, v, v6) <=> p.v6 = v6 /\ sides
    <3>1. \A v \in V : v = "any"
      BY <2>1
    <3> QED
      BY <1>8, <2>1, <3>1
  <2> QED
    BY <1>7, <1>10, <1>14, <2>1, <2>2 DEF V
<1>15. CASE r.proto = "any" /\ ~none
  <2>1. V = protos /\ V \subseteq {"tcp", "udp"} /\ r.icmp = AnyType
    BY <1>1, <1>2, <1>5, <1>15
  <2>2. \A v \in V : p \in RuleMatch(s, r, v, v6) <=> p.v6 = v6 /\ sides /\ p.proto = v /\ ins
    <3> SUFFICES ASSUME NEW v \in V
                 PROVE  p \in RuleMatch(s, r, v, v6) <=> p.v6 = v6 /\ sides /\ p.proto = v /\ ins
      OBVIOUS
    <3>1. v # "any" /\ v \in {"tcp", "udp"}
      BY <2>1
    <3>2. p.proto = v => (exprs(v) <=> ins)
      BY <1>9
    <3>3. p \in RuleMatch(s, r, v, v6) <=>
            /\ p.v6 = v6 /\ sides
            /\ v \in {"any", p.proto}
            /\ r.icmp = AnyType \/ (p.proto = v /\ p.icmp = r.icmp)
            /\ v \in {"tcp", "udp"} => exprs(v)
      BY <1>8
    <3> QED
      BY <2>1, <3>1, <3>2, <3>3
  <2>3. ins /\ p.proto \in {"tcp", "udp"} => p.proto \in V
    <3> SUFFICES ASSUME ins, p.proto \in {"tcp", "udp"} PROVE p.proto \in V
      OBVIOUS
    <3>1. PICK q \in r.src.ports \cup r.dst.ports : q.proto \in {"any", p.proto}
      BY <1>12, <1>15
    <3> QED
      BY <1>6, <2>1, <3>1
  <2> QED
    BY <1>7, <1>15, <2>1, <2>2, <2>3 DEF V
<1> QED
  BY <1>13, <1>14, <1>15

\* What a compiled rule does to a packet of its direction.
LEMMA BlockActs ==
  ASSUME SetsApart, PortsFit, NEW s \in States, NEW r \in RulesOf(s), NEW p \in Packets,
         NEW v6 \in BOOLEAN, Active(r), r.dir = p.dir
  PROVE  LET B == CompileRule(s, r, v6) IN
         /\ \A k \in 1 .. Len(B) :
              /\ p \in B[k].on => Matches(s, r, v6, p)
              /\ B[k].do \in {"accept", "drop", "reject", "jump"}
              /\ B[k].do = "jump" => B[k].to \in Chains
              /\ Soft(B[k]) => B[k].to = <<"user-logging", r.dir>>
              /\ p \in B[k].on =>
                   \/ Soft(B[k])
                   \/ Settles(B[k], r, p)
                   \/ \E j \in 1 .. k - 1 : p \in B[j].on /\ ~Soft(B[j])
         /\ Matches(s, r, v6, p) => \E k \in 1 .. Len(B) : p \in B[k].on /\ ~Soft(B[k])
<1> DEFINE V == ProtoVariants(r)
           n == Len(V)
           B == CompileRule(s, r, v6)
           M(i) == RuleMatch(s, r, V[i], v6)
           P(i) == Pass(r, M(i))
           mine == <<"user-logging", r.dir>>
<1>0. r \in Rules
  BY RuleTypes
<1>8. PICK seqs, own, pos : Passes(s, r, v6, seqs) /\ Comes(B, seqs, Len(seqs), own, pos)
  BY <1>0, BlockIs
<1>9. Len(seqs) = n /\ \A i \in 1 .. n : seqs[i] = P(i)
  BY <1>8 DEF Passes
<1>1. /\ own \in [1 .. Len(B) -> 1 .. n]
      /\ pos \in [1 .. Len(B) -> Nat]
      /\ \A k \in 1 .. Len(B) : pos[k] \in 1 .. Len(P(own[k])) /\ B[k] = P(own[k])[pos[k]]
      /\ \A i \in 1 .. n : \A j \in 1 .. Len(P(i)) :
           \E k \in 1 .. Len(B) : own[k] = i /\ pos[k] = j
      /\ \A k, l \in 1 .. Len(B) :
           k < l => own[k] < own[l] \/ (own[k] = own[l] /\ pos[k] < pos[l])
  <2> HIDE DEF P, B, V
  <2>1. /\ own \in [1 .. Len(B) -> 1 .. n]
        /\ pos \in [1 .. Len(B) -> Nat]
        /\ \A k \in 1 .. Len(B) : pos[k] \in 1 .. Len(seqs[own[k]]) /\ B[k] = seqs[own[k]][pos[k]]
        /\ \A i \in 1 .. n : \A j \in 1 .. Len(seqs[i]) :
             \E k \in 1 .. Len(B) : own[k] = i /\ pos[k] = j
        /\ \A k, l \in 1 .. Len(B) :
             k < l => own[k] < own[l] \/ (own[k] = own[l] /\ pos[k] < pos[l])
    BY <1>8, <1>9 DEF Comes
  <2>2. \A k \in 1 .. Len(B) : own[k] \in 1 .. n /\ seqs[own[k]] = P(own[k])
    BY <1>9, <2>1
  <2>3. \A k \in 1 .. Len(B) : pos[k] \in 1 .. Len(P(own[k])) /\ B[k] = P(own[k])[pos[k]]
    BY <2>1, <2>2
  <2>4. \A i \in 1 .. n : \A j \in 1 .. Len(P(i)) :
           \E k \in 1 .. Len(B) : own[k] = i /\ pos[k] = j
    <3> SUFFICES ASSUME NEW i \in 1 .. n, NEW j \in 1 .. Len(P(i))
                 PROVE  \E k \in 1 .. Len(B) : own[k] = i /\ pos[k] = j
      OBVIOUS
    <3>1. seqs[i] = P(i)
      BY <1>9
    <3>2. j \in 1 .. Len(seqs[i])
      BY <3>1
    <3> QED
      BY <2>1, <3>2
  <2> QED
    BY <2>1, <2>3, <2>4
<1>2. B \in Seq(Entries)
  BY <1>0, BlockIs
<1>3. Matches(s, r, v6, p) <=> \E i \in 1 .. n : p \in M(i)
  <2>1. Matches(s, r, v6, p) <=> \E v \in ToSet(V) : p \in RuleMatch(s, r, v, v6)
    BY VariantsFit
  <2>2. V \in Seq(ToSet(V))
    BY ProtosAre
  <2>3. ToSet(V) = {V[i] : i \in 1 .. n}
    <3> HIDE DEF V
    <3> QED
      BY <2>2 DEF ToSet
  <2> HIDE DEF V
  <2> QED
    BY <2>1, <2>3
<1>4. \A i : /\ \A b \in 1 .. Len(P(i)) :
                  /\ P(i)[b].on \subseteq M(i)
                  /\ P(i)[b].do \in {"accept", "drop", "reject", "jump"}
                  /\ P(i)[b].do = "jump" => P(i)[b].to \in Chains
                  /\ Soft(P(i)[b]) => P(i)[b].to = mine
                  /\ p \in P(i)[b].on =>
                       \/ Soft(P(i)[b])
                       \/ Settles(P(i)[b], r, p)
                       \/ \E a \in 1 .. b - 1 : p \in P(i)[a].on /\ ~Soft(P(i)[a])
             /\ p \in M(i) => \E b \in 1 .. Len(P(i)) : p \in P(i)[b].on /\ ~Soft(P(i)[b])
             /\ P(i) \in Seq(Entries)
  <2> SUFFICES ASSUME NEW i
               PROVE  /\ \A b \in 1 .. Len(P(i)) :
                           /\ P(i)[b].on \subseteq M(i)
                           /\ P(i)[b].do \in {"accept", "drop", "reject", "jump"}
                           /\ P(i)[b].do = "jump" => P(i)[b].to \in Chains
                           /\ Soft(P(i)[b]) => P(i)[b].to = mine
                           /\ p \in P(i)[b].on =>
                                \/ Soft(P(i)[b])
                                \/ Settles(P(i)[b], r, p)
                                \/ \E a \in 1 .. b - 1 : p \in P(i)[a].on /\ ~Soft(P(i)[a])
                      /\ p \in M(i) => \E b \in 1 .. Len(P(i)) : p \in P(i)[b].on /\ ~Soft(P(i)[b])
                      /\ P(i) \in Seq(Entries)
    OBVIOUS
  <2>1. M(i) \in SUBSET Packets
    BY RuleMatchType
  <2> HIDE DEF M
  <2>2. P(i) \in Seq(Entries)
    BY <1>0, <2>1, PassIs
  <2> QED
    BY <1>0, <2>1, <2>2, PassActs
<1> HIDE DEF P, B, V, M, mine
<1>5. ASSUME NEW k \in 1 .. Len(B)
      PROVE  /\ p \in B[k].on => Matches(s, r, v6, p)
             /\ B[k].do \in {"accept", "drop", "reject", "jump"}
             /\ B[k].do = "jump" => B[k].to \in Chains
             /\ Soft(B[k]) => B[k].to = mine
             /\ p \in B[k].on =>
                  \/ Soft(B[k])
                  \/ Settles(B[k], r, p)
                  \/ \E j \in 1 .. k - 1 : p \in B[j].on /\ ~Soft(B[j])
  <2> DEFINE i == own[k]
             b == pos[k]
  <2>1. i \in 1 .. n /\ b \in 1 .. Len(P(i)) /\ B[k] = P(i)[b]
    BY <1>1
  <2>2. ASSUME NEW a \in 1 .. b - 1, p \in P(i)[a].on, ~Soft(P(i)[a])
        PROVE  \E j \in 1 .. k - 1 : p \in B[j].on /\ ~Soft(B[j])
    <3>1. a \in 1 .. Len(P(i)) /\ a < b
      <4>1. Len(P(i)) \in Nat
        BY <1>4
      <4> HIDE DEF i, b
      <4> QED
        BY <2>1, <2>2, <4>1
    <3>2. PICK j \in 1 .. Len(B) : own[j] = i /\ pos[j] = a
      BY <1>1, <2>1, <3>1
    <3>3. B[j] = P(i)[a]
      BY <1>1, <3>2
    <3>4. j < k
      <4>1. ~(k < j)
        <5>1. k < j => own[k] < own[j] \/ (own[k] = own[j] /\ pos[k] < pos[j])
          BY <1>1
        <5>2. own[k] \in Nat /\ pos[k] \in Nat
          BY <1>1
        <5> QED
          BY <3>1, <3>2, <5>1, <5>2
      <4>2. k # j
        <5>1. pos[k] \in Nat
          BY <1>1
        <5> QED
          BY <3>1, <3>2, <5>1
      <4> QED
        BY <4>1, <4>2
    <3>5. j \in 1 .. k - 1
      BY <3>4
    <3> QED
      BY <2>2, <3>3, <3>5
  <2> HIDE DEF i, b
  <2>3. /\ P(i)[b].on \subseteq M(i)
        /\ P(i)[b].do \in {"accept", "drop", "reject", "jump"}
        /\ P(i)[b].do = "jump" => P(i)[b].to \in Chains
        /\ Soft(P(i)[b]) => P(i)[b].to = mine
        /\ p \in P(i)[b].on =>
             \/ Soft(P(i)[b])
             \/ Settles(P(i)[b], r, p)
             \/ \E a \in 1 .. b - 1 : p \in P(i)[a].on /\ ~Soft(P(i)[a])
    BY <1>4, <2>1
  <2> QED
    BY <1>3, <2>1, <2>2, <2>3
<1>6. Matches(s, r, v6, p) => \E k \in 1 .. Len(B) : p \in B[k].on /\ ~Soft(B[k])
  <2> SUFFICES ASSUME Matches(s, r, v6, p)
               PROVE  \E k \in 1 .. Len(B) : p \in B[k].on /\ ~Soft(B[k])
    OBVIOUS
  <2>1. PICK i \in 1 .. n : p \in M(i)
    BY <1>3
  <2>2. PICK b \in 1 .. Len(P(i)) : p \in P(i)[b].on /\ ~Soft(P(i)[b])
    BY <1>4, <2>1
  <2>3. PICK k \in 1 .. Len(B) : own[k] = i /\ pos[k] = b
    BY <1>1
  <2>4. B[k] = P(i)[b]
    BY <1>1, <2>3
  <2> QED
    BY <2>2, <2>4
<1> QED
  BY <1>5, <1>6 DEF B, mine

\* Where the rules of the chain of a packet's direction are in the list of its
\* family, as far as they are of its family.
Places(s, p, D, q) ==
    LET l == RulesFor(s, p) IN
    /\ \A i \in 1 .. Len(D) : D[i].v6 = p.v6 => q[i] \in 1 .. Len(l) /\ D[i].rule = l[q[i]]
    /\ \A j \in 1 .. Len(l) :
         Active(l[j]) /\ l[j].dir = p.dir => \E i \in 1 .. Len(D) : D[i].v6 = p.v6 /\ q[i] = j
    /\ \A i, k \in 1 .. Len(D) :
         D[i].v6 = p.v6 /\ D[k].v6 = p.v6 /\ q[i] < q[k] => i < k

\* The rules of a chain are the active ones of its direction, in the order of the lists.
LEMMA OfRulesFit ==
  ASSUME NEW s \in States, NEW p \in Packets
  PROVE  LET D == OfRules(s, p.dir) IN
         /\ D \in Seq([rule : Rules, v6 : BOOLEAN])
         /\ \A i \in 1 .. Len(D) : /\ D[i].rule \in RulesOf(s)
                                   /\ Active(D[i].rule) /\ D[i].rule.dir = p.dir
         /\ \E q : Places(s, p, D, q)
<1> DEFINE d == p.dir
           P4 == Part(s.rules4, FALSE, d)
           P6 == Part(s.rules6, TRUE, d)
           D == OfRules(s, d)
           S == [rule : Rules, v6 : BOOLEAN]
           n == Len(P4)
           m == Len(P6)
<1>1. s.rules4 \in Seq(Rules) /\ s.rules6 \in Seq(Rules)
  BY StatesAssumption DEF StatesAssumption
<1>2. D = P4 \o P6
  BY DEF OfRules, Part
<1>3. P4 \in Seq(S) /\ \E q : Selects(s.rules4, FALSE, d, P4, q)
  BY <1>1, PartIs
<1>4. P6 \in Seq(S) /\ \E q : Selects(s.rules6, TRUE, d, P6, q)
  BY <1>1, PartIs
<1>5. PICK q4 : Selects(s.rules4, FALSE, d, P4, q4)
  BY <1>3
<1>6. PICK q6 : Selects(s.rules6, TRUE, d, P6, q6)
  BY <1>4
<1>16. p.v6 \in BOOLEAN
  BY PacketsAssumption DEF PacketsAssumption
<1> HIDE DEF P4, P6, D, S
<1>7. /\ D \in Seq(S) /\ Len(D) = n + m /\ n \in Nat /\ m \in Nat
      /\ \A i \in 1 .. n : i \in 1 .. Len(D) /\ D[i] = P4[i]
      /\ \A i \in 1 .. m : n + i \in 1 .. Len(D) /\ D[n + i] = P6[i]
  BY <1>2, <1>3, <1>4, ConcatProperties
<1>8. /\ q4 \in [1 .. n -> 1 .. Len(s.rules4)]
      /\ \A i \in 1 .. n : /\ P4[i] = [rule |-> s.rules4[q4[i]], v6 |-> FALSE]
                           /\ Active(s.rules4[q4[i]]) /\ s.rules4[q4[i]].dir = d
      /\ \A j \in 1 .. Len(s.rules4) :
           Active(s.rules4[j]) /\ s.rules4[j].dir = d => \E i \in 1 .. n : q4[i] = j
      /\ \A k, l \in 1 .. n : k < l => q4[k] < q4[l]
  BY <1>5 DEF Selects
<1>9. /\ q6 \in [1 .. m -> 1 .. Len(s.rules6)]
      /\ \A i \in 1 .. m : /\ P6[i] = [rule |-> s.rules6[q6[i]], v6 |-> TRUE]
                           /\ Active(s.rules6[q6[i]]) /\ s.rules6[q6[i]].dir = d
      /\ \A j \in 1 .. Len(s.rules6) :
           Active(s.rules6[j]) /\ s.rules6[j].dir = d => \E i \in 1 .. m : q6[i] = j
      /\ \A k, l \in 1 .. m : k < l => q6[k] < q6[l]
  BY <1>6 DEF Selects
<1>10. \A i \in 1 .. Len(D) : i \in 1 .. n \/ \E k \in 1 .. m : i = n + k
  <2> SUFFICES ASSUME NEW i \in 1 .. Len(D), i \notin 1 .. n
               PROVE  \E k \in 1 .. m : i = n + k
    OBVIOUS
  <2>1. i - n \in 1 .. m /\ i = n + (i - n)
    BY <1>7
  <2> QED
    BY <2>1
<1> HIDE DEF n, m, d
<1>11. \A i \in 1 .. n : /\ D[i].v6 = FALSE /\ D[i].rule = s.rules4[q4[i]]
                         /\ D[i].rule \in RulesOf(s)
                         /\ Active(D[i].rule) /\ D[i].rule.dir = d
  <2> SUFFICES ASSUME NEW i \in 1 .. n
               PROVE  /\ D[i].v6 = FALSE /\ D[i].rule = s.rules4[q4[i]]
                      /\ D[i].rule \in RulesOf(s)
                      /\ Active(D[i].rule) /\ D[i].rule.dir = d
    OBVIOUS
  <2>1. D[i].v6 = FALSE /\ D[i].rule = s.rules4[q4[i]]
    <3>1. D[i] = P4[i] /\ P4[i] = [rule |-> s.rules4[q4[i]], v6 |-> FALSE]
      BY <1>7, <1>8
    <3> QED
      BY <3>1
  <2>2. q4[i] \in DOMAIN s.rules4
    BY <1>1, <1>8
  <2> QED
    BY <1>8, <2>1, <2>2 DEF RulesOf, ToSet
<1>12. \A i \in 1 .. m : /\ D[n + i].v6 = TRUE /\ D[n + i].rule = s.rules6[q6[i]]
                         /\ D[n + i].rule \in RulesOf(s)
                         /\ Active(D[n + i].rule) /\ D[n + i].rule.dir = d
  <2> SUFFICES ASSUME NEW i \in 1 .. m
               PROVE  /\ D[n + i].v6 = TRUE /\ D[n + i].rule = s.rules6[q6[i]]
                      /\ D[n + i].rule \in RulesOf(s)
                      /\ Active(D[n + i].rule) /\ D[n + i].rule.dir = d
    OBVIOUS
  <2>1. D[n + i].v6 = TRUE /\ D[n + i].rule = s.rules6[q6[i]]
    <3>1. D[n + i] = P6[i] /\ P6[i] = [rule |-> s.rules6[q6[i]], v6 |-> TRUE]
      BY <1>7, <1>9
    <3> QED
      BY <3>1
  <2>2. q6[i] \in DOMAIN s.rules6
    BY <1>1, <1>9
  <2> QED
    BY <1>9, <2>1, <2>2 DEF RulesOf, ToSet
<1>13. \A i \in 1 .. Len(D) : /\ D[i].rule \in RulesOf(s)
                              /\ Active(D[i].rule) /\ D[i].rule.dir = p.dir
  <2> SUFFICES ASSUME NEW i \in 1 .. Len(D)
               PROVE  /\ D[i].rule \in RulesOf(s)
                      /\ Active(D[i].rule) /\ D[i].rule.dir = p.dir
    OBVIOUS
  <2>1. CASE i \in 1 .. n
    BY <1>11, <2>1 DEF d
  <2>2. CASE \E k \in 1 .. m : i = n + k
    <3>1. PICK k \in 1 .. m : i = n + k
      BY <2>2
    <3> QED
      BY <1>12, <3>1 DEF d
  <2> QED
    BY <1>10, <2>1, <2>2
<1>14. CASE p.v6 = FALSE
  <2> DEFINE l == RulesFor(s, p)
  <2>1. l = s.rules4
    BY <1>14 DEF RulesFor
  <2>2. \A i \in 1 .. Len(D) : D[i].v6 = p.v6 => i \in 1 .. n
    BY <1>10, <1>12, <1>14
  <2>3. \A i \in 1 .. n : D[i].v6 = p.v6 /\ i \in 1 .. Len(D) /\ i \in Int
                          /\ q4[i] \in 1 .. Len(l) /\ q4[i] \in Int
    <3> SUFFICES ASSUME NEW i \in 1 .. n
                 PROVE  D[i].v6 = p.v6 /\ i \in 1 .. Len(D) /\ i \in Int
                        /\ q4[i] \in 1 .. Len(l) /\ q4[i] \in Int
      OBVIOUS
    <3>1. q4[i] \in 1 .. Len(s.rules4)
      BY <1>8
    <3>2. q4[i] \in 1 .. Len(l) /\ q4[i] \in Int
      <4> HIDE DEF l
      <4> QED
        BY <2>1, <3>1
    <3>3. D[i].v6 = p.v6 /\ i \in 1 .. Len(D)
      BY <1>7, <1>11, <1>14
    <3> QED
      BY <3>2, <3>3
  <2> HIDE DEF l
  <2>4. \A i \in 1 .. Len(D) : D[i].v6 = p.v6 => q4[i] \in 1 .. Len(l) /\ D[i].rule = l[q4[i]]
    BY <1>11, <2>1, <2>2, <2>3
  <2>5. \A j \in 1 .. Len(l) :
          Active(l[j]) /\ l[j].dir = p.dir => \E i \in 1 .. Len(D) : D[i].v6 = p.v6 /\ q4[i] = j
    <3> SUFFICES ASSUME NEW j \in 1 .. Len(l), Active(l[j]), l[j].dir = p.dir
                 PROVE  \E i \in 1 .. Len(D) : D[i].v6 = p.v6 /\ q4[i] = j
      OBVIOUS
    <3>1. PICK i \in 1 .. n : q4[i] = j
      BY <1>8, <2>1 DEF d
    <3> QED
      BY <2>3, <3>1
  <2>6. \A i, k \in 1 .. Len(D) :
          D[i].v6 = p.v6 /\ D[k].v6 = p.v6 /\ q4[i] < q4[k] => i < k
    <3> SUFFICES ASSUME NEW i \in 1 .. Len(D), NEW k \in 1 .. Len(D), D[i].v6 = p.v6,
                        D[k].v6 = p.v6, q4[i] < q4[k]
                 PROVE  i < k
      OBVIOUS
    <3>1. i \in 1 .. n /\ k \in 1 .. n
      BY <2>2
    <3>2. i \in Int /\ k \in Int /\ q4[i] \in Int /\ q4[k] \in Int
      BY <2>3, <3>1
    <3>3. k < i => q4[k] < q4[i]
      BY <1>8, <3>1
    <3> QED
      BY <3>2, <3>3
  <2>7. Places(s, p, D, q4)
    BY <2>4, <2>5, <2>6 DEF Places, l
  <2> QED
    BY <1>7, <1>13, <2>7 DEF D, S, d
<1>15. CASE p.v6 = TRUE
  <2> DEFINE l == RulesFor(s, p)
             q == [i \in 1 .. Len(D) |-> q6[i - n]]
  <2>1. l = s.rules6
    BY <1>15 DEF RulesFor
  <2>2. \A i \in 1 .. Len(D) : D[i].v6 = p.v6 => i - n \in 1 .. m /\ n + (i - n) = i
    <3> SUFFICES ASSUME NEW i \in 1 .. Len(D), D[i].v6 = p.v6
                 PROVE  i - n \in 1 .. m /\ n + (i - n) = i
      OBVIOUS
    <3>1. i \notin 1 .. n
      BY <1>11, <1>15
    <3> QED
      BY <1>7, <3>1
  <2>3. \A i \in 1 .. m : D[n + i].v6 = p.v6 /\ n + i \in 1 .. Len(D) /\ i \in Int
                          /\ (n + i) - n = i /\ q6[i] \in 1 .. Len(l) /\ q6[i] \in Int
    <3> SUFFICES ASSUME NEW i \in 1 .. m
                 PROVE  D[n + i].v6 = p.v6 /\ n + i \in 1 .. Len(D) /\ i \in Int
                        /\ (n + i) - n = i /\ q6[i] \in 1 .. Len(l) /\ q6[i] \in Int
      OBVIOUS
    <3>1. q6[i] \in 1 .. Len(s.rules6)
      BY <1>9
    <3>2. q6[i] \in 1 .. Len(l) /\ q6[i] \in Int
      BY <2>1, <3>1
    <3>3. D[n + i].v6 = p.v6 /\ n + i \in 1 .. Len(D)
      BY <1>7, <1>12, <1>15
    <3>4. i \in Int /\ (n + i) - n = i
      BY <1>7
    <3> QED
      BY <3>2, <3>3, <3>4
  <2>4. \A i \in 1 .. Len(D) : q[i] = q6[i - n]
    OBVIOUS
  <2> HIDE DEF l, q
  <2>5. \A i \in 1 .. Len(D) : D[i].v6 = p.v6 => q[i] \in 1 .. Len(l) /\ D[i].rule = l[q[i]]
    <3> SUFFICES ASSUME NEW i \in 1 .. Len(D), D[i].v6 = p.v6
                 PROVE  q[i] \in 1 .. Len(l) /\ D[i].rule = l[q[i]]
      OBVIOUS
    <3>1. i - n \in 1 .. m /\ n + (i - n) = i /\ q[i] = q6[i - n]
      BY <2>2, <2>4
    <3>2. D[n + (i - n)].rule = s.rules6[q6[i - n]]
      BY <1>12, <3>1
    <3> QED
      BY <2>1, <2>3, <3>1, <3>2
  <2>6. \A j \in 1 .. Len(l) :
          Active(l[j]) /\ l[j].dir = p.dir => \E i \in 1 .. Len(D) : D[i].v6 = p.v6 /\ q[i] = j
    <3> SUFFICES ASSUME NEW j \in 1 .. Len(l), Active(l[j]), l[j].dir = p.dir
                 PROVE  \E i \in 1 .. Len(D) : D[i].v6 = p.v6 /\ q[i] = j
      OBVIOUS
    <3>1. PICK i \in 1 .. m : q6[i] = j
      BY <1>9, <2>1 DEF d
    <3>2. q[n + i] = q6[i]
      BY <2>3, <2>4
    <3> QED
      BY <2>3, <3>1, <3>2
  <2>7. \A i, k \in 1 .. Len(D) :
          D[i].v6 = p.v6 /\ D[k].v6 = p.v6 /\ q[i] < q[k] => i < k
    <3> SUFFICES ASSUME NEW i \in 1 .. Len(D), NEW k \in 1 .. Len(D), D[i].v6 = p.v6,
                        D[k].v6 = p.v6, q[i] < q[k]
                 PROVE  i < k
      OBVIOUS
    <3> DEFINE a == i - n
               b == k - n
    <3>1. a \in 1 .. m /\ b \in 1 .. m /\ q[i] = q6[a] /\ q[k] = q6[b]
      BY <2>2, <2>4
    <3>2. q6[a] \in Int /\ q6[b] \in Int
      BY <2>3, <3>1
    <3>3. b < a => q6[b] < q6[a]
      BY <1>9, <3>1
    <3>4. i \in Int /\ k \in Int /\ n \in Int /\ (k < i => b < a) /\ (i = k => a = b)
      BY <1>7
    <3> HIDE DEF a, b
    <3> QED
      BY <3>1, <3>2, <3>3, <3>4
  <2>8. Places(s, p, D, q)
    BY <2>5, <2>6, <2>7 DEF Places, l
  <2> QED
    BY <1>7, <1>13, <2>8 DEF D, S, d
<1> QED
  BY <1>14, <1>15, <1>16 DEF D, S, d

\* The first rule of the chain that matches is the first of the list.
LEMMA FirstInUser ==
  ASSUME NEW s \in States, NEW p \in Packets, NEW i \in 1 .. Len(OfRules(s, p.dir)),
         Matches(s, OfRules(s, p.dir)[i].rule, OfRules(s, p.dir)[i].v6, p),
         \A k \in 1 .. i - 1 :
           ~Matches(s, OfRules(s, p.dir)[k].rule, OfRules(s, p.dir)[k].v6, p)
  PROVE  /\ FirstMatch(s, p) # 0
         /\ RulesFor(s, p)[FirstMatch(s, p)] = OfRules(s, p.dir)[i].rule
<1> DEFINE D == OfRules(s, p.dir)
           l == RulesFor(s, p)
           I == {j \in 1 .. Len(l) : Matches(s, l[j], p.v6, p)}
<1>1. PICK q : Places(s, p, D, q)
  BY OfRulesFit
<1>2. D \in Seq([rule : Rules, v6 : BOOLEAN])
  BY OfRulesFit
<1>3. l \in Seq(Rules)
  BY StatesAssumption DEF StatesAssumption, RulesFor
<1>4. p.v6 = D[i].v6
  BY DEF Matches
<1>5. q[i] \in 1 .. Len(l) /\ D[i].rule = l[q[i]]
  BY <1>1, <1>4 DEF Places
<1>6. q[i] \in I
  BY <1>4, <1>5
<1>7. ASSUME NEW j \in I
      PROVE  q[i] <= j
  <2>1. Active(l[j]) /\ l[j].dir = p.dir /\ j \in 1 .. Len(l)
    BY DEF Matches, Active
  <2>2. PICK k \in 1 .. Len(D) : D[k].v6 = p.v6 /\ q[k] = j
    BY <1>1, <2>1 DEF Places
  <2>3. D[k].rule = l[j]
    BY <1>1, <2>2 DEF Places
  <2>4. Matches(s, D[k].rule, D[k].v6, p)
    BY <2>2, <2>3
  <2>5. k \notin 1 .. i - 1
    BY <2>4
  <2>6. q[k] < q[i] => k < i
    BY <1>1, <1>4, <2>2 DEF Places
  <2> HIDE DEF D, l, I
  <2>7. k \in Int /\ i \in Int /\ k >= 1 /\ q[i] \in Int /\ j \in Int
    BY <1>2, <1>3, <1>5, <2>1, <2>2 DEF D
  <2> QED
    BY <2>2, <2>5, <2>6, <2>7
<1>8. FirstMatch(s, p) = q[i]
  BY <1>3, <1>6, <1>7, FirstMatchIs
<1>9. q[i] # 0
  <2> HIDE DEF l
  <2> QED
    BY <1>5
<1> QED
  BY <1>5, <1>8, <1>9

\* A packet that no rule of the chain matches is matched by none of its list.
LEMMA NoneInUser ==
  ASSUME NEW s \in States, NEW p \in Packets,
         \A i \in 1 .. Len(OfRules(s, p.dir)) :
           ~Matches(s, OfRules(s, p.dir)[i].rule, OfRules(s, p.dir)[i].v6, p)
  PROVE  FirstMatch(s, p) = 0
<1> DEFINE D == OfRules(s, p.dir)
           l == RulesFor(s, p)
           I == {j \in 1 .. Len(l) : Matches(s, l[j], p.v6, p)}
<1>1. PICK q : Places(s, p, D, q)
  BY OfRulesFit
<1>2. l \in Seq(Rules)
  BY StatesAssumption DEF StatesAssumption, RulesFor
<1>3. I = {}
  <2> SUFFICES ASSUME NEW j \in I PROVE FALSE
    OBVIOUS
  <2>1. Active(l[j]) /\ l[j].dir = p.dir /\ j \in 1 .. Len(l)
    BY DEF Matches, Active
  <2>2. PICK k \in 1 .. Len(D) : D[k].v6 = p.v6 /\ q[k] = j
    BY <1>1, <2>1 DEF Places
  <2>3. D[k].rule = l[j]
    BY <1>1, <2>2 DEF Places
  <2>4. Matches(s, D[k].rule, D[k].v6, p)
    BY <2>2, <2>3
  <2> QED
    BY <2>4
<1> QED
  BY <1>2, <1>3, FirstMatchIs

\* What the entries of the user chain do to a packet of its direction.
Hits(s, p, R, D, own) ==
    /\ own \in [1 .. Len(R) -> 1 .. Len(D)]
    /\ \A k \in 1 .. Len(R) :
         /\ R[k].do \in {"accept", "drop", "reject", "jump"}
         /\ R[k].do = "jump" => R[k].to \in Chains
         /\ Soft(R[k]) => R[k].to = <<"user-logging", p.dir>>
         /\ p \in R[k].on =>
              /\ Matches(s, D[own[k]].rule, D[own[k]].v6, p)
              /\ \/ Soft(R[k])
                 \/ Settles(R[k], D[own[k]].rule, p)
                 \/ \E j \in 1 .. k - 1 : p \in R[j].on /\ ~Soft(R[j])
    /\ \A i \in 1 .. Len(D) :
         Matches(s, D[i].rule, D[i].v6, p) =>
           \E k \in 1 .. Len(R) : own[k] = i /\ p \in R[k].on /\ ~Soft(R[k])
    /\ \A k, l \in 1 .. Len(R) : k < l => own[k] <= own[l]

\* A packet meets the user chain's entries of the rules that match it, in their order.
LEMMA UserActs ==
  ASSUME SetsApart, PortsFit, NEW s \in States, NEW p \in Packets
  PROVE  /\ User(s, p.dir) \in Seq(Entries)
         /\ \E own : Hits(s, p, User(s, p.dir), OfRules(s, p.dir), own)
<1> DEFINE D == OfRules(s, p.dir)
           n == Len(D)
           B(i) == CompileRule(s, D[i].rule, D[i].v6)
           R == User(s, p.dir)
           M(i) == Matches(s, D[i].rule, D[i].v6, p)
           mine == <<"user-logging", p.dir>>
           seqs == [i \in DOMAIN D |-> B(i)]
<1>1. D \in Seq([rule : Rules, v6 : BOOLEAN])
  BY OfRulesFit
<1>2. \A i \in 1 .. n : /\ D[i].rule \in RulesOf(s) /\ Active(D[i].rule)
                        /\ D[i].rule.dir = p.dir
  BY OfRulesFit
<1>3. n \in Nat /\ DOMAIN D = 1 .. n /\ \A i \in 1 .. n : D[i].v6 \in BOOLEAN /\ D[i].rule \in Rules
  <2> DEFINE S == [rule : Rules, v6 : BOOLEAN]
  <2> HIDE DEF D, S
  <2>1. D \in Seq(S)
    BY <1>1 DEF S
  <2>2. Len(D) \in Nat /\ DOMAIN D = 1 .. Len(D) /\ \A i \in 1 .. Len(D) : D[i] \in S
    BY <2>1
  <2>3. \A x \in S : x.v6 \in BOOLEAN /\ x.rule \in Rules
    BY DEF S
  <2> QED
    BY <2>2, <2>3
<1>4. R = FlattenSeq(seqs)
  BY DEF User
<1> HIDE DEF R, D
<1>5. ASSUME NEW i \in 1 .. n
      PROVE  /\ B(i) \in Seq(Entries)
             /\ \A k \in 1 .. Len(B(i)) :
                  /\ p \in B(i)[k].on => M(i)
                  /\ B(i)[k].do \in {"accept", "drop", "reject", "jump"}
                  /\ B(i)[k].do = "jump" => B(i)[k].to \in Chains
                  /\ Soft(B(i)[k]) => B(i)[k].to = mine
                  /\ p \in B(i)[k].on =>
                       \/ Soft(B(i)[k])
                       \/ Settles(B(i)[k], D[i].rule, p)
                       \/ \E j \in 1 .. k - 1 : p \in B(i)[j].on /\ ~Soft(B(i)[j])
             /\ M(i) => \E k \in 1 .. Len(B(i)) : p \in B(i)[k].on /\ ~Soft(B(i)[k])
  <2> DEFINE r == D[i].rule
             v == D[i].v6
  <2>1. r \in RulesOf(s) /\ Active(r) /\ r.dir = p.dir /\ v \in BOOLEAN /\ r \in Rules
    BY <1>2, <1>3
  <2> HIDE DEF r, v
  <2>2. CompileRule(s, r, v) \in Seq(Entries)
    BY <2>1, BlockIs
  <2>3. LET C == CompileRule(s, r, v) IN
         /\ \A k \in 1 .. Len(C) :
              /\ p \in C[k].on => Matches(s, r, v, p)
              /\ C[k].do \in {"accept", "drop", "reject", "jump"}
              /\ C[k].do = "jump" => C[k].to \in Chains
              /\ Soft(C[k]) => C[k].to = <<"user-logging", r.dir>>
              /\ p \in C[k].on =>
                   \/ Soft(C[k])
                   \/ Settles(C[k], r, p)
                   \/ \E j \in 1 .. k - 1 : p \in C[j].on /\ ~Soft(C[j])
         /\ Matches(s, r, v, p) => \E k \in 1 .. Len(C) : p \in C[k].on /\ ~Soft(C[k])
    BY <2>1, BlockActs
  <2>4. <<"user-logging", r.dir>> = mine
    BY <2>1
  <2> HIDE DEF mine
  <2> QED
    BY <2>2, <2>3, <2>4 DEF r, v
<1> HIDE DEF B, M, mine, n
<1>6. seqs \in Seq(Seq(Entries)) /\ Len(seqs) = n /\ \A i \in 1 .. n : seqs[i] = B(i)
  BY <1>3, <1>5
<1> HIDE DEF seqs
<1>7. R \in Seq(Entries) /\ \E own, pos : Comes(R, seqs, n, own, pos)
  BY <1>4, <1>6, FlattenIndex
<1>8. PICK own, pos : Comes(R, seqs, n, own, pos)
  BY <1>7
<1>9. /\ own \in [1 .. Len(R) -> 1 .. n]
      /\ pos \in [1 .. Len(R) -> Nat]
      /\ \A k \in 1 .. Len(R) : pos[k] \in 1 .. Len(seqs[own[k]]) /\ R[k] = seqs[own[k]][pos[k]]
      /\ \A i \in 1 .. n : \A j \in 1 .. Len(seqs[i]) :
           \E k \in 1 .. Len(R) : own[k] = i /\ pos[k] = j
      /\ \A k, l \in 1 .. Len(R) :
           k < l => own[k] < own[l] \/ (own[k] = own[l] /\ pos[k] < pos[l])
  BY <1>8 DEF Comes
<1>10. \A k \in 1 .. Len(R) : /\ own[k] \in 1 .. n /\ own[k] \in Int /\ pos[k] \in Int /\ k \in Int
                              /\ pos[k] \in 1 .. Len(B(own[k]))
                              /\ R[k] = B(own[k])[pos[k]]
  <2> SUFFICES ASSUME NEW k \in 1 .. Len(R)
               PROVE  /\ own[k] \in 1 .. n /\ own[k] \in Int /\ pos[k] \in Int /\ k \in Int
                      /\ pos[k] \in 1 .. Len(B(own[k]))
                      /\ R[k] = B(own[k])[pos[k]]
    OBVIOUS
  <2>1. own[k] \in 1 .. n /\ pos[k] \in Nat /\ k \in Int
    <3>1. own[k] \in 1 .. n /\ pos[k] \in Nat
      BY <1>9
    <3>2. Len(R) \in Nat
      BY <1>7
    <3> QED
      BY <3>1, <3>2
  <2>2. seqs[own[k]] = B(own[k])
    BY <1>6, <2>1
  <2>3. pos[k] \in 1 .. Len(seqs[own[k]]) /\ R[k] = seqs[own[k]][pos[k]]
    BY <1>9
  <2>4. own[k] \in Int
    BY <1>3, <2>1
  <2> QED
    BY <2>1, <2>2, <2>3, <2>4
<1>11. \A i \in 1 .. n : \A j \in 1 .. Len(B(i)) :
         \E k \in 1 .. Len(R) : own[k] = i /\ pos[k] = j
  <2> SUFFICES ASSUME NEW i \in 1 .. n, NEW j \in 1 .. Len(B(i))
               PROVE  \E k \in 1 .. Len(R) : own[k] = i /\ pos[k] = j
    OBVIOUS
  <2>1. seqs[i] = B(i)
    BY <1>6
  <2>2. j \in 1 .. Len(seqs[i])
    BY <2>1
  <2> QED
    BY <1>9, <2>2
<1>12. ASSUME NEW k \in 1 .. Len(R)
       PROVE  /\ R[k].do \in {"accept", "drop", "reject", "jump"}
              /\ R[k].do = "jump" => R[k].to \in Chains
              /\ Soft(R[k]) => R[k].to = mine
              /\ p \in R[k].on =>
                   /\ M(own[k])
                   /\ \/ Soft(R[k])
                      \/ Settles(R[k], D[own[k]].rule, p)
                      \/ \E j \in 1 .. k - 1 : p \in R[j].on /\ ~Soft(R[j])
  <2> DEFINE i == own[k]
             b == pos[k]
  <2>1. /\ i \in 1 .. n /\ b \in 1 .. Len(B(i)) /\ R[k] = B(i)[b]
        /\ i \in Int /\ b \in Int /\ k \in Int
    BY <1>10
  <2>2. ASSUME NEW a \in 1 .. b - 1, p \in B(i)[a].on, ~Soft(B(i)[a])
        PROVE  \E j \in 1 .. k - 1 : p \in R[j].on /\ ~Soft(R[j])
    <3>1. a \in 1 .. Len(B(i)) /\ a < b /\ a \in Int
      <4>1. Len(B(i)) \in Nat
        BY <1>5, <2>1
      <4> HIDE DEF i, b
      <4> QED
        BY <2>1, <2>2, <4>1
    <3>2. PICK j \in 1 .. Len(R) : own[j] = i /\ pos[j] = a
      BY <1>11, <2>1, <3>1
    <3>3. R[j] = B(i)[a] /\ j \in Int
      BY <1>10, <3>2
    <3>4. k < j => own[k] < own[j] \/ (own[k] = own[j] /\ pos[k] < pos[j])
      BY <1>9
    <3>5. ~(k < j) /\ k # j
      BY <2>1, <3>1, <3>2, <3>4
    <3>6. 1 <= j
      BY <1>7
    <3>7. j \in 1 .. k - 1
      BY <2>1, <3>3, <3>5, <3>6
    <3> QED
      BY <2>2, <3>3, <3>7
  <2> HIDE DEF i, b
  <2>3. /\ p \in B(i)[b].on => M(i)
        /\ B(i)[b].do \in {"accept", "drop", "reject", "jump"}
        /\ B(i)[b].do = "jump" => B(i)[b].to \in Chains
        /\ Soft(B(i)[b]) => B(i)[b].to = mine
        /\ p \in B(i)[b].on =>
             \/ Soft(B(i)[b])
             \/ Settles(B(i)[b], D[i].rule, p)
             \/ \E j \in 1 .. b - 1 : p \in B(i)[j].on /\ ~Soft(B(i)[j])
    BY <1>5, <2>1
  <2>4. /\ p \in R[k].on => M(i)
        /\ R[k].do \in {"accept", "drop", "reject", "jump"}
        /\ R[k].do = "jump" => R[k].to \in Chains
        /\ Soft(R[k]) => R[k].to = mine
        /\ p \in R[k].on =>
             \/ Soft(R[k])
             \/ Settles(R[k], D[i].rule, p)
             \/ \E j \in 1 .. k - 1 : p \in R[j].on /\ ~Soft(R[j])
    BY <2>1, <2>2, <2>3
  <2> QED
    BY <2>4 DEF i
<1>13. ASSUME NEW i \in 1 .. n, M(i)
       PROVE  \E k \in 1 .. Len(R) : own[k] = i /\ p \in R[k].on /\ ~Soft(R[k])
  <2>1. PICK b \in 1 .. Len(B(i)) : p \in B(i)[b].on /\ ~Soft(B(i)[b])
    BY <1>5, <1>13
  <2>2. PICK k \in 1 .. Len(R) : own[k] = i /\ pos[k] = b
    BY <1>11
  <2>3. R[k] = B(i)[b]
    BY <1>10, <2>2
  <2> QED
    BY <2>1, <2>2, <2>3
<1>14. \A k, l \in 1 .. Len(R) : k < l => own[k] <= own[l]
  <2> SUFFICES ASSUME NEW k \in 1 .. Len(R), NEW l \in 1 .. Len(R), k < l
               PROVE  own[k] <= own[l]
    OBVIOUS
  <2>1. own[k] < own[l] \/ own[k] = own[l]
    BY <1>9
  <2>2. own[k] \in Int /\ own[l] \in Int
    BY <1>10
  <2> QED
    BY <2>1, <2>2
<1>15. Hits(s, p, R, D, own)
  BY <1>9, <1>12, <1>13, <1>14 DEF Hits, M, mine, n
<1> QED
  BY <1>7, <1>15 DEF R, D

\* The user chain: what decides is the first rule that matches.
LEMMA ObeysUser ==
  ASSUME SetsApart, PortsFit, NEW s \in States, NEW p \in Packets, NEW d
  PROVE  Obeys(s, p, <<"user", d>>)
<1> DEFINE c == <<"user", d>>
           R == Chain(s, c)
           D == OfRules(s, p.dir)
           M(i) == Matches(s, D[i].rule, D[i].v6, p)
<1> SUFFICES ASSUME Within(s, p, c) PROVE Obeys(s, p, c)
  BY DEF Obeys
<1>1. d = p.dir /\ PastBefore(s, p) /\ c[1] # "base" /\ R = User(s, d)
  BY WithinIs, ChainIs
<1>2. LetGo(s, p, c) <=> FirstMatch(s, p) = 0
  BY LetGoIs
<1>3. R \in Seq(Entries)
  BY <1>1, UserActs
<1>4. \E own : Hits(s, p, R, D, own)
  BY <1>1, UserActs
<1>5. PICK own : Hits(s, p, R, D, own)
  BY <1>4
<1>6. D \in Seq([rule : Rules, v6 : BOOLEAN])
  BY OfRulesFit
<1>7. p.dir \in Directions
  BY PacketsAssumption DEF PacketsAssumption
<1> HIDE DEF D, c
<1>8. /\ own \in [1 .. Len(R) -> 1 .. Len(D)]
      /\ \A k \in 1 .. Len(R) :
           /\ R[k].do \in {"accept", "drop", "reject", "jump"}
           /\ R[k].do = "jump" => R[k].to \in Chains
           /\ Soft(R[k]) => R[k].to = <<"user-logging", p.dir>>
           /\ p \in R[k].on =>
                /\ M(own[k])
                /\ \/ Soft(R[k])
                   \/ Settles(R[k], D[own[k]].rule, p)
                   \/ \E j \in 1 .. k - 1 : p \in R[j].on /\ ~Soft(R[j])
      /\ \A i \in 1 .. Len(D) :
           M(i) => \E k \in 1 .. Len(R) : own[k] = i /\ p \in R[k].on /\ ~Soft(R[k])
      /\ \A k, l \in 1 .. Len(R) : k < l => own[k] <= own[l]
  BY <1>5 DEF Hits
<1> HIDE DEF M
<1>9. ASSUME NEW e, Soft(e), e.to = <<"user-logging", p.dir>>
      PROVE  e.do = "jump" /\ Within(s, p, e.to)
  BY <1>9, WithinIs DEF Soft
<1>10. ASSUME NEW e, NEW r, Settles(e, r, p)
       PROVE  e.do \in {"accept", "drop", "reject", "jump"} /\ (e.do = "jump" => ~LetGo(s, p, e.to))
  BY <1>10, LetGoIs DEF Settles
<1>11. ASSUME NEW m \in 1 .. Len(R) + 1, Through(s, p, c, m), NEW j \in 1 .. m - 1,
              p \in R[j].on
       PROVE  Soft(R[j])
  <2> DEFINE T == {k \in 1 .. m - 1 : p \in R[k].on /\ ~Soft(R[k])}
  <2> SUFFICES ASSUME T # {} PROVE FALSE
    BY <1>11
  <2>0. m \in Int /\ m - 1 <= Len(R) /\ Len(R) \in Nat
    <3> HIDE DEF R
    <3> QED
      BY <1>3
  <2> HIDE DEF R
  <2>1. T \in SUBSET Nat
    OBVIOUS
  <2>2. PICK k \in T : \A l \in T : k <= l
    <3> HIDE DEF T
    <3> QED
      BY <2>1, Smallest
  <2>3. k \in 1 .. Len(R) /\ k \in 1 .. m - 1 /\ p \in R[k].on /\ ~Soft(R[k])
    BY <2>0, <2>2
  <2>4. ~\E l \in 1 .. k - 1 : p \in R[l].on /\ ~Soft(R[l])
    <3> SUFFICES ASSUME NEW l \in 1 .. k - 1, p \in R[l].on, ~Soft(R[l]) PROVE FALSE
      OBVIOUS
    <3>1. l \in 1 .. m - 1 /\ ~(k <= l)
      BY <2>0, <2>3
    <3> QED
      BY <2>2, <3>1
  <2>5. Settles(R[k], D[own[k]].rule, p)
    BY <1>8, <2>3, <2>4
  <2>6. R[k].do = "log" \/ (R[k].do = "jump" /\ LetGo(s, p, R[k].to))
    BY <1>11, <2>0, <2>3, Passed DEF R
  <2> QED
    BY <1>10, <2>5, <2>6
<1>12. ASSUME NEW k \in 1 .. Len(R), p \in R[k].on, Through(s, p, c, k)
       PROVE  /\ Soft(R[k]) \/ Settles(R[k], D[own[k]].rule, p)
              /\ Settles(R[k], D[own[k]].rule, p) =>
                   RuleDecides(D[own[k]].rule, p) = Judge(s, p)
  <2>0. k \in 1 .. Len(R) + 1 /\ Len(R) \in Nat
    <3> HIDE DEF R
    <3> QED
      BY <1>3
  <2>1. \A j \in 1 .. k - 1 : p \in R[j].on => Soft(R[j])
    BY <1>11, <1>12, <2>0
  <2> HIDE DEF R
  <2>2. M(own[k]) /\ (Soft(R[k]) \/ Settles(R[k], D[own[k]].rule, p))
    BY <1>8, <1>12, <2>1
  <2>3. own[k] \in 1 .. Len(D) /\ Len(D) \in Nat
    BY <1>6, <1>8
  <2>4. ASSUME NEW i \in 1 .. own[k] - 1, M(i)
        PROVE  FALSE
    <3>1. i \in 1 .. Len(D) /\ i < own[k]
      BY <2>3
    <3>2. PICK l \in 1 .. Len(R) : own[l] = i /\ p \in R[l].on /\ ~Soft(R[l])
      BY <1>8, <2>4, <3>1
    <3>3. l \notin 1 .. k - 1
      BY <2>1, <3>2
    <3>4. k < l => own[k] <= own[l]
      BY <1>8
    <3>5. k # l
      BY <2>3, <3>1, <3>2
    <3>6. ~(own[k] <= own[l])
      BY <2>3, <3>1, <3>2
    <3> QED
      BY <2>0, <3>3, <3>4, <3>5, <3>6
  <2>5. /\ FirstMatch(s, p) # 0
        /\ RulesFor(s, p)[FirstMatch(s, p)] = D[own[k]].rule
    <3>1. \A i \in 1 .. own[k] - 1 : ~M(i)
      BY <2>4
    <3> QED
      BY <2>2, <2>3, <3>1, FirstInUser DEF D, M
  <2>6. Judge(s, p) = RuleDecides(RulesFor(s, p)[FirstMatch(s, p)], p)
    BY <1>1, <2>5, JudgeCases
  <2> QED
    BY <2>2, <2>5, <2>6
<1>13. ASSUME NEW k \in 1 .. Len(R), p \in R[k].on, Through(s, p, c, k)
       PROVE  /\ R[k].do \in {"accept", "drop", "reject"} => R[k].do = Judge(s, p)
              /\ R[k].do = "jump" => R[k].to \in Chains /\ Within(s, p, R[k].to)
              /\ R[k].do # "return"
  <2> HIDE DEF R
  <2>1. CASE Soft(R[k])
    <3>1. R[k].do = "jump" /\ Within(s, p, R[k].to) /\ R[k].to \in Chains
      BY <1>8, <1>9, <2>1
    <3> QED
      BY <3>1
  <2>2. CASE Settles(R[k], D[own[k]].rule, p)
    <3>1. RuleDecides(D[own[k]].rule, p) = Judge(s, p)
      BY <1>12, <1>13, <2>2
    <3>2. /\ R[k].do \in {"accept", "drop", "reject", "jump"}
          /\ R[k].do = "jump" => R[k].to \in Chains
      BY <1>8
    <3>3. R[k].do \in {"accept", "drop", "reject"} => R[k].do = Judge(s, p)
      BY <2>2, <3>1 DEF Settles
    <3>4. R[k].do = "jump" => \/ R[k].to = <<"user-limit", "any">> /\ Judge(s, p) = "reject"
                              \/ R[k].to = <<"user-limit-accept", "any">> /\ Judge(s, p) = "accept"
      BY <2>2, <3>1 DEF Settles
    <3>5. R[k].do = "jump" => Within(s, p, R[k].to)
      BY <3>4, WithinIs
    <3> QED
      BY <3>2, <3>3, <3>5
  <2> QED
    BY <1>12, <1>13, <2>1, <2>2
<1>14. Through(s, p, c, Len(R) + 1) => LetGo(s, p, c)
  <2> SUFFICES ASSUME Through(s, p, c, Len(R) + 1) PROVE FirstMatch(s, p) = 0
    BY <1>2
  <2>1. Len(R) \in Nat /\ Len(R) + 1 \in 1 .. Len(R) + 1 /\ (Len(R) + 1) - 1 = Len(R)
    <3> HIDE DEF R
    <3> QED
      BY <1>3
  <2>2. \A j \in 1 .. Len(R) : p \in R[j].on => Soft(R[j])
    BY <1>11, <2>1
  <2> HIDE DEF R
  <2>3. \A i \in 1 .. Len(D) : ~M(i)
    BY <1>8, <2>2
  <2> QED
    BY <2>3, NoneInUser DEF D, M
<1> QED
  BY <1>1, <1>3, <1>13, <1>14 DEF Obeys

\* The logging chain of the users' rules decides on nothing.
LEMMA ObeysUserLogging ==
  ASSUME NEW s \in States, NEW p \in Packets, NEW d
  PROVE  Obeys(s, p, <<"user-logging", d>>)
<1> DEFINE D == OfRules(s, d)
           n == Len(D)
           S == [rule : Rules, v6 : BOOLEAN]
           P(i) == CompileRuleLog(s, D[i].rule, D[i].v6)
           seqs == [i \in DOMAIN D |-> P(i)]
           H == IF s.logging = "off" THEN <<Return(Packets)>> ELSE << >>
           F == FlattenSeq(seqs)
           c == <<"user-logging", d>>
<1>1. D \in Seq(S)
  <2>1. s.rules4 \in Seq(Rules) /\ s.rules6 \in Seq(Rules)
    BY StatesAssumption DEF StatesAssumption
  <2>2. Part(s.rules4, FALSE, d) \in Seq(S) /\ Part(s.rules6, TRUE, d) \in Seq(S)
    BY <2>1, PartIs
  <2>3. D = Part(s.rules4, FALSE, d) \o Part(s.rules6, TRUE, d)
    BY DEF OfRules, Part
  <2> HIDE DEF S, D
  <2> QED
    BY <2>2, <2>3, ConcatProperties
<1>2. UserLogging(s, d) = H \o F
  BY DEF UserLogging
<1> HIDE DEF D, S, F
<1>3. n \in Nat /\ DOMAIN D = 1 .. n
  BY <1>1
<1>4. \A i : Logs(P(i))
  BY RuleLogs
<1> HIDE DEF P, n
<1>5. seqs \in Seq(Seq(Entries)) /\ Len(seqs) = n /\ \A i \in 1 .. n : seqs[i] = P(i)
  BY <1>3, <1>4 DEF Logs
<1> HIDE DEF seqs
<1>6. Logs(F)
  BY <1>4, <1>5, FlatLogs DEF F
<1>7. Logs(H)
  <2> DEFINE e == Return(Packets)
  <2>1. e \in Entries /\ e.do = "return"
    BY EntryTypes, Fields
  <2>2. H = IF s.logging = "off" THEN <<e>> ELSE << >>
    OBVIOUS
  <2> HIDE DEF e, H
  <2>3. Logs(<<e>>)
    BY <2>1 DEF Logs
  <2>4. Logs(<< >>)
    BY DEF Logs
  <2> QED
    BY <2>2, <2>3, <2>4
<1> HIDE DEF H
<1>8. Logs(H \o F)
  <2>1. H \in Seq(Entries) /\ F \in Seq(Entries)
    BY <1>6, <1>7 DEF Logs
  <2>2. /\ H \o F \in Seq(Entries) /\ Len(H \o F) = Len(H) + Len(F)
        /\ Len(H) \in Nat /\ Len(F) \in Nat
        /\ \A k \in 1 .. Len(H) : (H \o F)[k] = H[k]
        /\ \A k \in 1 .. Len(F) : (H \o F)[Len(H) + k] = F[k]
    BY <2>1, ConcatProperties
  <2>3. ASSUME NEW k \in 1 .. Len(H \o F)
        PROVE  (H \o F)[k].do \in {"log", "return"}
    <3>1. CASE k \in 1 .. Len(H)
      BY <1>7, <2>2, <3>1 DEF Logs
    <3>2. CASE k \notin 1 .. Len(H)
      <4>1. k - Len(H) \in 1 .. Len(F) /\ Len(H) + (k - Len(H)) = k
        BY <2>2, <3>2
      <4>2. (H \o F)[k] = F[k - Len(H)]
        BY <2>2, <4>1
      <4> QED
        BY <1>6, <4>1, <4>2 DEF Logs
    <3> QED
      BY <3>1, <3>2
  <2> QED
    BY <2>2, <2>3 DEF Logs
<1>9. Chain(s, c) = UserLogging(s, d) /\ LetGo(s, p, c) /\ c[1] # "base"
  BY ChainIs, LetGoIs
<1>10. Chain(s, c) \in Seq(Entries)
       /\ \A i \in 1 .. Len(Chain(s, c)) : Chain(s, c)[i].do \in {"log", "return"}
  <2>1. Logs(Chain(s, c))
    BY <1>2, <1>8, <1>9
  <2> HIDE DEF c
  <2> QED
    BY <2>1 DEF Logs
<1> HIDE DEF c
<1>11. Obeys(s, p, c)
  BY <1>9, <1>10, Harmless
<1> QED
  BY <1>11 DEF c

\* Every chain does what Judge calls for.
LEMMA ObeysAll ==
  ASSUME SetsApart, PortsFit, NEW s \in States, NEW p \in Packets, NEW c \in Chains
  PROVE  Obeys(s, p, c)
<1>1. PICK x, d : c = <<x, d>> /\ x \in {"base", "before-logging", "before", "user", "after",
             "after-logging", "user-logging", "reject", "track", "skip-to-policy", "not-local",
             "logging-deny", "user-limit", "user-limit-accept", "user-egress"}
  BY DEF Chains
<1>2. CASE x = "base"
  BY <1>1, <1>2, ObeysBase
<1>3. CASE x = "before"
  <2>1. CASE d # p.dir
    <3>1. ~Within(s, p, c)
      BY <1>1, <1>3, <2>1, WithinIs
    <3> QED
      BY <3>1 DEF Obeys
  <2>2. CASE d = p.dir
    <3>1. p.dir \in {"in", "out", "routed"}
      BY PacketsAssumption DEF PacketsAssumption, Directions
    <3>2. CASE p.dir = "in"
      BY <1>1, <1>3, <2>2, <3>2, ObeysBeforeIn
    <3>3. CASE p.dir = "out"
      BY <1>1, <1>3, <2>2, <3>3, ObeysBeforeOut
    <3>4. CASE p.dir = "routed"
      BY <1>1, <1>3, <2>2, <3>4, ObeysBeforeRouted
    <3> QED
      BY <3>1, <3>2, <3>3, <3>4
  <2> QED
    BY <2>1, <2>2
<1>4. CASE x = "user"
  BY <1>1, <1>4, ObeysUser
<1>5. CASE x = "user-logging"
  BY <1>1, <1>5, ObeysUserLogging
<1>6. CASE x \in {"before-logging", "after-logging", "logging-deny", "user-egress"}
  BY <1>1, <1>6, ObeysLogging
<1>7. CASE x \in {"skip-to-policy", "reject", "user-limit", "user-limit-accept", "track"}
  BY <1>1, <1>7, ObeysVerdicts
<1>8. CASE x = "after"
  BY <1>1, <1>8, ObeysAfter
<1>9. CASE x = "not-local"
  BY <1>1, <1>9, ObeysNotLocal
<1> QED
  BY <1>1, <1>2, <1>3, <1>4, <1>5, <1>6, <1>7, <1>8, <1>9

-----------------------------------------------------------------------------
(* The walk through the chains.                                            *)

\* A chain on the stack of the walk, and the rule in it that is next.
Frame == [chain : Chains, next : Nat \ {0}]

\* Up to a rule that is the first to match from the next one on.
LEMMA ThroughMore ==
  ASSUME NEW s, NEW p, NEW c, NEW from \in Nat \ {0}, NEW i \in Nat, from <= i,
         Through(s, p, c, from), \A j \in from .. i - 1 : p \notin Chain(s, c)[j].on
  PROVE  Through(s, p, c, i)
<1> SUFFICES ASSUME NEW j \in 1 .. i - 1, p \in Chain(s, c)[j].on
             PROVE  \/ Chain(s, c)[j].do = "log"
                    \/ Chain(s, c)[j].do = "jump" /\ LetGo(s, p, Chain(s, c)[j].to)
  BY DEF Through
<1>1. j \in 1 .. from - 1 \/ j \in from .. i - 1
  OBVIOUS
<1>2. j \in 1 .. from - 1
  BY <1>1
<1> QED
  BY <1>2 DEF Through

\* Or up to the rule after it, when it let the packet go.
LEMMA ThroughOne ==
  ASSUME NEW s, NEW p, NEW c, NEW i \in Nat \ {0}, Through(s, p, c, i),
         \/ Chain(s, c)[i].do = "log"
         \/ Chain(s, c)[i].do = "jump" /\ LetGo(s, p, Chain(s, c)[i].to)
  PROVE  Through(s, p, c, i + 1)
<1> SUFFICES ASSUME NEW j \in 1 .. (i + 1) - 1, p \in Chain(s, c)[j].on
             PROVE  \/ Chain(s, c)[j].do = "log"
                    \/ Chain(s, c)[j].do = "jump" /\ LetGo(s, p, Chain(s, c)[j].to)
  BY DEF Through
<1>1. j = i \/ j \in 1 .. i - 1
  OBVIOUS
<1>2. CASE j \in 1 .. i - 1
  BY <1>2 DEF Through
<1> QED
  BY <1>1, <1>2

\* Or up to the end, when none matches.
LEMMA ThroughNone ==
  ASSUME NEW s, NEW p, NEW c
  PROVE  Through(s, p, c, 1)
<1>1. 1 .. 1 - 1 = {}
  OBVIOUS
<1> QED
  BY <1>1 DEF Through

\* The frames after the chain that is walked ended, moved on or jumped.
Low(fs) == SubSeq(fs, 1, Len(fs) - 1)
On(fs, m) == Append(Low(fs), [fs[Len(fs)] EXCEPT !.next = m])
Up(fs, m, c) == Append(On(fs, m), [chain |-> c, next |-> 1])

\* What those stacks are made of.
LEMMA FramesAre ==
  ASSUME NEW fs \in Seq(Frame), fs # << >>, NEW m \in Nat \ {0}, NEW c \in Chains
  PROVE  LET n == Len(fs)
             low == Low(fs)
             on == On(fs, m)
             up == Up(fs, m, c) IN
         /\ n \in Nat \ {0} /\ \A k \in 1 .. n : fs[k] \in Frame
         /\ low \in Seq(Frame) /\ Len(low) = n - 1 /\ \A k \in 1 .. n - 1 : low[k] = fs[k]
         /\ on \in Seq(Frame) /\ Len(on) = n /\ \A k \in 1 .. n - 1 : on[k] = fs[k]
         /\ on[n].chain = fs[n].chain /\ on[n].next = m
         /\ up \in Seq(Frame) /\ Len(up) = n + 1 /\ \A k \in 1 .. n - 1 : up[k] = fs[k]
         /\ up[n].chain = fs[n].chain /\ up[n].next = m
         /\ up[n + 1].chain = c /\ up[n + 1].next = 1
<1> DEFINE n == Len(fs)
           low == Low(fs)
           top == [fs[n] EXCEPT !.next = m]
           on == On(fs, m)
           last == [chain |-> c, next |-> 1]
           up == Up(fs, m, c)
<1>1. n \in Nat \ {0} /\ \A k \in 1 .. n : fs[k] \in Frame
  OBVIOUS
<1>2. low \in Seq(Frame) /\ Len(low) = n - 1 /\ \A k \in 1 .. n - 1 : low[k] = fs[k]
  <2>1. n - 1 \in Int /\ 1 \in Int /\ \A i \in 1 .. n - 1 : fs[i] \in Frame
    BY <1>1
  <2> HIDE DEF Frame, n
  <2>2. /\ low \in Seq(Frame)
        /\ Len(low) = IF 1 <= n - 1 THEN (n - 1) - 1 + 1 ELSE 0
        /\ \A i \in 1 .. (n - 1) - 1 + 1 : low[i] = fs[1 + i - 1]
    BY <2>1, SubSeqProperties DEF Low, n
  <2> HIDE DEF low
  <2>3. Len(low) = n - 1
    BY <1>1, <2>2
  <2>4. \A k \in 1 .. n - 1 : k \in 1 .. (n - 1) - 1 + 1 /\ 1 + k - 1 = k
    BY <1>1
  <2> QED
    BY <2>2, <2>3, <2>4
<1>3. top \in Frame /\ top.chain = fs[n].chain /\ top.next = m
  <2>1. fs[n] \in Frame
    BY <1>1
  <2> QED
    BY <2>1 DEF Frame
<1>4. last \in Frame /\ last.chain = c /\ last.next = 1
  BY DEF Frame
<1>5. on = Append(low, top) /\ up = Append(on, last)
  BY DEF On, Up
<1> HIDE DEF low, top, last, n, Frame, on, up
<1>6. on \in Seq(Frame) /\ Len(on) = n /\ on[n] = top /\ \A k \in 1 .. n - 1 : on[k] = fs[k]
  BY <1>1, <1>2, <1>3, <1>5
<1>7. /\ up \in Seq(Frame) /\ Len(up) = n + 1 /\ up[n + 1] = last /\ up[n] = top
      /\ \A k \in 1 .. n - 1 : up[k] = fs[k]
  BY <1>1, <1>4, <1>5, <1>6
<1>8. /\ n \in Nat \ {0} /\ \A k \in 1 .. n : fs[k] \in Frame
      /\ low \in Seq(Frame) /\ Len(low) = n - 1 /\ \A k \in 1 .. n - 1 : low[k] = fs[k]
      /\ on \in Seq(Frame) /\ Len(on) = n /\ \A k \in 1 .. n - 1 : on[k] = fs[k]
      /\ on[n].chain = fs[n].chain /\ on[n].next = m
      /\ up \in Seq(Frame) /\ Len(up) = n + 1 /\ \A k \in 1 .. n - 1 : up[k] = fs[k]
      /\ up[n].chain = fs[n].chain /\ up[n].next = m
      /\ up[n + 1].chain = c /\ up[n + 1].next = 1
  BY <1>1, <1>2, <1>3, <1>4, <1>6, <1>7
<1> QED
  BY <1>8 DEF n, low, on, up

\* A jump puts a chain on top and keeps the place in the one below.
UpHas(fs, m, c, up) ==
    LET n == Len(fs) IN
    /\ up \in Seq(Frame) /\ Len(up) = n + 1 /\ \A k \in 1 .. n - 1 : up[k] = fs[k]
    /\ up[n].chain = fs[n].chain /\ up[n].next = m
    /\ up[n + 1].chain = c /\ up[n + 1].next = 1

\* So does the walk's.
LEMMA UpIs ==
  ASSUME NEW fs \in Seq(Frame), fs # << >>, NEW m \in Nat \ {0}, NEW c \in Chains
  PROVE  UpHas(fs, m, c, Up(fs, m, c))
BY FramesAre DEF UpHas

\* The chain that is walked moves on.
LEMMA FitsOn ==
  ASSUME NEW s, NEW p, NEW fs, NEW gs, NEW n \in Nat \ {0}, Len(fs) = n, Len(gs) = n,
         Fits(s, p, fs), \A k \in 1 .. n - 1 : gs[k] = fs[k],
         gs[n].chain = fs[n].chain, Through(s, p, gs[n].chain, gs[n].next)
  PROVE  Fits(s, p, gs)
<1> SUFFICES ASSUME NEW k \in 1 .. n
             PROVE  /\ Within(s, p, gs[k].chain)
                    /\ k = n => Through(s, p, gs[k].chain, gs[k].next)
                    /\ k < n =>
                         /\ gs[k].next \in 2 .. Len(Chain(s, gs[k].chain)) + 1
                         /\ Through(s, p, gs[k].chain, gs[k].next - 1)
                         /\ Chain(s, gs[k].chain)[gs[k].next - 1].do = "jump"
                         /\ Chain(s, gs[k].chain)[gs[k].next - 1].to = gs[k + 1].chain
  BY DEF Fits
<1>1. /\ Within(s, p, fs[k].chain)
      /\ k < n =>
           /\ fs[k].next \in 2 .. Len(Chain(s, fs[k].chain)) + 1
           /\ Through(s, p, fs[k].chain, fs[k].next - 1)
           /\ Chain(s, fs[k].chain)[fs[k].next - 1].do = "jump"
           /\ Chain(s, fs[k].chain)[fs[k].next - 1].to = fs[k + 1].chain
  BY DEF Fits
<1>2. CASE k = n
  BY <1>1, <1>2
<1>3. CASE k < n
  <2>1. k \in 1 .. n - 1 /\ k + 1 \in 1 .. n /\ (k + 1 = n \/ k + 1 \in 1 .. n - 1) /\ k # n
    BY <1>3
  <2>2. gs[k] = fs[k] /\ gs[k + 1].chain = fs[k + 1].chain
    BY <2>1
  <2> QED
    BY <1>1, <1>3, <2>1, <2>2
<1> QED
  BY <1>2, <1>3

\* It jumps to another one.
LEMMA FitsUp ==
  ASSUME NEW s, NEW p, NEW fs, NEW gs, NEW n \in Nat \ {0}, Len(fs) = n, Len(gs) = n + 1,
         Fits(s, p, fs), \A k \in 1 .. n - 1 : gs[k] = fs[k],
         gs[n].chain = fs[n].chain,
         gs[n].next \in 2 .. Len(Chain(s, gs[n].chain)) + 1,
         Through(s, p, gs[n].chain, gs[n].next - 1),
         Chain(s, gs[n].chain)[gs[n].next - 1].do = "jump",
         Chain(s, gs[n].chain)[gs[n].next - 1].to = gs[n + 1].chain,
         Within(s, p, gs[n + 1].chain), gs[n + 1].next = 1
  PROVE  Fits(s, p, gs)
<1> SUFFICES ASSUME NEW k \in 1 .. n + 1
             PROVE  /\ Within(s, p, gs[k].chain)
                    /\ k = n + 1 => Through(s, p, gs[k].chain, gs[k].next)
                    /\ k < n + 1 =>
                         /\ gs[k].next \in 2 .. Len(Chain(s, gs[k].chain)) + 1
                         /\ Through(s, p, gs[k].chain, gs[k].next - 1)
                         /\ Chain(s, gs[k].chain)[gs[k].next - 1].do = "jump"
                         /\ Chain(s, gs[k].chain)[gs[k].next - 1].to = gs[k + 1].chain
  BY DEF Fits
<1>1. k \in 1 .. n =>
      /\ Within(s, p, fs[k].chain)
      /\ k < n =>
           /\ fs[k].next \in 2 .. Len(Chain(s, fs[k].chain)) + 1
           /\ Through(s, p, fs[k].chain, fs[k].next - 1)
           /\ Chain(s, fs[k].chain)[fs[k].next - 1].do = "jump"
           /\ Chain(s, fs[k].chain)[fs[k].next - 1].to = fs[k + 1].chain
  BY DEF Fits
<1>2. CASE k = n + 1
  BY <1>2, ThroughNone
<1>3. CASE k = n
  <2>1. k \in 1 .. n /\ ~(k = n + 1)
    BY <1>3
  <2> QED
    BY <1>1, <1>3, <2>1
<1>4. CASE k < n
  <2>1. /\ k \in 1 .. n - 1 /\ k \in 1 .. n /\ (k + 1 = n \/ k + 1 \in 1 .. n - 1)
        /\ k # n + 1 /\ k < n + 1
    BY <1>4
  <2>2. gs[k] = fs[k] /\ gs[k + 1].chain = fs[k + 1].chain
    BY <2>1
  <2> QED
    BY <1>1, <1>4, <2>1, <2>2
<1>5. k = n + 1 \/ k = n \/ k < n
  OBVIOUS
<1> QED
  BY <1>2, <1>3, <1>4, <1>5

\* It comes to its end, and the one below goes on.
LEMMA FitsDown ==
  ASSUME NEW s, NEW p, NEW fs, NEW gs, NEW n \in Nat \ {0, 1}, Len(fs) = n, Len(gs) = n - 1,
         Fits(s, p, fs), \A k \in 1 .. n - 1 : gs[k] = fs[k],
         LetGo(s, p, fs[n].chain)
  PROVE  Fits(s, p, gs)
<1> SUFFICES ASSUME NEW k \in 1 .. n - 1
             PROVE  /\ Within(s, p, gs[k].chain)
                    /\ k = n - 1 => Through(s, p, gs[k].chain, gs[k].next)
                    /\ k < n - 1 =>
                         /\ gs[k].next \in 2 .. Len(Chain(s, gs[k].chain)) + 1
                         /\ Through(s, p, gs[k].chain, gs[k].next - 1)
                         /\ Chain(s, gs[k].chain)[gs[k].next - 1].do = "jump"
                         /\ Chain(s, gs[k].chain)[gs[k].next - 1].to = gs[k + 1].chain
  BY DEF Fits
<1>0. k \in 1 .. n /\ k < n
  OBVIOUS
<1>1. /\ Within(s, p, fs[k].chain)
      /\ fs[k].next \in 2 .. Len(Chain(s, fs[k].chain)) + 1
      /\ Through(s, p, fs[k].chain, fs[k].next - 1)
      /\ Chain(s, fs[k].chain)[fs[k].next - 1].do = "jump"
      /\ Chain(s, fs[k].chain)[fs[k].next - 1].to = fs[k + 1].chain
  BY <1>0 DEF Fits
<1>2. gs[k] = fs[k]
  OBVIOUS
<1>3. CASE k = n - 1
  <2> DEFINE c == fs[k].chain
             i == fs[k].next - 1
  <2>1. k + 1 = n
    BY <1>3
  <2>2. fs[k].next \in Int /\ fs[k].next >= 2
    <3> DEFINE z == Len(Chain(s, fs[k].chain)) + 1
    <3>1. fs[k].next \in 2 .. z
      BY <1>1
    <3> HIDE DEF z
    <3> QED
      BY <3>1
  <2>3. i \in Nat \ {0} /\ i + 1 = fs[k].next
    BY <2>2
  <2>4. Through(s, p, c, i) /\ Chain(s, c)[i].do = "jump" /\ Chain(s, c)[i].to = fs[n].chain
    BY <1>1, <2>1
  <2> HIDE DEF i, c
  <2>5. Through(s, p, c, i + 1)
    BY <2>3, <2>4, ThroughOne
  <2>6. Through(s, p, fs[k].chain, fs[k].next)
    BY <2>3, <2>5 DEF c
  <2> QED
    BY <1>1, <1>2, <1>3, <2>6
<1>4. CASE k < n - 1
  <2>1. k + 1 \in 1 .. n - 1 /\ k # n - 1
    BY <1>4
  <2>2. gs[k + 1] = fs[k + 1]
    BY <2>1
  <2> QED
    BY <1>1, <1>2, <1>4, <2>1, <2>2
<1>5. k = n - 1 \/ k < n - 1
  OBVIOUS
<1> QED
  BY <1>3, <1>4, <1>5

\* A jump leaves frames that fit.
LEMMA UpFits ==
  ASSUME NEW s, NEW p, NEW fs \in Seq(Frame), fs # << >>, NEW i \in Nat \ {0}, NEW c \in Chains,
         Fits(s, p, fs), Within(s, p, c),
         i + 1 \in 2 .. Len(Chain(s, fs[Len(fs)].chain)) + 1,
         Through(s, p, fs[Len(fs)].chain, i),
         Chain(s, fs[Len(fs)].chain)[i].do = "jump",
         Chain(s, fs[Len(fs)].chain)[i].to = c
  PROVE  LET up == Up(fs, i + 1, c) IN
         /\ up \in Seq(Frame) /\ up # << >> /\ up[1].chain = fs[1].chain
         /\ Fits(s, p, up)
<1> DEFINE n == Len(fs)
           up == Up(fs, i + 1, c)
<1>1. i + 1 \in Nat \ {0} /\ (i + 1) - 1 = i
  OBVIOUS
<1>2. n \in Nat \ {0}
  BY FramesAre, <1>1
<1>3. /\ up \in Seq(Frame) /\ Len(up) = n + 1 /\ \A k \in 1 .. n - 1 : up[k] = fs[k]
      /\ up[n].chain = fs[n].chain /\ up[n].next = i + 1
      /\ up[n + 1].chain = c /\ up[n + 1].next = 1
  <2>1. UpHas(fs, i + 1, c, up)
    BY <1>1, UpIs
  <2> HIDE DEF up, Frame
  <2> QED
    BY <2>1 DEF UpHas
<1> HIDE DEF up, Frame
<1>4. /\ up[n].next \in 2 .. Len(Chain(s, up[n].chain)) + 1
      /\ Through(s, p, up[n].chain, up[n].next - 1)
      /\ Chain(s, up[n].chain)[up[n].next - 1].do = "jump"
      /\ Chain(s, up[n].chain)[up[n].next - 1].to = up[n + 1].chain
      /\ Within(s, p, up[n + 1].chain)
  BY <1>1, <1>3
<1>5. Fits(s, p, up)
  BY <1>2, <1>3, <1>4, FitsUp
<1>6. up[1].chain = fs[1].chain /\ up # << >>
  <2>1. n = 1 \/ 1 \in 1 .. n - 1
    <3> HIDE DEF n
    <3> QED
      BY <1>2
  <2>2. Len(up) # 0
    BY <1>2, <1>3
  <2> QED
    BY <1>3, <2>1, <2>2
<1> QED
  BY <1>3, <1>5, <1>6 DEF up

\* No rule is before the first.
LEMMA FirstPlace ==
  ASSUME NEW n \in Nat \ {0}
  PROVE  n = 1 \/ 1 \in 1 .. n - 1
OBVIOUS

\* Nothing is walked at first.
LEMMA InitWalks == Init => WalkInv
BY StatesAssumption DEF Init, WalkInv, StatesAssumption

\* No packet is in the table while a batch replaces it.
LEMMA CommitWalks ==
  ASSUME WalkInv, NEW s \in States, Commit(s)
  PROVE  WalkInv'
BY DEF WalkInv, Commit

\* A packet leaves once it has its verdict.
LEMMA LeaveWalks ==
  ASSUME WalkInv, Leave
  PROVE  WalkInv'
BY DEF WalkInv, Leave

\* A packet that arrives is in the base chain of its hook.
LEMMA ArriveWalks ==
  ASSUME WalkInv, NEW p \in Packets, Arrive(p)
  PROVE  WalkInv'
<1> DEFINE f == [chain |-> <<"base", p.dir>>, next |-> 1]
<1>1. /\ pkt = NoPacket /\ pkt' = p /\ frames' = <<f>> /\ st' = st /\ verdict' = "none"
      /\ st \in States
  BY DEF WalkInv, Arrive
<1>2. p # NoPacket /\ p.dir \in Directions
  BY PacketsAssumption DEF PacketsAssumption
<1>3. <<"base", p.dir>> \in Chains
  BY <1>2 DEF Chains
<1>4. f \in Frame /\ f.chain = <<"base", p.dir>> /\ f.next = 1
  BY <1>3 DEF Frame
<1> HIDE DEF f
<1>5. /\ <<f>> \in Seq(Frame) /\ Len(<<f>>) = 1 /\ <<f>>[1] = f /\ <<f>> # << >>
  BY <1>4
<1>6. Within(st, p, <<"base", p.dir>>)
  BY WithinIs
<1>7. Fits(st, p, <<f>>)
  <2> SUFFICES ASSUME NEW k \in 1 .. 1
               PROVE  /\ Within(st, p, f.chain)
                      /\ Through(st, p, f.chain, f.next)
                      /\ k = 1 /\ ~(k < 1)
    BY <1>5 DEF Fits
  <2> QED
    BY <1>4, <1>6, ThroughNone
<1> QED
  BY <1>1, <1>2, <1>4, <1>5, <1>7 DEF WalkInv, Frame

\* The chain that is walked, and the rule that is next.
LEMMA TopIs ==
  ASSUME WalkInv, frames # << >>
  PROVE  LET n == Len(frames)
             f == frames[n] IN
         /\ pkt \in Packets /\ st \in States /\ verdict = "none" /\ pkt # NoPacket
         /\ frames \in Seq(Frame) /\ n \in Nat \ {0} /\ f \in Frame
         /\ frames[1].chain = <<"base", pkt.dir>> /\ Fits(st, pkt, frames)
         /\ Within(st, pkt, f.chain) /\ Through(st, pkt, f.chain, f.next)
<1>1. /\ pkt \in Packets /\ st \in States /\ verdict = "none" /\ pkt # NoPacket
      /\ frames \in Seq(Frame)
      /\ frames[1].chain = <<"base", pkt.dir>> /\ Fits(st, pkt, frames)
  BY DEF WalkInv, Frame
<1>2. Len(frames) \in Nat \ {0} /\ Len(frames) \in 1 .. Len(frames)
      /\ frames[Len(frames)] \in Frame
  <2> HIDE DEF Frame
  <2> QED
    BY <1>1
<1>3. Within(st, pkt, frames[Len(frames)].chain)
      /\ Through(st, pkt, frames[Len(frames)].chain, frames[Len(frames)].next)
  BY <1>1, <1>2 DEF Fits
<1> QED
  BY <1>1, <1>2, <1>3

\* A verdict that is called for ends the walk.
LEMMA DecidedWalks ==
  ASSUME WalkInv, frames # << >>, NEW v, Decided(v), v = Judge(st, pkt)
  PROVE  WalkInv'
BY TopIs DEF WalkInv, Decided

\* A return, or the end of a chain, leads back to a chain that fits.
LEMMA BackWalks ==
  ASSUME WalkInv, frames # << >>, Back, LetGo(st, pkt, frames[Len(frames)].chain)
  PROVE  WalkInv'
<1> DEFINE n == Len(frames)
           low == Low(frames)
<1>1. /\ frames \in Seq(Frame) /\ n \in Nat \ {0, 1}
      /\ frames' = low /\ st' = st /\ pkt' = pkt /\ verdict' = verdict
      /\ Fits(st, pkt, frames) /\ frames[1].chain = <<"base", pkt.dir>>
      /\ pkt \in Packets /\ pkt # NoPacket /\ verdict = "none" /\ st \in States
  <2>1. /\ frames \in Seq(Frame) /\ n \in Nat \ {0}
        /\ Fits(st, pkt, frames) /\ frames[1].chain = <<"base", pkt.dir>>
        /\ pkt \in Packets /\ pkt # NoPacket /\ verdict = "none" /\ st \in States
    BY TopIs
  <2>2. n > 1 /\ frames' = low /\ st' = st /\ pkt' = pkt /\ verdict' = verdict
    BY DEF Back, Depth, Below, Low
  <2> QED
    BY <2>1, <2>2
<1>2. <<"base", "in">> \in Chains
  BY DEF Chains, Directions
<1>3. low \in Seq(Frame) /\ Len(low) = n - 1 /\ \A k \in 1 .. n - 1 : low[k] = frames[k]
  BY <1>1, <1>2, FramesAre
<1>4. Fits(st, pkt, low)
  <2> HIDE DEF low
  <2> QED
    BY <1>1, <1>3, FitsDown
<1>5. low[1].chain = <<"base", pkt.dir>>
  <2>1. 1 \in 1 .. n - 1
    <3> HIDE DEF n
    <3> QED
      BY <1>1, FirstPlace
  <2> QED
    BY <1>1, <1>3, <2>1
<1> HIDE DEF low
<1> QED
  BY <1>1, <1>3, <1>4, <1>5 DEF WalkInv, Frame

\* A rule that only logs leads on.
LEMMA OnWalks ==
  ASSUME WalkInv, frames # << >>, NEW i \in Nat \ {0},
         frames' = Append(Below, [frames[Depth] EXCEPT !.next = i + 1]),
         UNCHANGED <<st, pkt, verdict>>,
         Through(st, pkt, frames[Len(frames)].chain, i + 1)
  PROVE  WalkInv'
<1> DEFINE n == Len(frames)
           on == On(frames, i + 1)
<1>1. /\ frames \in Seq(Frame) /\ n \in Nat \ {0}
      /\ Fits(st, pkt, frames) /\ frames[1].chain = <<"base", pkt.dir>>
      /\ pkt \in Packets /\ pkt # NoPacket /\ verdict = "none" /\ st \in States
  BY TopIs
<1>2. frames' = on /\ st' = st /\ pkt' = pkt /\ verdict' = verdict
  BY DEF Depth, Below, Low, On, Up
<1>3. <<"base", "in">> \in Chains /\ i + 1 \in Nat \ {0}
  BY DEF Chains, Directions
<1>4. /\ on \in Seq(Frame) /\ Len(on) = n /\ \A k \in 1 .. n - 1 : on[k] = frames[k]
      /\ on[n].chain = frames[n].chain /\ on[n].next = i + 1
  BY <1>1, <1>3, FramesAre
<1> HIDE DEF on
<1>5. Fits(st, pkt, on)
  BY <1>1, <1>4, FitsOn
<1>6. on[1].chain = <<"base", pkt.dir>> /\ on # << >>
  <2>1. n = 1 \/ 1 \in 1 .. n - 1
    BY <1>1, FirstPlace
  <2>2. Len(on) # 0
    BY <1>1, <1>4
  <2> QED
    BY <1>1, <1>4, <2>1, <2>2
<1> QED
  BY <1>1, <1>2, <1>4, <1>5, <1>6 DEF WalkInv, Frame

\* A jump leads to a chain that fits.
LEMMA JumpWalks ==
  ASSUME WalkInv, frames # << >>, NEW i \in 1 .. Len(Chain(st, frames[Len(frames)].chain)),
         NEW c \in Chains, Chain(st, frames[Len(frames)].chain) \in Seq(Entries),
         frames' = Append(Append(Below, [frames[Depth] EXCEPT !.next = i + 1]),
                          [chain |-> c, next |-> 1]),
         UNCHANGED <<st, pkt, verdict>>,
         Through(st, pkt, frames[Len(frames)].chain, i),
         Chain(st, frames[Len(frames)].chain)[i].do = "jump",
         Chain(st, frames[Len(frames)].chain)[i].to = c,
         Within(st, pkt, c)
  PROVE  WalkInv'
<1> DEFINE n == Len(frames)
           up == Up(frames, i + 1, c)
           R == Chain(st, frames[n].chain)
<1>1. /\ frames \in Seq(Frame) /\ n \in Nat \ {0}
      /\ Fits(st, pkt, frames) /\ frames[1].chain = <<"base", pkt.dir>>
      /\ pkt \in Packets /\ pkt # NoPacket /\ verdict = "none" /\ st \in States
  BY TopIs
<1>2. frames' = up /\ st' = st /\ pkt' = pkt /\ verdict' = verdict
  BY DEF Depth, Below, Low, On, Up
<1>3. i \in Nat \ {0} /\ i + 1 \in 2 .. Len(R) + 1
  <2> HIDE DEF R
  <2>1. Len(R) \in Nat
    BY DEF R
  <2>2. i \in 1 .. Len(R)
    BY DEF R
  <2> QED
    BY <2>1, <2>2
<1>4. /\ up \in Seq(Frame) /\ up # << >> /\ up[1].chain = frames[1].chain
      /\ Fits(st, pkt, up)
  BY <1>1, <1>3, UpFits
<1> HIDE DEF up
<1> QED
  BY <1>1, <1>2, <1>4 DEF WalkInv, Frame

-----------------------------------------------------------------------------
(* The walk ends in the verdict that is called for.                        *)

\* A chain that has no rule left that matches was gone through to its end.
LEMMA ThroughEnd ==
  ASSUME NEW s, NEW p, NEW c, NEW from \in Nat \ {0}, Chain(s, c) \in Seq(Entries),
         Through(s, p, c, from),
         \A i \in from .. Len(Chain(s, c)) :
           ~(p \in Chain(s, c)[i].on /\ \A j \in from .. i - 1 : p \notin Chain(s, c)[j].on)
  PROVE  Through(s, p, c, Len(Chain(s, c)) + 1)
<1> DEFINE R == Chain(s, c)
           T == {i \in from .. Len(R) : p \in R[i].on}
<1>1. Len(R) \in Nat
  <2> HIDE DEF R
  <2>1. R \in Seq(Entries)
    BY DEF R
  <2> QED
    BY <2>1
<1>2. T = {}
  <2> SUFFICES ASSUME T # {} PROVE FALSE
    OBVIOUS
  <2>1. T \in SUBSET Nat
    <3> HIDE DEF R
    <3> QED
      OBVIOUS
  <2>2. PICK i \in T : \A k \in T : i <= k
    <3> HIDE DEF T
    <3> QED
      BY <2>1, Smallest
  <2>3. i \in from .. Len(R) /\ p \in R[i].on
    BY <2>2
  <2>4. \A j \in from .. i - 1 : p \notin R[j].on
    <3> SUFFICES ASSUME NEW j \in from .. i - 1, p \in R[j].on PROVE FALSE
      OBVIOUS
    <3>1. j \in from .. Len(R) /\ ~(i <= j)
      <4> HIDE DEF R
      <4> QED
        BY <1>1, <2>3
    <3>2. j \in T
      BY <3>1
    <3> HIDE DEF T
    <3> QED
      BY <2>2, <3>1, <3>2
  <2> QED
    BY <2>3, <2>4
<1> SUFFICES ASSUME NEW j \in 1 .. (Len(R) + 1) - 1, p \in R[j].on
             PROVE  \/ R[j].do = "log"
                    \/ R[j].do = "jump" /\ LetGo(s, p, R[j].to)
  BY DEF Through
<1>3. j \in from .. Len(R) \/ j \in 1 .. from - 1
  <2> HIDE DEF R
  <2> QED
    BY <1>1
<1>4. j \in 1 .. from - 1
  BY <1>2, <1>3
<1> QED
  BY <1>4 DEF Through

\* One step of the walk: the verdict that is called for, or one rule further.
LEMMA WalkCases ==
  ASSUME SetsApart, PortsFit, WalkInv, Walk
  PROVE  /\ frames # << >>
         /\ \/ Decided(Judge(st, pkt))
            \/ WalkInv' /\ UNCHANGED <<st, pkt, verdict>>
<1> DEFINE n == Len(frames)
           c == frames[n].chain
           from == frames[n].next
           R == Chain(st, c)
<1>1. frames # << >>
  BY DEF Walk
<1>2. /\ pkt \in Packets /\ st \in States /\ verdict = "none"
      /\ frames \in Seq(Frame) /\ n \in Nat \ {0} /\ frames[n] \in Frame
      /\ frames[1].chain = <<"base", pkt.dir>>
      /\ Within(st, pkt, c) /\ Through(st, pkt, c, from)
  BY <1>1, TopIs
<1>3. c \in Chains /\ from \in Nat \ {0}
  BY <1>2 DEF Frame
<1>4. /\ R \in Seq(Entries)
      /\ \A i \in 1 .. Len(R) :
           pkt \in R[i].on /\ Through(st, pkt, c, i) =>
             /\ R[i].do \in {"accept", "drop", "reject"} => R[i].do = Judge(st, pkt)
             /\ R[i].do = "jump" => R[i].to \in Chains /\ Within(st, pkt, R[i].to)
             /\ R[i].do = "return" => c[1] # "base" /\ LetGo(st, pkt, c)
      /\ Through(st, pkt, c, Len(R) + 1) =>
           IF c[1] = "base" THEN ChainPolicy(st, pkt.dir) = Judge(st, pkt)
           ELSE LetGo(st, pkt, c)
  <2>1. Obeys(st, pkt, c)
    BY <1>2, <1>3, ObeysAll
  <2> QED
    BY <1>2, <2>1 DEF Obeys
<1>5. \/ \E rule \in FirstHit(R, from) : Match(rule)
      \/ FirstHit(R, from) = {} /\ (Back \/ (Depth = 1 /\ Decided(ChainPolicy(st, pkt.dir))))
  BY DEF Walk, Depth
<1>6. ASSUME NEW rule \in FirstHit(R, from), Match(rule)
      PROVE  Decided(Judge(st, pkt)) \/ (WalkInv' /\ UNCHANGED <<st, pkt, verdict>>)
  <2>1. PICK i \in from .. Len(R) :
          /\ pkt \in R[i].on /\ \A j \in from .. i - 1 : pkt \notin R[j].on
          /\ rule = [do |-> R[i].do, to |-> R[i].to, next |-> i + 1]
    BY <1>6 DEF FirstHit
  <2>2. i \in 1 .. Len(R) /\ i \in Nat \ {0} /\ from <= i
    <3> HIDE DEF R, from
    <3>1. Len(R) \in Nat
      BY <1>4
    <3> QED
      BY <1>3, <2>1, <3>1
  <2>3. Through(st, pkt, c, i)
    <3>1. i \in Nat
      BY <2>2
    <3> HIDE DEF c, from
    <3> QED
      BY <1>2, <1>3, <2>1, <2>2, <3>1, ThroughMore DEF R
  <2>4. rule.do = R[i].do /\ rule.to = R[i].to /\ rule.next = i + 1
    BY <2>1
  <2>5. /\ R[i].do \in {"accept", "drop", "reject"} => R[i].do = Judge(st, pkt)
        /\ R[i].do = "jump" => R[i].to \in Chains /\ Within(st, pkt, R[i].to)
        /\ R[i].do = "return" => c[1] # "base" /\ LetGo(st, pkt, c)
    BY <1>4, <2>1, <2>2, <2>3
  <2> HIDE DEF R
  <2>6. CASE rule.do \in {"accept", "drop", "reject"} /\ Decided(rule.do)
    BY <2>4, <2>5, <2>6
  <2>7. CASE /\ rule.do = "jump"
             /\ frames' = Append(Append(Below, [frames[Depth] EXCEPT !.next = rule.next]),
                                 [chain |-> rule.to, next |-> 1])
             /\ UNCHANGED <<st, pkt, verdict>>
    <3> DEFINE e == R[i].to
    <3>1. R[i].do = "jump" /\ e \in Chains /\ Within(st, pkt, e)
      BY <2>4, <2>5, <2>7
    <3>2. frames' = Append(Append(Below, [frames[Depth] EXCEPT !.next = i + 1]),
                           [chain |-> e, next |-> 1])
      BY <2>4, <2>7
    <3>3. R[i].to = e
      OBVIOUS
    <3> HIDE DEF e
    <3>4. WalkInv'
      BY <1>1, <1>4, <2>2, <2>3, <2>7, <3>1, <3>2, <3>3, JumpWalks DEF R
    <3> QED
      BY <2>7, <3>4
  <2>8. CASE /\ rule.do = "log"
             /\ frames' = Append(Below, [frames[Depth] EXCEPT !.next = rule.next])
             /\ UNCHANGED <<st, pkt, verdict>>
    <3>1. frames' = Append(Below, [frames[Depth] EXCEPT !.next = i + 1])
      BY <2>4, <2>8
    <3>2. R[i].do = "log"
      BY <2>4, <2>8
    <3>3. Through(st, pkt, c, i + 1)
      BY <2>2, <2>3, <3>2, ThroughOne DEF R
    <3>4. WalkInv'
      BY <1>1, <2>2, <2>8, <3>1, <3>3, OnWalks
    <3> QED
      BY <2>8, <3>4
  <2>9. CASE rule.do = "return" /\ Back
    <3>1. LetGo(st, pkt, c)
      BY <2>4, <2>5, <2>9
    <3>2. WalkInv'
      BY <1>1, <2>9, <3>1, BackWalks
    <3> QED
      BY <2>9, <3>2 DEF Back
  <2> QED
    BY <1>6, <2>6, <2>7, <2>8, <2>9 DEF Match
<1>7. ASSUME FirstHit(R, from) = {}
      PROVE  Through(st, pkt, c, Len(R) + 1)
  <2>1. ASSUME NEW i \in from .. Len(R), pkt \in R[i].on,
               \A j \in from .. i - 1 : pkt \notin R[j].on
        PROVE  FALSE
    <3>1. [do |-> R[i].do, to |-> R[i].to, next |-> i + 1] \in FirstHit(R, from)
      BY <2>1 DEF FirstHit
    <3> QED
      BY <1>7, <3>1
  <2> HIDE DEF c, from
  <2> QED
    BY <1>2, <1>3, <1>4, <2>1, ThroughEnd DEF R
<1>8. CASE FirstHit(R, from) = {} /\ Back
  <2>1. LetGo(st, pkt, c)
    <3>1. c[1] = "base" => LetGo(st, pkt, c)
      BY DEF LetGo
    <3> QED
      BY <1>4, <1>7, <1>8, <3>1
  <2>2. WalkInv'
    BY <1>1, <1>8, <2>1, BackWalks
  <2> QED
    BY <1>1, <1>8, <2>2 DEF Back
<1>9. CASE FirstHit(R, from) = {} /\ Depth = 1 /\ Decided(ChainPolicy(st, pkt.dir))
  <2>1. c[1] = "base"
    BY <1>2, <1>9 DEF Depth
  <2>2. ChainPolicy(st, pkt.dir) = Judge(st, pkt)
    BY <1>4, <1>7, <1>9, <2>1
  <2> QED
    BY <1>1, <1>9, <2>2
<1> QED
  BY <1>1, <1>5, <1>6, <1>8, <1>9

(* The walk keeps to the promise all the way: in each chain, a packet met  *)
(* only rules that let it on, so that what is left of its walk ends in the *)
(* verdict that the state calls for (compile, compileRule).                *)
THEOREM WalkInvHolds ==
  ASSUME SetsApart, PortsFit
  PROVE  Spec => []WalkInv
<1>1. Init => WalkInv
  BY InitWalks
<1>2. WalkInv /\ [Next]_vars => WalkInv'
  <2> SUFFICES ASSUME WalkInv, [Next]_vars
               PROVE  WalkInv'
    OBVIOUS
  <2>1. ASSUME NEW s \in States, Commit(s)
        PROVE  WalkInv'
    BY <2>1, CommitWalks
  <2>2. ASSUME NEW p \in Packets, Arrive(p)
        PROVE  WalkInv'
    BY <2>2, ArriveWalks
  <2>3. CASE Walk
    <3>1. CASE Decided(Judge(st, pkt))
      BY <2>3, <3>1, WalkCases, DecidedWalks
    <3> QED
      BY <2>3, <3>1, WalkCases
  <2>4. CASE Leave
    BY <2>4, LeaveWalks
  <2>5. CASE UNCHANGED vars
    BY <2>5 DEF WalkInv, vars
  <2> QED
    BY <2>1, <2>2, <2>3, <2>4, <2>5 DEF Next
<1> QED
  BY <1>1, <1>2, PTL DEF Spec

(* The compiled chains implement Promise: the walk of a packet through     *)
(* them is a stutter until the step that decides, which decides as the     *)
(* first matching rule, or else the policy, has it (compile).              *)
THEOREM PromiseKept ==
  ASSUME SetsApart, PortsFit
  PROVE  Spec => KeepsPromise
<1>1. Init => Abstract!Init
  BY DEF Init, Abstract!Init
<1>2. WalkInv /\ [Next]_vars => [Abstract!Next]_Abstract!vars
  <2> SUFFICES ASSUME WalkInv, [Next]_vars
               PROVE  [Abstract!Next]_Abstract!vars
    OBVIOUS
  <2>1. ASSUME NEW s \in States, Commit(s)
        PROVE  Abstract!Next
    BY <2>1 DEF Commit, Abstract!Next, Abstract!Commit
  <2>2. ASSUME NEW p \in Packets, Arrive(p)
        PROVE  Abstract!Next
    BY <2>2 DEF Arrive, Abstract!Next, Abstract!Arrive
  <2>3. CASE Walk
    <3>1. CASE Decided(Judge(st, pkt))
      <4>1. pkt # NoPacket /\ verdict = "none"
        BY <2>3, WalkCases, TopIs
      <4> QED
        BY <3>1, <4>1 DEF Decided, Abstract!Next, Abstract!Decide
    <3>2. CASE UNCHANGED <<st, pkt, verdict>>
      BY <3>2 DEF Abstract!vars
    <3> QED
      BY <2>3, <3>1, <3>2, WalkCases
  <2>4. CASE Leave
    BY <2>4 DEF Leave, Abstract!Next, Abstract!Leave
  <2>5. CASE UNCHANGED vars
    BY <2>5 DEF vars, Abstract!vars
  <2> QED
    BY <2>1, <2>2, <2>3, <2>4, <2>5 DEF Next
<1> QED
  BY <1>1, <1>2, WalkInvHolds, PTL DEF Spec, KeepsPromise, Abstract!Spec

-----------------------------------------------------------------------------
(* What follows for the bans, the sets and the warnings of "bfw check".    *)

\* What is known whatever the states are.
Known == st \in States /\ pkt \in Packets \cup {NoPacket}

\* The states in force are states that there are, and the packets are packets.
LEMMA KnownHolds == Spec => []Known
<1>1. Init => Known
  BY StatesAssumption DEF Init, Known, StatesAssumption
<1>2. Known /\ [Next]_vars => Known'
  <2> SUFFICES ASSUME Known, [Next]_vars PROVE Known'
    OBVIOUS
  <2>1. ASSUME NEW s \in States, Commit(s) PROVE Known'
    BY <2>1 DEF Commit, Known
  <2>2. ASSUME NEW p \in Packets, Arrive(p) PROVE Known'
    BY <2>2 DEF Arrive, Known
  <2>3. CASE Walk
    <3>1. st' = st /\ pkt' = pkt
      BY <2>3 DEF Walk, Match, Back, Decided
    <3> QED
      BY <3>1 DEF Known
  <2>4. CASE Leave
    BY <2>4 DEF Leave, Known
  <2>5. CASE UNCHANGED vars
    BY <2>5 DEF vars, Known
  <2> QED
    BY <2>1, <2>2, <2>3, <2>4, <2>5 DEF Next
<1> QED
  BY <1>1, <1>2, PTL DEF Spec

\* A verdict is the one that is called for.
LEMMA VerdictIs ==
  ASSUME WalkInv, verdict # "none"
  PROVE  st \in States /\ pkt \in Packets /\ verdict = Judge(st, pkt)
BY DEF WalkInv

(* No rule of the user, and no connection that is open, lets a packet of a *)
(* banned address in or through (addThreatBanRules).                       *)
THEOREM BansCut ==
  ASSUME SetsApart, PortsFit
  PROVE  Spec => []BansCutFlows
<1>1. WalkInv => BansCutFlows
  <2> SUFFICES ASSUME WalkInv, verdict = "accept", pkt.dir # "out",
                      pkt \notin Loopback(pkt.dir), Banned(st, pkt)
               PROVE  FALSE
    BY DEF BansCutFlows, Banned
  <2>1. st \in States /\ pkt \in Packets /\ Judge(st, pkt) = "accept"
    BY VerdictIs
  <2>2. Forbidden(st, pkt)
    BY DEF Forbidden
  <2>3. Judge(st, pkt) = "drop"
    BY <2>2 DEF Judge
  <2> QED
    BY <2>1, <2>3
<1> QED
  BY <1>1, WalkInvHolds, PTL

(* The kernel never refuses a batch for intervals that overlap, whatever   *)
(* networks a set holds, as long as none of the others touches one that    *)
(* goes up to the last address (compileAddressSet, mergeIntervals).        *)
THEOREM BatchesLoad ==
  ASSUME SetsApart
  PROVE  Spec => []BatchLoads
<1>1. Known => BatchLoads
  <2> SUFFICES ASSUME st \in States, NEW v6 \in BOOLEAN
               PROVE  /\ Loadable(Elements(st.bans, v6))
                      /\ \A name \in DOMAIN st.sets : Loadable(Elements(st.sets[name], v6))
    BY DEF Known, BatchLoads
  <2>1. st.bans \in SUBSET Nets /\ IsFiniteSet(st.bans) /\ TopApart(st.bans)
    BY StatesAssumption DEF StatesAssumption, SetsApart
  <2>2. \A name \in DOMAIN st.sets :
          /\ st.sets[name] \in SUBSET Nets /\ IsFiniteSet(st.sets[name])
          /\ TopApart(st.sets[name])
    BY StatesAssumption DEF StatesAssumption, SetsApart
  <2>3. Loadable(Elements(st.bans, v6))
    BY <2>1, ElementsHold
  <2>4. \A name \in DOMAIN st.sets : Loadable(Elements(st.sets[name], v6))
    BY <2>2, ElementsHold
  <2> QED
    BY <2>3, <2>4
<1> QED
  BY <1>1, KnownHolds, PTL

\* A network that starts in another one and is not longer lies in it.
LEMMA Contained ==
  ASSUME NEW a \in Nets, NEW b \in Nets, PrefixContains(a, b)
  PROVE  a.v6 = b.v6 /\ Block(a) \subseteq Block(b)
<1>1. /\ a.lo \in Int /\ a.size \in Int /\ b.lo \in Int /\ b.size \in Int
      /\ a.size >= 1 /\ b.size >= 1
  <2>1. /\ Top \in Nat /\ a.lo \in 0 .. Top - 1 /\ a.size \in 1 .. Top - a.lo
        /\ b.lo \in 0 .. Top - 1 /\ b.size \in 1 .. Top - b.lo
    BY NetsAssumption DEF NetsAssumption
  <2> QED
    BY <2>1
<1>2. a.v6 = b.v6 /\ b.lo <= a.lo /\ a.lo <= b.lo + b.size - 1 /\ a.size <= b.size
  BY <1>1 DEF PrefixContains, Block
<1>3. \/ Block(a) \subseteq Block(b) \/ Block(b) \subseteq Block(a)
      \/ Block(a) \cap Block(b) = {}
  BY <1>2, BlocksNest DEF BlocksNest
<1>4. CASE Block(b) \subseteq Block(a)
  <2>1. b.lo + b.size - 1 \in Block(b)
    BY <1>1 DEF Block
  <2>2. b.lo \in Block(b)
    BY <1>1 DEF Block
  <2>3. b.lo \in Block(a) /\ b.lo + b.size - 1 \in Block(a)
    BY <1>4, <2>1, <2>2
  <2>4. a.lo <= b.lo /\ b.lo + b.size - 1 <= a.lo + a.size - 1
    BY <2>3 DEF Block
  <2>5. a.lo = b.lo /\ a.size = b.size
    BY <1>1, <1>2, <2>4
  <2> QED
    BY <1>2, <2>5 DEF Block
<1>5. CASE Block(a) \cap Block(b) = {}
  <2>1. a.lo \in Block(a) /\ a.lo \in Block(b)
    BY <1>1, <1>2 DEF Block
  <2> QED
    BY <1>5, <2>1
<1> QED
  BY <1>2, <1>3, <1>4, <1>5

\* What an endpoint matches, one that covers it matches too.
LEMMA Covered ==
  ASSUME NEW s, NEW v6, NEW addr, NEW port, NEW proto,
         NEW a \in Endpoints, NEW b \in Endpoints, AddrSuperset(a, b),
         b.set # NoSet => b.ports = {},
         InEndpoint(s, a, addr, v6), InPorts(a.ports, port, proto)
  PROVE  /\ InEndpoint(s, b, addr, v6) /\ InPorts(b.ports, port, proto)
         /\ b.ports # {} => a.ports # {}
<1>1. CASE b.set # NoSet \/ a.set # NoSet
  <2>1. a.set = b.set /\ b.ports = {}
    BY <1>1 DEF AddrSuperset
  <2> QED
    BY <1>1, <2>1 DEF InEndpoint, InPorts
<1>2. CASE b.set = NoSet /\ a.set = NoSet
  <2>1. /\ b.net # NoNet => a.net # NoNet /\ PrefixContains(a.net, b.net)
        /\ b.ports # {} =>
              /\ a.ports # {}
              /\ \A pa \in a.ports : \E pb \in b.ports :
                     /\ PortProtoCovers(pa.proto, pb.proto)
                     /\ pb.lo <= pa.lo /\ pa.hi <= pb.hi
    BY <1>2 DEF AddrSuperset
  <2>2. ASSUME b.net # NoNet
        PROVE  b.net.v6 = v6 /\ addr \in Block(b.net)
    <3>1. a.net \in Nets /\ b.net \in Nets /\ PrefixContains(a.net, b.net)
      BY <2>1, <2>2 DEF Endpoints
    <3>2. a.net.v6 = v6 /\ addr \in Block(a.net)
      BY <1>2, <2>1, <2>2 DEF InEndpoint
    <3> QED
      BY <3>1, <3>2, Contained
  <2>3. ASSUME b.ports # {}
        PROVE  \E q \in b.ports : q.proto \in {"any", proto} /\ port \in q.lo .. q.hi
    <3>1. PICK pa \in a.ports : pa.proto \in {"any", proto} /\ port \in pa.lo .. pa.hi
      BY <2>1, <2>3 DEF InPorts
    <3>2. PICK pb \in b.ports : /\ PortProtoCovers(pa.proto, pb.proto)
                                /\ pb.lo <= pa.lo /\ pa.hi <= pb.hi
      BY <2>1, <2>3
    <3>3. pa.lo \in Nat /\ pa.hi \in Nat /\ pb.lo \in Nat /\ pb.hi \in Nat
      BY DEF Endpoints
    <3>4. port \in pb.lo .. pb.hi
      BY <3>1, <3>2, <3>3
    <3>5. pb.proto \in {"any", proto}
      BY <3>1, <3>2 DEF PortProtoCovers
    <3> QED
      BY <3>4, <3>5
  <2> QED
    BY <1>2, <2>1, <2>2, <2>3 DEF InEndpoint, InPorts
<1> QED
  BY <1>1, <1>2

\* A rule that ruleSuperset finds to cover another one matches whatever that one matches.
LEMMA SupersetMatches ==
  ASSUME NEW s, NEW p, NEW v6, NEW a \in Rules, NEW b \in Rules,
         RuleSuperset(a, b), Active(b), Matches(s, a, v6, p),
         b.src.set # NoSet => b.src.ports = {}, b.dst.set # NoSet => b.dst.ports = {}
  PROVE  Matches(s, b, v6, p)
<1>1. a.src \in Endpoints /\ a.dst \in Endpoints /\ b.src \in Endpoints /\ b.dst \in Endpoints
  BY DEF Rules
<1>2. /\ p.v6 = v6 /\ p.dir = a.dir
      /\ a.iif = AnyIface \/ p.iif \in Ifaces[a.iif]
      /\ a.oif = AnyIface \/ p.oif \in Ifaces[a.oif]
      /\ a.proto \in {"any", p.proto}
      /\ a.icmp \in {AnyType, p.icmp}
      /\ InEndpoint(s, a.src, p.src, v6) /\ InEndpoint(s, a.dst, p.dst, v6)
      /\ InPorts(a.src.ports, p.sport, p.proto) /\ InPorts(a.dst.ports, p.dport, p.proto)
      /\ a.src.ports \cup a.dst.ports # {} => p.proto \in {"tcp", "udp"}
  BY DEF Matches
<1>3. /\ a.dir = b.dir
      /\ b.iif \in {AnyIface, a.iif} /\ b.oif \in {AnyIface, a.oif}
      /\ b.proto \in {"any", a.proto} /\ b.icmp \in {AnyType, a.icmp}
      /\ AddrSuperset(a.src, b.src) /\ AddrSuperset(a.dst, b.dst)
  BY DEF RuleSuperset
<1>4. /\ InEndpoint(s, b.src, p.src, v6) /\ InPorts(b.src.ports, p.sport, p.proto)
      /\ b.src.ports # {} => a.src.ports # {}
  <2> DEFINE x == a.src
             y == b.src
  <2>1. /\ x \in Endpoints /\ y \in Endpoints /\ AddrSuperset(x, y)
        /\ y.set # NoSet => y.ports = {}
        /\ InEndpoint(s, x, p.src, v6) /\ InPorts(x.ports, p.sport, p.proto)
    BY <1>1, <1>2, <1>3
  <2> HIDE DEF x, y
  <2>2. /\ InEndpoint(s, y, p.src, v6) /\ InPorts(y.ports, p.sport, p.proto)
        /\ y.ports # {} => x.ports # {}
    BY <2>1, Covered
  <2> QED
    BY <2>2 DEF x, y
<1>5. /\ InEndpoint(s, b.dst, p.dst, v6) /\ InPorts(b.dst.ports, p.dport, p.proto)
      /\ b.dst.ports # {} => a.dst.ports # {}
  <2> DEFINE x == a.dst
             y == b.dst
  <2>1. /\ x \in Endpoints /\ y \in Endpoints /\ AddrSuperset(x, y)
        /\ y.set # NoSet => y.ports = {}
        /\ InEndpoint(s, x, p.dst, v6) /\ InPorts(x.ports, p.dport, p.proto)
    BY <1>1, <1>2, <1>3
  <2> HIDE DEF x, y
  <2>2. /\ InEndpoint(s, y, p.dst, v6) /\ InPorts(y.ports, p.dport, p.proto)
        /\ y.ports # {} => x.ports # {}
    BY <2>1, Covered
  <2> QED
    BY <2>2 DEF x, y
<1>6. b.src.ports \cup b.dst.ports # {} => p.proto \in {"tcp", "udp"}
  BY <1>2, <1>4, <1>5
<1>7. /\ b.iif = AnyIface \/ p.iif \in Ifaces[b.iif]
      /\ b.oif = AnyIface \/ p.oif \in Ifaces[b.oif]
      /\ b.proto \in {"any", p.proto} /\ b.icmp \in {AnyType, p.icmp}
      /\ p.dir = b.dir
  BY <1>2, <1>3
<1> QED
  BY <1>2, <1>4, <1>5, <1>6, <1>7 DEF Matches, Active

(* A rule that "bfw check" calls shadowed never decides on a packet: it is *)
(* sound to delete it (ruleSuperset), unless it, or the rule that shadows  *)
(* it, has ports on a side that names a set, which it does not look at.    *)
THEOREM ShadowedNever ==
  ASSUME SetsAlone
  PROVE  Spec => []ShadowedNeverDecides
<1>1. Known => ShadowedNeverDecides
  <2> DEFINE l == RulesFor(st, pkt)
             j == FirstMatch(st, pkt)
             I == {k \in 1 .. Len(l) : Matches(st, l[k], pkt.v6, pkt)}
  <2> SUFFICES ASSUME Known, pkt # NoPacket, j # 0, Shadowed(l, j)
               PROVE  FALSE
    BY DEF ShadowedNeverDecides
  <2>1. st \in States /\ pkt \in Packets
    BY DEF Known
  <2>2. l \in Seq(Rules) /\ \A k \in 1 .. Len(l) : l[k] \in Rules /\ l[k] \in RulesOf(st)
    <3>1. st.rules4 \in Seq(Rules) /\ st.rules6 \in Seq(Rules)
      BY <2>1, StatesAssumption DEF StatesAssumption
    <3>2. \A k \in 1 .. Len(st.rules4) : st.rules4[k] \in RulesOf(st)
      BY <3>1 DEF RulesOf, ToSet
    <3>3. \A k \in 1 .. Len(st.rules6) : st.rules6[k] \in RulesOf(st)
      BY <3>1 DEF RulesOf, ToSet
    <3>4. l = st.rules4 \/ l = st.rules6
      BY DEF RulesFor
    <3> HIDE DEF l
    <3> QED
      BY <3>1, <3>2, <3>3, <3>4
  <2>3. j \in I /\ \A k \in I : j <= k
    <3>1. I = {} => j = 0
      BY <2>2, FirstMatchIs
    <3>2. I # {} => j \in I
      BY <2>2, FirstMatchIs
    <3>3. j # 0 => \A k \in I : j <= k
      BY <2>2, FirstMatchIs
    <3> HIDE DEF I, j
    <3> QED
      BY <3>1, <3>2, <3>3 DEF j
  <2>4. PICK i \in DOMAIN l : ShadowedBy(l, j, i)
    BY DEF Shadowed
  <2> HIDE DEF j
  <2>5. i < j /\ Active(l[i]) /\ RuleSuperset(l[j], l[i])
    BY <2>4 DEF ShadowedBy
  <2>6. i \in 1 .. Len(l) /\ j \in 1 .. Len(l) /\ Matches(st, l[j], pkt.v6, pkt)
    <3> HIDE DEF l
    <3> QED
      BY <2>2, <2>3
  <2>7. l[i] \in Rules /\ l[j] \in Rules /\ l[i] \in RulesOf(st)
    BY <2>2, <2>6
  <2>8. /\ l[i].src.set # NoSet => l[i].src.ports = {}
        /\ l[i].dst.set # NoSet => l[i].dst.ports = {}
    BY <2>1, <2>7 DEF SetsAlone
  <2>9. Matches(st, l[i], pkt.v6, pkt)
    BY <2>5, <2>6, <2>7, <2>8, SupersetMatches
  <2>10. j <= i
    BY <2>3, <2>6, <2>9
  <2> HIDE DEF l, I
  <2> QED
    BY <2>2, <2>5, <2>6, <2>10
<1> QED
  BY <1>1, KnownHolds, PTL

(* When "bfw check" warns that ssh is locked out, no new connection to its *)
(* port gets in from outside (cmdCheck), whatever the rules are.          *)
THEOREM LockoutReal ==
  ASSUME SetsApart, PortsFit
  PROVE  Spec => []LockoutIsReal
<1>1. WalkInv => LockoutIsReal
  <2> SUFFICES ASSUME WalkInv, LockoutRisk(st), st.etc["in"] \in {Unset, st.policies["in"]},
                      verdict = "accept", pkt.dir = "in", pkt.ct = "new", pkt.proto = "tcp",
                      pkt.dport = SshPort, pkt \notin Loopback("in")
               PROVE  FALSE
    BY DEF LockoutIsReal
  <2>1. st \in States /\ pkt \in Packets /\ Judge(st, pkt) = "accept"
    BY VerdictIs
  <2>2. ~st.panic /\ ~Forbidden(st, pkt)
    BY <2>1 DEF Judge
  <2>3. /\ pkt \notin PingReply6 /\ pkt \notin Icmp4 /\ pkt \notin MobileIp6
        /\ pkt \notin DhcpAnswer /\ pkt \notin DhcpAnswer6 /\ pkt \notin Discovery
        /\ pkt \notin Icmp6("in")
    <3>1. \A types : pkt \notin IcmpType("icmpv6", types) /\ pkt \notin IcmpType("icmp", types)
      BY DEF IcmpType
    <3>2. /\ pkt \notin PortEq("udp", "sport", 67) /\ pkt \notin PortEq("udp", "sport", 547)
          /\ pkt \notin PortEq("udp", "dport", 5353) /\ pkt \notin PortEq("udp", "dport", 1900)
      BY DEF PortEq
    <3>3. pkt \notin PingReply6 /\ pkt \notin Icmp4 /\ pkt \notin MobileIp6
      BY <3>1 DEF PingReply6, Icmp4, MobileIp6
    <3>4. pkt \notin DhcpAnswer /\ pkt \notin DhcpAnswer6 /\ pkt \notin Discovery
      <4>1. pkt \notin DhcpAnswer
        <5> DEFINE A == Nfproto(FALSE)
                   B == PortEq("udp", "sport", 67)
                   C == PortEq("udp", "dport", 68)
        <5>1. DhcpAnswer = A \cap B \cap C /\ pkt \notin B
          BY <3>2 DEF DhcpAnswer
        <5> HIDE DEF A, B, C
        <5> QED
          BY <5>1
      <4>2. pkt \notin DhcpAnswer6
        <5> DEFINE A == Nfproto(TRUE) \cap LinkLocal
                   B == PortEq("udp", "sport", 547)
                   C == PortEq("udp", "dport", 546)
        <5>1. DhcpAnswer6 = A \cap B \cap C /\ pkt \notin B
          BY <3>2 DEF DhcpAnswer6
        <5> HIDE DEF A, B, C
        <5> QED
          BY <5>1
      <4>3. pkt \notin Discovery
        BY <3>2 DEF Discovery
      <4> QED
        BY <4>1, <4>2, <4>3
    <3>5. pkt \notin Icmp6("in")
      BY <3>1 DEF Icmp6
    <3> QED
      BY <3>3, <3>4, <3>5
  <2>4. ~Open(pkt) /\ ~Needed(pkt)
    BY <2>3 DEF Open, Needed
  <2>5. Undecided(st, pkt)
    BY <2>2, <2>4 DEF Undecided
  <2>6. ~Elsewhere(pkt)
    BY <2>1, <2>5, JudgeCases
  <2>7. PastBefore(st, pkt)
    BY <2>3, <2>5, <2>6 DEF PastBefore
  <2>8. CASE FirstMatch(st, pkt) = 0
    <3>1. Judge(st, pkt) = PolicyDecides(st, pkt)
      BY <2>1, <2>7, <2>8, JudgeCases
    <3>2. Policy(st, "in") = st.policies["in"]
      BY <2>2 DEF Policy
    <3>3. st.policies["in"] \in {"deny", "reject"}
      BY <2>2 DEF LockoutRisk
    <3>4. PolicyDecides(st, pkt) # "accept"
      BY <3>2, <3>3 DEF PolicyDecides
    <3> QED
      BY <2>1, <3>1, <3>4
  <2>9. CASE FirstMatch(st, pkt) # 0
    <3> DEFINE l == RulesFor(st, pkt)
               r == l[FirstMatch(st, pkt)]
               I == {k \in 1 .. Len(l) : Matches(st, l[k], pkt.v6, pkt)}
    <3>1. st.rules4 \in Seq(Rules) /\ st.rules6 \in Seq(Rules)
      BY <2>1, StatesAssumption DEF StatesAssumption
    <3>2. l \in Seq(Rules)
      BY <3>1 DEF RulesFor
    <3>3. FirstMatch(st, pkt) \in I
      <4>1. I = {} => FirstMatch(st, pkt) = 0
        BY <3>2, FirstMatchIs
      <4>2. I # {} => FirstMatch(st, pkt) \in I
        BY <3>2, FirstMatchIs
      <4> HIDE DEF I
      <4> QED
        BY <2>9, <4>1, <4>2
    <3>4. FirstMatch(st, pkt) \in 1 .. Len(l) /\ Matches(st, r, pkt.v6, pkt)
      BY <3>3
    <3>5. r \in Rules
      <4> HIDE DEF l
      <4> QED
        BY <3>2, <3>4
    <3>6. RuleDecides(r, pkt) = "accept"
      BY <2>1, <2>7, <2>9, JudgeCases
    <3>7. r.action \in {"allow", "limit"}
      BY <3>5, <3>6 DEF RuleDecides, Rules
    <3>8. SshAllowsPort(r)
      BY <3>4, <3>7 DEF SshAllowsPort, Matches, Active, InPorts
    <3>9. r \in ToSet(st.rules4 \o st.rules6)
      <4>1. l = st.rules4 \/ l = st.rules6
        BY DEF RulesFor
      <4>2. r \in ToSet(l)
        <5> HIDE DEF l
        <5> QED
          BY <3>2, <3>4 DEF ToSet, r
      <4>3. ToSet(st.rules4) \cup ToSet(st.rules6) \subseteq ToSet(st.rules4 \o st.rules6)
        BY <3>1, ConcatRange
      <4> QED
        BY <4>1, <4>2, <4>3
    <3> QED
      BY <3>8, <3>9 DEF LockoutRisk
  <2> QED
    BY <2>8, <2>9
<1> QED
  BY <1>1, WalkInvHolds, PTL
=============================================================================
