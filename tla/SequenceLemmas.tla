--------------------------- MODULE SequenceLemmas ---------------------------
(***************************************************************************)
(* What the models' folds, flattened sequences and sorted sets come to.    *)
(* They are defined by recursion; here the recursive functions are shown   *)
(* to exist, so that what they compute can be followed step by step.       *)
(***************************************************************************)
EXTENDS Integers, Sequences, SequencesExt, WellFoundedInduction,
        SequenceTheorems, TLAPS

\* Induction on numbers: the smallest counterexample.
LEMMA Smallest ==
  ASSUME NEW T \in SUBSET Nat, T # {}
  PROVE  \E m \in T : \A k \in T : m <= k
<1>1. IsWellFoundedOn(OpToRel(<, Nat), Nat)
  BY NatLessThanWellFounded
<1>2. PICK m \in T : \A k \in T : <<k, m>> \notin OpToRel(<, Nat)
  BY <1>1, WFMin
<1>3. \A k \in T : ~(k < m)
  BY <1>2 DEF OpToRel
<1> QED
  BY <1>3

-----------------------------------------------------------------------------
(* FlattenSeq. *)

\* The concatenations of the first sequences, one by one.
Concatenates(h, seqs) ==
  /\ h[1] = seqs[1]
  /\ \A i \in 2 .. Len(seqs) : h[i] = h[i - 1] \o seqs[i]

\* A flattened sequence is built up, one sequence after the other.
LEMMA FlattenTrace ==
  ASSUME NEW S, NEW seqs \in Seq(Seq(S)), Len(seqs) # 0
  PROVE  \E h \in [1 .. Len(seqs) -> Seq(S)] :
            Concatenates(h, seqs) /\ FlattenSeq(seqs) = h[Len(seqs)]
<1> DEFINE n == Len(seqs)
<1>0. n \in Nat /\ n >= 1 /\ \A i \in 1 .. n : seqs[i] \in Seq(S)
  OBVIOUS
<1> DEFINE Good(h, m) ==
             h = [i \in 1 .. m |-> IF i = 1 THEN seqs[i] ELSE h[i - 1] \o seqs[i]]
           T == {m \in 1 .. n : ~\E h \in [1 .. m -> Seq(S)] : Good(h, m)}
<1>1. T = {}
  <2> SUFFICES ASSUME T # {} PROVE FALSE
    OBVIOUS
  <2>1. PICK m \in T : \A k \in T : m <= k
    <3>1. T \in SUBSET Nat
      <4> HIDE DEF n, Good
      <4> QED
        BY <1>0
    <3> HIDE DEF T
    <3> QED
      BY <3>1, Smallest
  <2>2. CASE m = 1
    <3>1. Good([i \in 1 .. 1 |-> seqs[i]], 1)
      OBVIOUS
    <3>2. [i \in 1 .. 1 |-> seqs[i]] \in [1 .. 1 -> Seq(S)]
      BY <1>0
    <3> QED
      BY <2>1, <2>2, <3>1, <3>2
  <2>3. CASE m > 1
    <3>1. m - 1 \in 1 .. n /\ m - 1 \notin T /\ m \in 1 .. n
      <4> HIDE DEF n, Good
      <4>1. m \in 1 .. n /\ m - 1 \in 1 .. n
        BY <1>0, <2>1, <2>3
      <4>2. ~(m <= m - 1)
        BY <4>1
      <4> QED
        BY <2>1, <4>1, <4>2
    <3>2. PICK h \in [1 .. m - 1 -> Seq(S)] : Good(h, m - 1)
      BY <3>1
    <3> DEFINE g == [i \in 1 .. m |-> IF i = m THEN h[m - 1] \o seqs[m] ELSE h[i]]
    <3>3. g \in [1 .. m -> Seq(S)]
      <4>1. h[m - 1] \o seqs[m] \in Seq(S)
        BY <1>0, <2>3, <3>1
      <4> QED
        BY <4>1, <3>1
    <3>4. \A i \in 1 .. m : g[i] = IF i = 1 THEN seqs[i] ELSE g[i - 1] \o seqs[i]
      <4> SUFFICES ASSUME NEW i \in 1 .. m
                   PROVE  g[i] = IF i = 1 THEN seqs[i] ELSE g[i - 1] \o seqs[i]
        OBVIOUS
      <4>0. m - 1 \in 1 .. m /\ m - 1 # m /\ m # 1 /\ i \in Int /\ m \in Int
        BY <2>3, <3>1
      <4>1. CASE i = m
        <5>0. m \in 1 .. m
          BY <4>0
        <5>1. g[m] = h[m - 1] \o seqs[m] /\ g[m - 1] = h[m - 1]
          BY <4>0, <5>0
        <5> HIDE DEF g
        <5> QED
          BY <4>0, <4>1, <5>1
      <4>2. CASE i < m
        <5>1. i \in 1 .. m - 1 /\ g[i] = h[i]
          BY <4>2, <3>1
        <5>2. i # 1 => i - 1 \in 1 .. m /\ i - 1 # m /\ g[i - 1] = h[i - 1]
          BY <4>2, <3>1
        <5>3. h[i] = IF i = 1 THEN seqs[i] ELSE h[i - 1] \o seqs[i]
          BY <3>2, <5>1
        <5> QED
          BY <5>1, <5>2, <5>3
      <4> QED
        BY <4>1, <4>2, <3>1
    <3>5. Good(g, m)
      <4> HIDE DEF g
      <4> QED
        BY <3>3, <3>4
    <3> HIDE DEF g
    <3> QED
      BY <2>1, <3>3, <3>5
  <2> QED
    BY <2>1, <2>2, <2>3
<1>2. \E h : Good(h, n)
  <2>1. n \in 1 .. n
    BY <1>0
  <2> HIDE DEF n, Good
  <2> QED
    BY <1>1, <2>1
<1> DEFINE f == CHOOSE h : Good(h, n)
<1>3. Good(f, n)
  BY <1>2, Zenon
<1>4. FlattenSeq(seqs) = f[n]
  BY DEF FlattenSeq
<1> HIDE DEF f
<1>5. \A i \in 1 .. n : f[i] = IF i = 1 THEN seqs[i] ELSE f[i - 1] \o seqs[i]
  BY <1>3
<1>6. DOMAIN f = 1 .. n
  BY <1>3
<1> DEFINE U == {i \in 1 .. n : f[i] \notin Seq(S)}
<1>7. U = {}
  <2> SUFFICES ASSUME U # {} PROVE FALSE
    OBVIOUS
  <2>1. U \in SUBSET Nat
    <3> HIDE DEF n
    <3> QED
      BY <1>0
  <2>2. PICK i \in U : \A k \in U : i <= k
    <3> HIDE DEF U
    <3> QED
      BY <2>1, Smallest
  <2>3. CASE i = 1
    BY <1>0, <1>5, <2>2, <2>3
  <2>4. CASE i > 1
    <3>1. i - 1 \in 1 .. n /\ f[i - 1] \in Seq(S) /\ i \in 1 .. n
      <4> HIDE DEF n
      <4>1. i \in 1 .. n /\ i - 1 \in 1 .. n /\ ~(i <= i - 1)
        BY <1>0, <2>2, <2>4
      <4> QED
        BY <2>2, <4>1
    <3>2. f[i] = f[i - 1] \o seqs[i]
      <4> HIDE DEF n
      <4>1. i # 1
        BY <2>4
      <4> QED
        BY <1>5, <3>1, <4>1
    <3>3. f[i] \in Seq(S)
      BY <1>0, <3>1, <3>2, ConcatProperties
    <3> QED
      BY <2>2, <3>3
  <2> QED
    BY <2>2, <2>3, <2>4
<1>8. f = [i \in 1 .. n |-> f[i]] /\ \A i \in 1 .. n : f[i] \in Seq(S)
  BY <1>3, <1>6, <1>7
<1>9. f \in [1 .. n -> Seq(S)]
  BY <1>8
<1>10. Concatenates(f, seqs)
  <2>1. \A i \in 2 .. n : i \in 1 .. n /\ i # 1
    BY <1>0
  <2>2. 1 \in 1 .. n
    BY <1>0
  <2> QED
    BY <1>5, <2>1, <2>2 DEF Concatenates
<1> QED
  BY <1>4, <1>9, <1>10

\* Where each entry of a flattened sequence comes from, in order.
Comes(flat, seqs, n, own, pos) ==
  /\ own \in [1 .. Len(flat) -> 1 .. n]
  /\ pos \in [1 .. Len(flat) -> Nat]
  /\ \A k \in 1 .. Len(flat) : /\ pos[k] \in 1 .. Len(seqs[own[k]])
                               /\ flat[k] = seqs[own[k]][pos[k]]
  /\ \A i \in 1 .. n : \A j \in 1 .. Len(seqs[i]) :
       \E k \in 1 .. Len(flat) : own[k] = i /\ pos[k] = j
  /\ \A k, l \in 1 .. Len(flat) :
       k < l => own[k] < own[l] \/ (own[k] = own[l] /\ pos[k] < pos[l])

\* One more sequence is appended.
LEMMA ComesStep ==
  ASSUME NEW S, NEW seqs \in Seq(Seq(S)), NEW n \in 1 .. Len(seqs) - 1,
         NEW flat \in Seq(S), NEW own, NEW pos, Comes(flat, seqs, n, own, pos)
  PROVE  \E o, p : Comes(flat \o seqs[n + 1], seqs, n + 1, o, p)
<1> DEFINE last == seqs[n + 1]
           len == Len(flat)
           out == flat \o last
           o == [k \in 1 .. Len(out) |-> IF k <= len THEN own[k] ELSE n + 1]
           p == [k \in 1 .. Len(out) |-> IF k <= len THEN pos[k] ELSE k - len]
<1>1. last \in Seq(S) /\ len \in Nat /\ n \in Nat /\ Len(last) \in Nat
  OBVIOUS
<1>2. /\ Len(out) = len + Len(last)
      /\ \A k \in 1 .. Len(out) : out[k] = IF k <= len THEN flat[k] ELSE last[k - len]
  <2> HIDE DEF last
  <2> QED
    BY <1>1, ConcatProperties
<1>3. /\ own \in [1 .. len -> 1 .. n] /\ pos \in [1 .. len -> Nat]
      /\ \A k \in 1 .. len : pos[k] \in 1 .. Len(seqs[own[k]]) /\ flat[k] = seqs[own[k]][pos[k]]
      /\ \A i \in 1 .. n : \A j \in 1 .. Len(seqs[i]) :
           \E k \in 1 .. len : own[k] = i /\ pos[k] = j
      /\ \A k, l \in 1 .. len :
           k < l => own[k] < own[l] \/ (own[k] = own[l] /\ pos[k] < pos[l])
  BY DEF Comes
<1>31. \A k \in 1 .. len : own[k] \in 1 .. n + 1 /\ own[k] < n + 1 /\ pos[k] \in Nat
  <2> SUFFICES ASSUME NEW k \in 1 .. len
               PROVE  own[k] \in 1 .. n + 1 /\ own[k] < n + 1 /\ pos[k] \in Nat
    OBVIOUS
  <2> HIDE DEF len, last, out, o, p
  <2>1. own[k] \in 1 .. n /\ pos[k] \in Nat
    BY <1>3
  <2> QED
    BY <1>1, <2>1
<1>4. \A k \in 1 .. Len(out) :
        \/ k \in 1 .. len /\ o[k] = own[k] /\ p[k] = pos[k] /\ out[k] = flat[k] /\ k <= len
        \/ k > len /\ k - len \in 1 .. Len(last) /\ o[k] = n + 1 /\ p[k] = k - len
           /\ out[k] = last[k - len]
  <2> HIDE DEF out, last, len
  <2> QED
    BY <1>1, <1>2
<1>5. o \in [1 .. Len(out) -> 1 .. n + 1] /\ p \in [1 .. Len(out) -> Nat]
  <2>1. DOMAIN o = 1 .. Len(out) /\ DOMAIN p = 1 .. Len(out)
    OBVIOUS
  <2>2. \A k \in 1 .. Len(out) : o[k] \in 1 .. n + 1 /\ p[k] \in Nat
    <3> SUFFICES ASSUME NEW k \in 1 .. Len(out)
                 PROVE  o[k] \in 1 .. n + 1 /\ p[k] \in Nat
      OBVIOUS
    <3> HIDE DEF out, last, len, o, p
    <3>1. CASE k \in 1 .. len /\ o[k] = own[k] /\ p[k] = pos[k]
      BY <1>31, <3>1
    <3>2. CASE k - len \in 1 .. Len(last) /\ o[k] = n + 1 /\ p[k] = k - len
      BY <1>1, <3>2
    <3> QED
      BY <1>4, <3>1, <3>2
  <2> HIDE DEF out, last, len
  <2> QED
    BY <2>2
<1>6. Len(out) \in Nat
  BY <1>1, <1>2
<1>7. \A i \in 1 .. n + 1 : \A j \in 1 .. Len(seqs[i]) :
        \E k \in 1 .. Len(out) : o[k] = i /\ p[k] = j
  <2> SUFFICES ASSUME NEW i \in 1 .. n + 1, NEW j \in 1 .. Len(seqs[i])
               PROVE  \E k \in 1 .. Len(out) : o[k] = i /\ p[k] = j
    OBVIOUS
  <2>1. CASE i \in 1 .. n
    <3>1. PICK k \in 1 .. len : own[k] = i /\ pos[k] = j
      BY <1>3, <2>1
    <3> HIDE DEF out, last, len
    <3>2. k \in 1 .. Len(out) /\ k <= len
      BY <1>1, <1>2
    <3> QED
      BY <3>1, <3>2
  <2>2. CASE i = n + 1
    <3>1. j \in 1 .. Len(last)
      BY <2>2
    <3> HIDE DEF out, last, len
    <3>2. len + j \in 1 .. Len(out) /\ ~(len + j <= len) /\ (len + j) - len = j
      BY <1>1, <1>2, <3>1
    <3> QED
      BY <2>2, <3>2
  <2> HIDE DEF out, last, len
  <2>3. i \in 1 .. n \/ i = n + 1
    BY <1>1
  <2> QED
    BY <2>1, <2>2, <2>3
<1> HIDE DEF out, o, p, len
<1>8. \A k \in 1 .. Len(out) : p[k] \in 1 .. Len(seqs[o[k]]) /\ out[k] = seqs[o[k]][p[k]]
  <2> SUFFICES ASSUME NEW k \in 1 .. Len(out)
               PROVE  p[k] \in 1 .. Len(seqs[o[k]]) /\ out[k] = seqs[o[k]][p[k]]
    OBVIOUS
  <2>1. CASE k \in 1 .. len /\ o[k] = own[k] /\ p[k] = pos[k] /\ out[k] = flat[k]
    BY <1>3, <2>1
  <2>2. CASE k - len \in 1 .. Len(last) /\ o[k] = n + 1 /\ p[k] = k - len
             /\ out[k] = last[k - len]
    BY <2>2
  <2> QED
    BY <1>4, <2>1, <2>2
<1>9. \A k, l \in 1 .. Len(out) :
        k < l => o[k] < o[l] \/ (o[k] = o[l] /\ p[k] < p[l])
  <2> HIDE DEF last
  <2> SUFFICES ASSUME NEW k \in 1 .. Len(out), NEW l \in 1 .. Len(out), k < l
               PROVE  o[k] < o[l] \/ (o[k] = o[l] /\ p[k] < p[l])
    OBVIOUS
  <2>1. CASE l <= len
    <3>1. k \in 1 .. len /\ l \in 1 .. len /\ o[k] = own[k] /\ o[l] = own[l]
          /\ p[k] = pos[k] /\ p[l] = pos[l]
      BY <1>1, <1>4, <1>6, <2>1
    <3> QED
      BY <1>3, <3>1
  <2>2. CASE l > len
    <3>0. k \in Int /\ l \in Int /\ len \in Int /\ ~(l \in 1 .. len)
      BY <1>1, <1>6, <2>2
    <3>1. o[l] = n + 1 /\ p[l] = l - len
      BY <1>4, <3>0
    <3>2. CASE k \in 1 .. len /\ o[k] = own[k]
      BY <1>31, <3>1, <3>2
    <3>3. CASE k > len /\ o[k] = n + 1 /\ p[k] = k - len
      BY <3>0, <3>1, <3>3
    <3> QED
      BY <1>4, <3>2, <3>3
  <2>3. l <= len \/ l > len
    BY <1>1, <1>6
  <2> QED
    BY <2>1, <2>2, <2>3
<1>10. Comes(out, seqs, n + 1, o, p)
  <2> HIDE DEF last
  <2> QED
    BY <1>5, <1>7, <1>8, <1>9 DEF Comes
<1> QED
  BY <1>10 DEF out

\* A flattened sequence has the entries of its sequences, in their order.
LEMMA FlattenIndex ==
  ASSUME NEW S, NEW seqs \in Seq(Seq(S))
  PROVE  /\ FlattenSeq(seqs) \in Seq(S)
         /\ \E own, pos : Comes(FlattenSeq(seqs), seqs, Len(seqs), own, pos)
<1> DEFINE n == Len(seqs)
<1>1. CASE n = 0
  <2>1. FlattenSeq(seqs) = seqs /\ seqs = << >>
    BY <1>1 DEF FlattenSeq
  <2>2. Comes(<< >>, << >>, 0, << >>, << >>)
    BY DEF Comes
  <2> QED
    BY <1>1, <2>1, <2>2
<1>2. CASE n # 0
  <2>1. PICK h \in [1 .. n -> Seq(S)] : Concatenates(h, seqs) /\ FlattenSeq(seqs) = h[n]
    BY <1>2, FlattenTrace
  <2>2. n \in Nat /\ n \in 1 .. n /\ \A i \in 1 .. n : seqs[i] \in Seq(S)
    BY <1>2
  <2>3. \A i \in 1 .. n : h[i] \in Seq(S)
    BY <2>1
  <2> DEFINE T == {i \in 1 .. n : ~\E own, pos : Comes(h[i], seqs, i, own, pos)}
  <2>4. T = {}
    <3> SUFFICES ASSUME T # {} PROVE FALSE
      OBVIOUS
    <3>1. T \in SUBSET Nat
      <4> HIDE DEF n
      <4> QED
        BY <2>2
    <3>2. PICK m \in T : \A k \in T : m <= k
      <4> HIDE DEF T
      <4> QED
        BY <3>1, Smallest
    <3>3. CASE m = 1
      <4> DEFINE own == [k \in 1 .. Len(seqs[1]) |-> 1]
                 pos == [k \in 1 .. Len(seqs[1]) |-> k]
      <4>1. h[1] = seqs[1] /\ seqs[1] \in Seq(S) /\ Len(seqs[1]) \in Nat
        BY <2>1, <2>2 DEF Concatenates
      <4>2. Comes(seqs[1], seqs, 1, own, pos)
        BY <4>1 DEF Comes
      <4> HIDE DEF own, pos, n
      <4> QED
        BY <3>2, <3>3, <4>1, <4>2
    <3>4. CASE m > 1
      <4> HIDE DEF n
      <4>1. m \in 1 .. n /\ m - 1 \in 1 .. n /\ ~(m <= m - 1) /\ m - 1 \in 1 .. n - 1
            /\ m \in 2 .. n /\ (m - 1) + 1 = m
        BY <2>2, <3>2, <3>4
      <4>2. PICK own, pos : Comes(h[m - 1], seqs, m - 1, own, pos)
        BY <3>2, <4>1
      <4>3. h[m] = h[m - 1] \o seqs[m]
        BY <2>1, <4>1 DEF Concatenates, n
      <4>4. \E o, p : Comes(h[m - 1] \o seqs[(m - 1) + 1], seqs, (m - 1) + 1, o, p)
        BY <2>3, <4>1, <4>2, ComesStep DEF n
      <4> QED
        BY <3>2, <4>1, <4>3, <4>4
    <3> QED
      BY <2>2, <3>2, <3>3, <3>4
  <2>5. \E own, pos : Comes(h[n], seqs, n, own, pos)
    <3> HIDE DEF n
    <3> QED
      BY <2>2, <2>4
  <2> QED
    BY <2>1, <2>2, <2>3, <2>5
<1> QED
  BY <1>1, <1>2

-----------------------------------------------------------------------------
(* Folds.  FoldLeft takes the largest index of a set of indices away, until *)
(* none is left.                                                           *)

\* A number that bounds a finite set of numbers and is in it is its maximum.
LEMMA MaxIs ==
  ASSUME NEW s \in SUBSET Int, NEW m \in s, \A k \in s : k <= m
  PROVE  Max(s) = m
<1>1. \E x \in s : \A k \in s : x >= k
  OBVIOUS
<1>2. Max(s) \in s /\ \A k \in s : Max(s) >= k
  <2> DEFINE x == CHOOSE x \in s : \A k \in s : x >= k
  <2>1. x \in s /\ \A k \in s : x >= k
    BY <1>1
  <2> QED
    BY <2>1 DEF Max
<1>3. Max(s) \in Int /\ m \in Int /\ Max(s) <= m /\ Max(s) >= m
  BY <1>2
<1> QED
  BY <1>3

\* A finite set of numbers that is not empty has a maximum.
LEMMA MaxIn ==
  ASSUME NEW n \in Nat, NEW s \in SUBSET (1 .. n), s # {}
  PROVE  Max(s) \in s
<1> DEFINE R == {n - x : x \in s}
<1>0. \A x \in s : x \in Int /\ n - x \in Nat
  OBVIOUS
<1>1. R \in SUBSET Nat /\ R # {}
  BY <1>0
<1>2. PICK r \in R : \A k \in R : r <= k
  <2> HIDE DEF R
  <2> QED
    BY <1>1, Smallest
<1>3. PICK x \in s : r = n - x
  BY <1>2
<1>4. \A k \in s : k <= x
  <2>1. \A k \in s : n - x <= n - k
    BY <1>2, <1>3
  <2> QED
    BY <1>0, <2>1
<1>5. s \in SUBSET Int
  BY <1>0
<1> QED
  BY <1>3, <1>4, <1>5, MaxIs

\* What a fold computes on the sets of the first m indices.
Folds(g, base, o, m) ==
  \A s \in SUBSET (1 .. m) :
    g[s] = IF s = {} THEN base ELSE o[<<g[s \ {Max(s)}], Max(s)>>]

\* The recursive function of a fold exists.
LEMMA FoldExists ==
  ASSUME NEW n \in Nat, NEW A, NEW base \in A, NEW o \in [A \X (1 .. n) -> A]
  PROVE  \E g \in [SUBSET (1 .. n) -> A] : Folds(g, base, o, n)
<1> DEFINE T == {m \in 0 .. n : ~\E g \in [SUBSET (1 .. m) -> A] : Folds(g, base, o, m)}
<1>1. T = {}
  <2> SUFFICES ASSUME T # {} PROVE FALSE
    OBVIOUS
  <2>1. PICK m \in T : \A k \in T : m <= k
    <3>1. T \in SUBSET Nat
      OBVIOUS
    <3> HIDE DEF T
    <3> QED
      BY <3>1, Smallest
  <2>2. CASE m = 0
    <3> DEFINE g == [s \in SUBSET (1 .. 0) |-> base]
    <3>1. g \in [SUBSET (1 .. 0) -> A]
      OBVIOUS
    <3>2. \A s \in SUBSET (1 .. 0) : s = {}
      OBVIOUS
    <3>3. Folds(g, base, o, 0)
      BY <3>2 DEF Folds
    <3> QED
      BY <2>1, <2>2, <3>1, <3>3
  <2>3. CASE m > 0
    <3>1. m - 1 \in 0 .. n /\ m - 1 \notin T /\ m \in 1 .. n
      <4>1. m \in 0 .. n /\ m \in Int /\ m - 1 \in 0 .. n /\ ~(m <= m - 1)
        BY <2>1, <2>3
      <4> HIDE DEF T
      <4> QED
        BY <2>1, <2>3, <4>1
    <3>2. PICK g \in [SUBSET (1 .. m - 1) -> A] : Folds(g, base, o, m - 1)
      BY <3>1
    <3> DEFINE h == [s \in SUBSET (1 .. m) |-> IF m \in s THEN o[<<g[s \ {m}], m>>] ELSE g[s]]
    <3>3. \A s \in SUBSET (1 .. m) : s \ {m} \in SUBSET (1 .. m - 1)
      BY <3>1
    <3>4. h \in [SUBSET (1 .. m) -> A]
      <4> SUFFICES ASSUME NEW s \in SUBSET (1 .. m)
                   PROVE  (IF m \in s THEN o[<<g[s \ {m}], m>>] ELSE g[s]) \in A
        OBVIOUS
      <4>1. g[s \ {m}] \in A
        BY <3>2, <3>3
      <4>2. o[<<g[s \ {m}], m>>] \in A
        BY <3>1, <4>1
      <4>3. m \notin s => s \ {m} = s
        OBVIOUS
      <4> QED
        BY <4>1, <4>2, <4>3
    <3>5. ASSUME NEW s \in SUBSET (1 .. m)
          PROVE  h[s] = IF s = {} THEN base ELSE o[<<h[s \ {Max(s)}], Max(s)>>]
      <4>1. CASE m \in s
        <5>1. Max(s) = m
          <6>1. s \in SUBSET Int /\ \A k \in s : k <= m
            BY <3>1
          <6> QED
            BY <4>1, <6>1, MaxIs
        <5>2. s \ {m} \in SUBSET (1 .. m) /\ m \notin s \ {m}
          OBVIOUS
        <5>3. h[s \ {m}] = g[s \ {m}]
          BY <5>2
        <5>4. h[s] = o[<<g[s \ {m}], m>>]
          BY <4>1
        <5> HIDE DEF h
        <5> QED
          BY <4>1, <5>1, <5>3, <5>4
      <4>2. CASE m \notin s
        <5>1. s \in SUBSET (1 .. m - 1)
          <6>1. s \ {m} = s
            BY <4>2
          <6> QED
            BY <3>3, <6>1
        <5> DEFINE r == s \ {Max(s)}
        <5>2. r \in SUBSET (1 .. m) /\ m \notin r
          BY <4>2
        <5>3. h[s] = g[s] /\ h[r] = g[r]
          BY <4>2, <5>2
        <5>4. g[s] = IF s = {} THEN base ELSE o[<<g[r], Max(s)>>]
          BY <3>2, <5>1 DEF Folds
        <5> HIDE DEF h
        <5> QED
          BY <5>3, <5>4
      <4> QED
        BY <4>1, <4>2
    <3>6. Folds(h, base, o, m)
      <4> HIDE DEF h
      <4> QED
        BY <3>5 DEF Folds
    <3> HIDE DEF h
    <3> QED
      BY <2>1, <3>4, <3>6
  <2> QED
    BY <2>1, <2>2, <2>3
<1>2. n \in 0 .. n
  OBVIOUS
<1> QED
  BY <1>1, <1>2

\* Along the sets of the first indices, the fold goes through the sequence.
LEMMA FoldRuns ==
  ASSUME NEW n \in Nat, NEW A, NEW base, NEW o \in [A \X (1 .. n) -> A],
         NEW g \in [SUBSET (1 .. n) -> A], Folds(g, base, o, n)
  PROVE  /\ g[{}] = base
         /\ \A i \in 1 .. n : g[1 .. i] = o[<<g[1 .. i - 1], i>>]
<1>1. {} \in SUBSET (1 .. n)
  OBVIOUS
<1>2. ASSUME NEW i \in 1 .. n
      PROVE  g[1 .. i] = o[<<g[1 .. i - 1], i>>]
  <2>1. 1 .. i \in SUBSET (1 .. n) /\ 1 .. i # {} /\ (1 .. i) \ {i} = 1 .. i - 1
    OBVIOUS
  <2>2. Max(1 .. i) = i
    <3>1. 1 .. i \in SUBSET Int /\ i \in 1 .. i /\ \A k \in 1 .. i : k <= i
      OBVIOUS
    <3> QED
      BY <3>1, MaxIs
  <2> QED
    BY <2>1, <2>2 DEF Folds
<1> QED
  BY <1>1, <1>2 DEF Folds

\* What picks the entries of a list that stay, in their order.
Picks(q, out, list, gone) ==
  /\ q \in [1 .. Len(out) -> 1 .. Len(list)]
  /\ \A k \in 1 .. Len(out) : q[k] \notin gone /\ out[k] = list[q[k]]
  /\ \A k, l \in 1 .. Len(out) : k < l => q[k] < q[l]
  /\ \A i \in 1 .. Len(list) : i \notin gone => \E k \in 1 .. Len(out) : q[k] = i

\* A list without some of its entries.
Staying(list, gone) ==
  FlattenSeq([i \in DOMAIN list |-> IF i \in gone THEN <<>> ELSE <<list[i]>>])

\* It is a sequence of the others, in their order.
LEMMA StayingIs ==
  ASSUME NEW S, NEW list \in Seq(S), NEW gone
  PROVE  /\ Staying(list, gone) \in Seq(S)
         /\ \E q : Picks(q, Staying(list, gone), list, gone)
<1> DEFINE seqs == [i \in DOMAIN list |-> IF i \in gone THEN <<>> ELSE <<list[i]>>]
           n == Len(list)
           out == Staying(list, gone)
<1>1. n \in Nat /\ DOMAIN list = 1 .. n /\ \A i \in 1 .. n : list[i] \in S
  OBVIOUS
<1>2. /\ seqs \in Seq(Seq(S)) /\ Len(seqs) = n
      /\ \A i \in 1 .. n : i \in gone => Len(seqs[i]) = 0
      /\ \A i \in 1 .. n : i \notin gone => Len(seqs[i]) = 1 /\ seqs[i][1] = list[i]
  <2>1. \A i \in 1 .. n : seqs[i] \in Seq(S)
    BY <1>1
  <2>2. DOMAIN seqs = 1 .. n
    BY <1>1
  <2>3. \A i \in 1 .. n : i \in gone => Len(seqs[i]) = 0
    BY <1>1
  <2>4. \A i \in 1 .. n : i \notin gone => Len(seqs[i]) = 1 /\ seqs[i][1] = list[i]
    BY <1>1
  <2>5. seqs = [i \in 1 .. n |-> seqs[i]]
    BY <2>2
  <2> HIDE DEF seqs, n
  <2>6. seqs \in Seq(Seq(S))
    BY <1>1, <2>1, <2>5
  <2>7. Len(seqs) = n
    BY <1>1, <2>2, <2>6
  <2> QED
    BY <2>3, <2>4, <2>6, <2>7
<1>3. out = FlattenSeq(seqs)
  BY DEF Staying
<1> HIDE DEF seqs, out
<1>4. out \in Seq(S) /\ \E own, pos : Comes(out, seqs, n, own, pos)
  <2>1. FlattenSeq(seqs) \in Seq(S) /\ \E own, pos : Comes(FlattenSeq(seqs), seqs, Len(seqs), own, pos)
    BY <1>2, FlattenIndex
  <2> QED
    BY <1>2, <1>3, <2>1
<1>5. PICK own, pos : Comes(out, seqs, n, own, pos)
  BY <1>4
<1>6. /\ own \in [1 .. Len(out) -> 1 .. n]
      /\ \A k \in 1 .. Len(out) : own[k] \in 1 .. n /\ pos[k] \in 1 .. Len(seqs[own[k]])
                               /\ out[k] = seqs[own[k]][pos[k]]
      /\ \A i \in 1 .. n : \A j \in 1 .. Len(seqs[i]) :
           \E k \in 1 .. Len(out) : own[k] = i /\ pos[k] = j
      /\ \A k, l \in 1 .. Len(out) :
           k < l => own[k] < own[l] \/ (own[k] = own[l] /\ pos[k] < pos[l])
  BY <1>5 DEF Comes
<1> HIDE DEF n
<1>7. ASSUME NEW k \in 1 .. Len(out)
      PROVE  own[k] \notin gone /\ pos[k] = 1 /\ out[k] = list[own[k]]
  <2>1. own[k] \in 1 .. n /\ pos[k] \in 1 .. Len(seqs[own[k]]) /\ out[k] = seqs[own[k]][pos[k]]
    BY <1>6
  <2>2. own[k] \notin gone
    BY <1>2, <2>1
  <2>3. pos[k] = 1
    BY <1>2, <2>1, <2>2
  <2> QED
    BY <1>2, <2>1, <2>2, <2>3
<1>8. \A k, l \in 1 .. Len(out) : k < l => own[k] < own[l]
  BY <1>6, <1>7
<1>9. \A i \in 1 .. n : i \notin gone => \E k \in 1 .. Len(out) : own[k] = i
  <2> SUFFICES ASSUME NEW i \in 1 .. n, i \notin gone
               PROVE  \E k \in 1 .. Len(out) : own[k] = i
    OBVIOUS
  <2>1. 1 \in 1 .. Len(seqs[i])
    BY <1>2
  <2> QED
    BY <1>6, <2>1
<1>10. Picks(own, out, list, gone)
  BY <1>6, <1>7, <1>8, <1>9 DEF Picks, n
<1> QED
  BY <1>4, <1>10 DEF out

\* There is one list of the entries that stay.
LEMMA SamePicks ==
  ASSUME NEW S, NEW out \in Seq(S), NEW gone2, NEW a \in Seq(S), NEW b \in Seq(S), NEW g, NEW p,
         Picks(g, a, out, gone2), Picks(p, b, out, gone2)
  PROVE  a = b
<1>5. /\ Len(a) \in Nat /\ Len(b) \in Nat /\ Len(out) \in Nat
  OBVIOUS
<1>6. /\ \A k \in 1 .. Len(a) : g[k] \in 1 .. Len(out) /\ g[k] \notin gone2 /\ out[g[k]] = a[k]
      /\ \A k, l \in 1 .. Len(a) : k < l => g[k] < g[l]
      /\ \A j \in 1 .. Len(out) : j \notin gone2 => \E k \in 1 .. Len(a) : g[k] = j
  BY DEF Picks
<1>7. /\ \A k \in 1 .. Len(b) : p[k] \in 1 .. Len(out) /\ p[k] \notin gone2 /\ b[k] = out[p[k]]
      /\ \A k, l \in 1 .. Len(b) : k < l => p[k] < p[l]
      /\ \A i \in 1 .. Len(out) : i \notin gone2 => \E k \in 1 .. Len(b) : p[k] = i
  BY DEF Picks
<1>8. \A k \in 1 .. Len(a) : k \in 1 .. Len(b) => g[k] = p[k]
  <2> DEFINE T == {k \in 1 .. Len(a) : k \in 1 .. Len(b) /\ g[k] # p[k]}
  <2>1. T = {}
    <3> SUFFICES ASSUME T # {} PROVE FALSE
      OBVIOUS
    <3>1. T \in SUBSET Nat
      OBVIOUS
    <3>2. PICK k \in T : \A j \in T : k <= j
      <4> HIDE DEF T
      <4> QED
        BY <3>1, Smallest
    <3>3. k \in 1 .. Len(a) /\ k \in 1 .. Len(b) /\ g[k] # p[k]
      OBVIOUS
    <3>4. \A j \in 1 .. Len(a) : j < k => j \in 1 .. Len(b) /\ g[j] = p[j]
      <4> SUFFICES ASSUME NEW j \in 1 .. Len(a), j < k
                   PROVE  j \in 1 .. Len(b) /\ g[j] = p[j]
        OBVIOUS
      <4>1. j \in 1 .. Len(b)
        BY <1>5, <3>3
      <4>2. ~(k <= j)
        BY <3>3
      <4> QED
        BY <3>2, <4>1, <4>2
    <3> HIDE DEF T
    <3>5. PICK l \in 1 .. Len(b) : p[l] = g[k]
      BY <1>6, <1>7, <3>3
    <3>6. PICK m \in 1 .. Len(a) : g[m] = p[k]
      BY <1>6, <1>7, <3>3
    <3>7. k \in Int /\ l \in Int /\ m \in Int /\ l # k /\ m # k
      BY <3>3, <3>5, <3>6
    <3>8. ~(l < k)
      <4> SUFFICES ASSUME l < k PROVE FALSE
        OBVIOUS
      <4>1. l \in 1 .. Len(a)
        BY <1>5, <3>3, <3>5
      <4>2. g[l] = p[l]
        BY <3>4, <4>1
      <4>3. g[l] < g[k] /\ g[l] \in Int
        BY <1>6, <3>3, <4>1
      <4> QED
        BY <3>5, <4>2, <4>3
    <3>9. p[k] < p[l] /\ p[k] \in Int /\ p[l] \in Int
      BY <1>7, <3>3, <3>5, <3>7, <3>8
    <3>10. ~(m > k)
      <4> SUFFICES ASSUME m > k PROVE FALSE
        OBVIOUS
      <4>1. g[k] < g[m] /\ g[k] \in Int /\ g[m] \in Int
        BY <1>6, <3>3, <3>7
      <4> QED
        BY <3>5, <3>6, <3>9, <4>1
    <3>11. m < k
      BY <3>7, <3>10
    <3>12. g[m] = p[m] /\ m \in 1 .. Len(b)
      BY <3>4, <3>11
    <3>13. p[m] < p[k] /\ p[m] \in Int
      BY <1>7, <3>3, <3>11, <3>12
    <3> QED
      BY <3>6, <3>9, <3>12, <3>13
  <2>2. ASSUME NEW k \in 1 .. Len(a), k \in 1 .. Len(b)
        PROVE  g[k] = p[k]
    <3>1. k \notin T
      BY <2>1
    <3> QED
      BY <2>2, <3>1
  <2> QED
    BY <2>2
<1>9. ~(Len(a) < Len(b))
  <2> SUFFICES ASSUME Len(a) < Len(b) PROVE FALSE
    OBVIOUS
  <2> DEFINE k == Len(a) + 1
  <2>1. k \in 1 .. Len(b)
    BY <1>5
  <2>2. PICK m \in 1 .. Len(a) : g[m] = p[k]
    BY <1>6, <1>7, <2>1
  <2>3. m \in 1 .. Len(b) /\ m < k
    BY <1>5
  <2> HIDE DEF k
  <2>4. g[m] = p[m] /\ p[m] < p[k] /\ p[m] \in Int
    BY <1>7, <1>8, <2>1, <2>3
  <2> QED
    BY <2>2, <2>4
<1>10. ~(Len(b) < Len(a))
  <2> SUFFICES ASSUME Len(b) < Len(a) PROVE FALSE
    OBVIOUS
  <2> DEFINE k == Len(b) + 1
  <2>1. k \in 1 .. Len(a)
    BY <1>5
  <2>2. PICK l \in 1 .. Len(b) : p[l] = g[k]
    BY <1>6, <1>7, <2>1
  <2>3. l \in 1 .. Len(a) /\ l < k
    BY <1>5
  <2> HIDE DEF k
  <2>4. g[l] = p[l] /\ g[l] < g[k] /\ g[l] \in Int
    BY <1>6, <1>8, <2>1, <2>3
  <2> QED
    BY <2>2, <2>4
<1>11. Len(a) = Len(b)
  BY <1>5, <1>9, <1>10
<1>12. \A k \in 1 .. Len(a) : a[k] = b[k]
  BY <1>6, <1>7, <1>8, <1>11
<1> QED
  BY <1>11, <1>12, SeqEqual

\* How the entries that stay in one list correspond to those of another.
Corresponds(f, list, gone, out, gone2) ==
  /\ \A i \in 1 .. Len(list) : i \notin gone =>
       f[i] \in 1 .. Len(out) /\ f[i] \notin gone2 /\ out[f[i]] = list[i]
  /\ \A i, j \in 1 .. Len(list) : i \notin gone /\ j \notin gone /\ i < j => f[i] < f[j]
  /\ \A k \in 1 .. Len(out) : k \notin gone2 =>
       \E i \in 1 .. Len(list) : i \notin gone /\ f[i] = k

\* Two lists whose entries that stay correspond in order are the same without
\* the others.
LEMMA SameStaying ==
  ASSUME NEW S, NEW list \in Seq(S), NEW gone, NEW out \in Seq(S), NEW gone2, NEW f,
         Corresponds(f, list, gone, out, gone2)
  PROVE  Staying(list, gone) = Staying(out, gone2)
<1> DEFINE a == Staying(list, gone)
           b == Staying(out, gone2)
<1>1. a \in Seq(S) /\ \E q : Picks(q, a, list, gone)
  BY StayingIs
<1>2. b \in Seq(S) /\ \E p : Picks(p, b, out, gone2)
  BY StayingIs
<1> HIDE DEF a, b
<1>3. PICK q : Picks(q, a, list, gone)
  BY <1>1
<1>4. PICK p : Picks(p, b, out, gone2)
  BY <1>2
<1>5. /\ Len(a) \in Nat /\ Len(b) \in Nat /\ Len(list) \in Nat /\ Len(out) \in Nat
  BY <1>1, <1>2
<1> DEFINE g == [k \in 1 .. Len(a) |-> f[q[k]]]
<1>6. /\ \A k \in 1 .. Len(a) : g[k] \in 1 .. Len(out) /\ g[k] \notin gone2 /\ out[g[k]] = a[k]
      /\ \A k, l \in 1 .. Len(a) : k < l => g[k] < g[l]
      /\ \A j \in 1 .. Len(out) : j \notin gone2 => \E k \in 1 .. Len(a) : g[k] = j
  <2>1. /\ \A k \in 1 .. Len(a) : q[k] \in 1 .. Len(list) /\ q[k] \notin gone /\ a[k] = list[q[k]]
        /\ \A k, l \in 1 .. Len(a) : k < l => q[k] < q[l]
        /\ \A i \in 1 .. Len(list) : i \notin gone => \E k \in 1 .. Len(a) : q[k] = i
    BY <1>3 DEF Picks
  <2>2. \A k \in 1 .. Len(a) : g[k] \in 1 .. Len(out) /\ g[k] \notin gone2 /\ out[g[k]] = a[k]
    BY <2>1 DEF Corresponds
  <2>3. \A k, l \in 1 .. Len(a) : k < l => g[k] < g[l]
    <3> SUFFICES ASSUME NEW k \in 1 .. Len(a), NEW l \in 1 .. Len(a), k < l
                 PROVE  g[k] < g[l]
      OBVIOUS
    <3>1. q[k] < q[l]
      BY <2>1
    <3> QED
      BY <2>1, <3>1 DEF Corresponds
  <2>4. ASSUME NEW j \in 1 .. Len(out), j \notin gone2
        PROVE  \E k \in 1 .. Len(a) : g[k] = j
    <3>1. PICK i \in 1 .. Len(list) : i \notin gone /\ f[i] = j
      BY <2>4 DEF Corresponds
    <3>2. PICK k \in 1 .. Len(a) : q[k] = i
      BY <2>1, <3>1
    <3> QED
      BY <3>1, <3>2
  <2> QED
    BY <2>2, <2>3, <2>4
<1>7. /\ g = [k \in 1 .. Len(a) |-> g[k]] /\ DOMAIN g = 1 .. Len(a)
  OBVIOUS
<1> HIDE DEF g
<1>8. Picks(g, a, out, gone2)
  BY <1>5, <1>6, <1>7 DEF Picks
<1>9. a = b
  BY <1>1, <1>2, <1>4, <1>8, SamePicks
<1> QED
  BY <1>9 DEF a, b

\* The first indices, and the last of them.
LEMMA UpTo ==
  ASSUME NEW n \in Nat, NEW i \in 1 .. n
  PROVE  /\ 1 .. i \in SUBSET (1 .. n) /\ 1 .. i # {}
         /\ (1 .. i) \ {i} = 1 .. i - 1
         /\ Max(1 .. i) = i
<1>1. 1 .. i \in SUBSET (1 .. n) /\ 1 .. i # {} /\ (1 .. i) \ {i} = 1 .. i - 1
  OBVIOUS
<1>2. 1 .. i \in SUBSET Int /\ i \in 1 .. i /\ \A k \in 1 .. i : k <= i
  OBVIOUS
<1>3. Max(1 .. i) = i
  BY <1>2, MaxIs
<1> QED
  BY <1>1, <1>3

\* A function on sets of indices goes by o from one index to the next.
Follows(h, o, A, n) ==
  \A i \in 1 .. n : h[1 .. i - 1] \in A => h[1 .. i] = o[<<h[1 .. i - 1], i>>]

\* So it goes along a sequence of values.
Runs(h, base, o, A, n) ==
  \E t \in [0 .. n -> A] :
    /\ t[0] = base
    /\ \A i \in 1 .. n : t[i] = o[<<t[i - 1], i>>]
    /\ h[1 .. n] = t[n]

\* A function defined on sets by removing their maximum, along the sets of the
\* first indices: what a fold computes, step by step.
LEMMA FoldFollows ==
  ASSUME NEW n \in Nat, NEW A, NEW base \in A, NEW o \in [A \X (1 .. n) -> A],
         NEW h, h[{}] = base, Follows(h, o, A, n)
  PROVE  Runs(h, base, o, A, n)
<1> DEFINE t == [i \in 0 .. n |-> h[1 .. i]]
<1>1. t[0] = base
  <2>1. 1 .. 0 = {} /\ 0 \in 0 .. n
    OBVIOUS
  <2> QED
    BY <2>1
<1>2. \A i \in 0 .. n : t[i] \in A
  <2> DEFINE U == {i \in 0 .. n : t[i] \notin A}
  <2>1. U = {}
    <3> SUFFICES ASSUME U # {} PROVE FALSE
      OBVIOUS
    <3>1. U \in SUBSET Nat
      OBVIOUS
    <3>2. PICK i \in U : \A k \in U : i <= k
      <4> HIDE DEF U
      <4> QED
        BY <3>1, Smallest
    <3>3. i # 0
      <4> HIDE DEF t
      <4> QED
        BY <1>1, <3>2
    <3>4. i \in 1 .. n /\ i - 1 \in 0 .. n /\ ~(i <= i - 1)
      BY <3>2, <3>3
    <3>5. t[i - 1] \in A
      <4> HIDE DEF t
      <4> QED
        BY <3>2, <3>4
    <3>6. t[i - 1] = h[1 .. i - 1] /\ t[i] = h[1 .. i]
      BY <3>4
    <3>7. t[i] = o[<<t[i - 1], i>>]
      <4> HIDE DEF t
      <4> QED
        BY <3>4, <3>5, <3>6 DEF Follows
    <3>8. t[i] \in A
      <4> HIDE DEF t
      <4> QED
        BY <3>4, <3>5, <3>7
    <3> QED
      BY <3>2, <3>8
  <2> HIDE DEF t
  <2> QED
    BY <2>1
<1>3. ASSUME NEW i \in 1 .. n
      PROVE  t[i] = o[<<t[i - 1], i>>]
  <2>1. i - 1 \in 0 .. n /\ i \in 0 .. n
    OBVIOUS
  <2>2. t[i - 1] = h[1 .. i - 1] /\ t[i] = h[1 .. i]
    BY <2>1
  <2>3. t[i - 1] \in A
    BY <1>2, <2>1
  <2> HIDE DEF t
  <2> QED
    BY <2>2, <2>3 DEF Follows
<1>4. t \in [0 .. n -> A] /\ h[1 .. n] = t[n]
  <2>1. n \in 0 .. n
    OBVIOUS
  <2> QED
    BY <1>2, <2>1
<1> HIDE DEF t
<1> QED
  BY <1>1, <1>3, <1>4 DEF Runs
=============================================================================
