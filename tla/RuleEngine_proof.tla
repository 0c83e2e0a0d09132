-------------------------- MODULE RuleEngine_proof --------------------------
(***************************************************************************)
(* What the rule commands promise, for lists of any length, any commands   *)
(* and any profiles: no rule is stored twice, commands leave the rules of  *)
(* others and keep groups together, deletions take all they name, an       *)
(* insertion comes where its number says, updates settle, and setRuleEngine*)
(* in one pass is what SetRule defines.                                    *)
(*                                                                         *)
(* A loop over a list is a fold; its proof names what holds after i entries*)
(* (Taken, Storing, Dropping, Updated, Settling, Standing), shows that one *)
(* entry keeps it, and takes the least i for which it failed.              *)
(***************************************************************************)
EXTENDS RuleProps, SequenceLemmas, FiniteSetTheorems

\* A list without some entries is a sequence of the others.
LEMMA WithoutIs ==
  ASSUME NEW S, NEW list \in Seq(S), NEW gone
  PROVE  /\ Without(list, gone) \in Seq(S)
         /\ \E q : Picks(q, Without(list, gone), list, gone)
BY StayingIs DEF Without, Staying

\* Two lists whose entries that stay correspond in order are the same without
\* the others.
LEMMA SameWithout ==
  ASSUME NEW S, NEW list \in Seq(S), NEW gone, NEW out \in Seq(S), NEW gone2, NEW f,
         Corresponds(f, list, gone, out, gone2)
  PROVE  Without(list, gone) = Without(out, gone2)
<1>1. Without(list, gone) = Staying(list, gone) /\ Without(out, gone2) = Staying(out, gone2)
  BY DEF Without, Staying
<1> QED
  BY <1>1, SameStaying

\* There is such a place among the slots, and nothing is glued to it.
LEMMA SlotExists ==
  ASSUME NEW list \in Seq(Rule), NEW pos \in Nat, Slots(list, pos) # {}
  PROVE  /\ Slot(list, pos) \in Slots(list, pos)
         /\ \A i \in Slots(list, pos) : Slot(list, pos) <= i
         /\ Slot(list, pos) \in 1 .. Len(list)
         /\ ~Glued(list, Slot(list, pos)) /\ Slot(list, pos) >= pos
<1>1. Slots(list, pos) \in SUBSET Nat
  BY DEF Slots
<1>2. \E i \in Slots(list, pos) : \A j \in Slots(list, pos) : i <= j
  BY <1>1, Smallest
<1>3. Slot(list, pos) \in Slots(list, pos) /\ \A i \in Slots(list, pos) : Slot(list, pos) <= i
  BY <1>2 DEF Slot, Min
<1> QED
  BY <1>3 DEF Slots

\* What an insertion makes of the entries of a list.
LEMMA Inserted ==
  ASSUME NEW S, NEW list \in Seq(S), NEW at \in 1 .. Len(list), NEW new \in S
  PROVE  /\ InsertAt(list, at, new) \in Seq(S)
         /\ Len(InsertAt(list, at, new)) = Len(list) + 1
         /\ InsertAt(list, at, new)[at] = new
         /\ \A i \in 1 .. at - 1 : InsertAt(list, at, new)[i] = list[i]
         /\ \A i \in at .. Len(list) : InsertAt(list, at, new)[i + 1] = list[i]
<1> DEFINE front == SubSeq(list, 1, at - 1)
           back == SubSeq(list, at, Len(list))
<1>1. at \in 1 .. Len(list) /\ Len(list) \in Nat
  OBVIOUS
<1>2. /\ front \in Seq(S) /\ Len(front) = at - 1
      /\ \A i \in 1 .. at - 1 : front[i] = list[i]
  BY <1>1
<1>3. /\ back \in Seq(S) /\ Len(back) = Len(list) - at + 1
      /\ \A i \in 1 .. Len(list) - at + 1 : back[i] = list[at + i - 1]
  BY <1>1
<1> HIDE DEF front, back
<1> DEFINE start == front \o <<new>>
<1>4. /\ start \in Seq(S) /\ Len(start) = at /\ start[at] = new
      /\ \A i \in 1 .. at - 1 : start[i] = list[i]
  BY <1>1, <1>2
<1> HIDE DEF start
<1>5. InsertAt(list, at, new) = start \o back
  BY DEF InsertAt, start, front, back
<1> DEFINE out == start \o back
<1>6. /\ out \in Seq(S) /\ Len(out) = Len(list) + 1
      /\ \A i \in 1 .. at : out[i] = start[i]
      /\ \A i \in at + 1 .. Len(list) + 1 : out[i] = back[i - at]
  <2>1. /\ out \in Seq(S) /\ Len(out) = Len(start) + Len(back)
        /\ \A i \in 1 .. Len(start) + Len(back) :
             out[i] = IF i <= Len(start) THEN start[i] ELSE back[i - Len(start)]
    BY <1>3, <1>4, ConcatProperties
  <2> HIDE DEF out
  <2> QED
    BY <1>1, <1>3, <1>4, <2>1
<1> HIDE DEF out
<1>7. \A i \in at .. Len(list) : out[i + 1] = list[i]
  <2> SUFFICES ASSUME NEW i \in at .. Len(list) PROVE out[i + 1] = list[i]
    OBVIOUS
  <2>1. i + 1 \in at + 1 .. Len(list) + 1 /\ (i + 1) - at = i - at + 1
    BY <1>1
  <2>2. i - at + 1 \in 1 .. Len(list) - at + 1 /\ at + (i - at + 1) - 1 = i
    BY <1>1
  <2> QED
    BY <1>3, <1>6, <2>1, <2>2
<1> QED
  BY <1>1, <1>4, <1>5, <1>6, <1>7 DEF out

\* Where the entries of a list are after a rule is stored: in their order, as
\* they were unless they had its key, and not split when they go together.  The
\* rule comes in only when it was not stored.
Shifts(f, list, out, new) ==
  /\ f \in [1 .. Len(list) -> 1 .. Len(out)]
  /\ \A i, j \in 1 .. Len(list) : i < j => f[i] < f[j]
  /\ \A i \in 1 .. Len(list) :
       out[f[i]] = list[i] \/ (SameKey(list[i], new) /\ out[f[i]] = new)
  /\ \A i \in 2 .. Len(list) : Glued(list, i) => f[i] = f[i - 1] + 1
  /\ \A k \in 1 .. Len(out) :
       \/ \E i \in 1 .. Len(list) : f[i] = k
       \/ out[k] = new /\ \A i \in 1 .. Len(list) : ~SameKey(list[i], new)
  /\ \A k, l \in 1 .. Len(out) :
       k = l \/ \E i \in 1 .. Len(list) : f[i] = k \/ f[i] = l

\* An insertion only moves what comes after it.
LEMMA InsertShifts ==
  ASSUME NEW list \in Seq(Rule), NEW at \in 1 .. Len(list), NEW new \in Rule,
         ~Glued(list, at), Stored(list, new) = {}
  PROVE  \E f : Shifts(f, list, InsertAt(list, at, new), new)
<1> DEFINE out == InsertAt(list, at, new)
           f == [i \in 1 .. Len(list) |-> IF i < at THEN i ELSE i + 1]
<1>1. /\ Len(out) = Len(list) + 1 /\ out[at] = new /\ Len(list) \in Nat
      /\ \A i \in 1 .. at - 1 : out[i] = list[i]
      /\ \A i \in at .. Len(list) : out[i + 1] = list[i]
  BY Inserted
<1>2. \A i \in 1 .. Len(list) : ~SameKey(list[i], new)
  BY DEF Stored
<1> HIDE DEF out
<1>3. f \in [1 .. Len(list) -> 1 .. Len(out)]
  BY <1>1
<1>4. \A i, j \in 1 .. Len(list) : i < j => f[i] < f[j]
  BY <1>1
<1>5. \A i \in 1 .. Len(list) : out[f[i]] = list[i]
  BY <1>1
<1>6. \A i \in 2 .. Len(list) : Glued(list, i) => f[i] = f[i - 1] + 1
  <2> SUFFICES ASSUME NEW i \in 2 .. Len(list), Glued(list, i)
               PROVE  f[i] = f[i - 1] + 1
    OBVIOUS
  <2>1. i # at /\ i \in 1 .. Len(list) /\ i - 1 \in 1 .. Len(list)
    BY <1>1
  <2> QED
    BY <2>1
<1>7. \A k \in 1 .. Len(out) : k = at \/ \E i \in 1 .. Len(list) : f[i] = k
  <2> SUFFICES ASSUME NEW k \in 1 .. Len(out), k # at
               PROVE  \E i \in 1 .. Len(list) : f[i] = k
    OBVIOUS
  <2>1. CASE k < at
    <3>1. k \in 1 .. Len(list)
      BY <1>1, <2>1
    <3>2. f[k] = k
      BY <2>1, <3>1
    <3> QED
      BY <3>1, <3>2
  <2>2. CASE k > at
    <3>1. k - 1 \in 1 .. Len(list) /\ ~(k - 1 < at) /\ (k - 1) + 1 = k
      BY <1>1, <2>2
    <3>2. f[k - 1] = k
      BY <3>1
    <3> QED
      BY <3>1, <3>2
  <2> QED
    BY <1>1, <2>1, <2>2
<1> HIDE DEF f
<1>8. Shifts(f, list, out, new)
  BY <1>1, <1>2, <1>3, <1>4, <1>5, <1>6, <1>7 DEF Shifts
<1> QED
  BY <1>8 DEF out

\* A rule is stored, without deleting.
Store(list, new, pos) ==
  IF Slots(list, pos) # {} THEN Insert(list, new, pos) ELSE Put(list, new)

\* So does storing a rule, in the end, at a position or in place.
LEMMA StoreShifts ==
  ASSUME NEW list \in Seq(Rule), NEW new \in Rule, NEW pos \in Nat
  PROVE  /\ Store(list, new, pos).list \in Seq(Rule)
         /\ \E f : Shifts(f, list, Store(list, new, pos).list, new)
<1> DEFINE Ok(out) == out \in Seq(Rule) /\ \E f : Shifts(f, list, out, new)
           id == [i \in 1 .. Len(list) |-> i]
<1>0. Len(list) \in Nat
  OBVIOUS
<1>1. Ok(list)
  <2>1. Shifts(id, list, list, new)
    BY <1>0 DEF Shifts
  <2> QED
    BY <2>1
<1>2. CASE Slots(list, pos) # {}
  <2>1. Store(list, new, pos) = Insert(list, new, pos)
    BY <1>2 DEF Store
  <2>2. CASE Stored(list, new) # {}
    <3>1. Insert(list, new, pos) = [list |-> list, did |-> "skipped"]
      BY <2>2 DEF Insert
    <3>2. Insert(list, new, pos).list = list
      BY <3>1
    <3> HIDE DEF Ok
    <3>3. Ok(Store(list, new, pos).list)
      BY <1>1, <2>1, <3>2
    <3> QED
      BY <3>3 DEF Ok
  <2>3. CASE Stored(list, new) = {}
    <3> DEFINE at == Slot(list, pos)
               out == InsertAt(list, at, new)
    <3>1. Insert(list, new, pos) = [list |-> out, did |-> "inserted"]
      BY <2>3 DEF Insert
    <3>2. at \in 1 .. Len(list) /\ ~Glued(list, at)
      BY <1>2, SlotExists
    <3> HIDE DEF at
    <3>3. out \in Seq(Rule)
      BY <3>2, Inserted
    <3>4. \E f : Shifts(f, list, out, new)
      BY <2>3, <3>2, InsertShifts
    <3> HIDE DEF out
    <3>5. Insert(list, new, pos).list = out
      BY <3>1
    <3>6. Store(list, new, pos).list = out
      BY <2>1, <3>5
    <3> QED
      BY <3>3, <3>4, <3>6
  <2> QED
    BY <2>2, <2>3
<1>3. CASE Slots(list, pos) = {}
  <2>1. Store(list, new, pos) = Put(list, new)
    BY <1>3 DEF Store
  <2>2. CASE Stored(list, new) = {}
    <3> DEFINE out == Append(list, new)
    <3>1. Put(list, new) = [list |-> out, did |-> "added"]
      BY <2>2 DEF Put
    <3>2. /\ out \in Seq(Rule) /\ Len(out) = Len(list) + 1
          /\ \A i \in 1 .. Len(list) : out[i] = list[i]
          /\ out[Len(list) + 1] = new
      OBVIOUS
    <3>3. \A i \in 1 .. Len(list) : ~SameKey(list[i], new)
      BY <2>2 DEF Stored
    <3> HIDE DEF out
    <3>4. Shifts(id, list, out, new)
      BY <1>0, <3>2, <3>3 DEF Shifts
    <3>5. Put(list, new).list = out
      BY <3>1
    <3>6. Store(list, new, pos).list = out
      BY <2>1, <3>5
    <3> QED
      BY <3>2, <3>4, <3>6
  <2>3. CASE Stored(list, new) # {} /\ Differs(list, new) = {}
    <3>1. Put(list, new) = [list |-> list, did |-> "skipped"]
      BY <2>3 DEF Put
    <3>2. Put(list, new).list = list
      BY <3>1
    <3> HIDE DEF Ok
    <3>3. Ok(Store(list, new, pos).list)
      BY <1>1, <2>1, <3>2
    <3> QED
      BY <3>3 DEF Ok
  <2>4. CASE Stored(list, new) # {} /\ Differs(list, new) # {}
    <3> DEFINE out == Replaced(list, new)
    <3>1. Put(list, new) = [list |-> out, did |-> "updated"]
      BY <2>4 DEF Put
    <3>2. \A i \in 1 .. Len(list) :
            out[i] = list[i] \/ (SameKey(list[i], new) /\ out[i] = new)
      BY DEF Replaced, Differs, Stored
    <3>3. out = [i \in 1 .. Len(list) |-> out[i]]
      BY DEF Replaced
    <3> HIDE DEF out
    <3>4. out \in Seq(Rule)
      <4>1. \A i \in 1 .. Len(list) : out[i] \in Rule
        BY <3>2
      <4> QED
        BY <1>0, <3>3, <4>1
    <3>5. Len(out) = Len(list)
      BY <1>0, <3>3, <3>4
    <3>6. Shifts(id, list, out, new)
      BY <1>0, <3>2, <3>5 DEF Shifts
    <3>7. Put(list, new).list = out
      BY <3>1
    <3>8. Store(list, new, pos).list = out
      BY <2>1, <3>7
    <3> QED
      BY <3>4, <3>6, <3>8
  <2> QED
    BY <2>2, <2>3, <2>4
<1> QED
  BY <1>2, <1>3

\* An insertion of a rule that is not stored, a replacement in place and an
\* addition all leave at most one rule with each key (setRuleEngine).
LEMMA StoreMakesNoCopies ==
  ASSUME NEW list \in Seq(Rule), NEW new \in Rule, NEW pos \in Nat, NoCopies(list)
  PROVE  NoCopies(Store(list, new, pos).list)
<1> DEFINE out == Store(list, new, pos).list
<1>1. out \in Seq(Rule) /\ \E f : Shifts(f, list, out, new)
  BY StoreShifts
<1> HIDE DEF out
<1>2. PICK f : Shifts(f, list, out, new)
  BY <1>1
<1>3. /\ DOMAIN list = 1 .. Len(list) /\ DOMAIN out = 1 .. Len(out)
  BY <1>1
<1>4. ASSUME NEW k \in 1 .. Len(out), NEW l \in 1 .. Len(out), SameKey(out[k], out[l])
      PROVE  k = l
  <2>1. CASE \E i \in 1 .. Len(list) : f[i] = k
    <3>1. PICK i \in 1 .. Len(list) : f[i] = k
      BY <2>1
    <3>2. out[k].of = list[i].of /\ out[k].item = list[i].item
      BY <1>2, <3>1 DEF Shifts, SameKey
    <3>3. \E j \in 1 .. Len(list) : f[j] = l
      <4> SUFFICES ASSUME ~\E j \in 1 .. Len(list) : f[j] = l
                   PROVE  FALSE
        OBVIOUS
      <4>1. out[l] = new /\ ~SameKey(list[i], new)
        BY <1>2, <3>1 DEF Shifts
      <4> QED
        BY <1>4, <3>2, <4>1 DEF SameKey
    <3>4. PICK j \in 1 .. Len(list) : f[j] = l
      BY <3>3
    <3>5. out[l].of = list[j].of /\ out[l].item = list[j].item
      BY <1>2, <3>4 DEF Shifts, SameKey
    <3>6. SameKey(list[i], list[j])
      BY <1>4, <3>2, <3>5 DEF SameKey
    <3> QED
      BY <1>3, <3>1, <3>4, <3>6 DEF NoCopies
  <2>2. CASE ~\E i \in 1 .. Len(list) : f[i] = k
    <3>1. out[k] = new /\ \A i \in 1 .. Len(list) : ~SameKey(list[i], new)
      BY <1>2, <2>2 DEF Shifts
    <3>2. ~\E j \in 1 .. Len(list) : f[j] = l
      <4> SUFFICES ASSUME NEW j \in 1 .. Len(list), f[j] = l
                   PROVE  FALSE
        OBVIOUS
      <4>1. out[l].of = list[j].of /\ out[l].item = list[j].item
        BY <1>2 DEF Shifts, SameKey
      <4> QED
        BY <1>4, <3>1, <4>1 DEF SameKey
    <3> QED
      BY <1>2, <2>2, <3>2 DEF Shifts
  <2> QED
    BY <2>1, <2>2
<1>5. NoCopies(out)
  BY <1>3, <1>4 DEF NoCopies
<1> QED
  BY <1>5 DEF out

\* The same of setRuleEngine.
THEOREM StoringMakesNoCopies ==
  ASSUME NEW list \in Seq(Rule), NEW new \in Rule, NEW pos \in Nat, NoCopies(list)
  PROVE  NoCopies(SetRule(list, new, pos, FALSE).list)
<1>1. SetRule(list, new, pos, FALSE) = Store(list, new, pos)
  BY DEF SetRule, Store
<1>2. NoCopies(Store(list, new, pos).list)
  BY StoreMakesNoCopies
<1> QED
  BY <1>1, <1>2, Zenon

\* An insertion does not come before the position asked for, splits no group
\* and keeps its rules in order: what goes with the rule before it still does
\* (setRuleEngine's sliding position, commands_rules.go:371-388).
THEOREM InsertionSplitsNoGroup ==
  ASSUME NEW list \in Seq(Rule), NEW new \in Rule, NEW pos \in Nat,
         Slots(list, pos) # {}, Stored(list, new) = {}
  PROVE  LET out == Insert(list, new, pos).list IN
         /\ \E at \in DOMAIN out : at >= pos /\ out[at] = new
         /\ \A i \in DOMAIN list : Glued(list, i) =>
              \E k \in DOMAIN out :
                Glued(out, k) /\ out[k] = list[i] /\ out[k - 1] = list[i - 1]
<1> DEFINE at == Slot(list, pos)
<1>0. at \in DOMAIN list /\ ~Glued(list, at) /\ at >= pos
  BY SlotExists
<1>1. at \in 1 .. Len(list) /\ Len(list) \in Nat /\ ~Glued(list, at) /\ at >= pos
  BY <1>0
<1> HIDE DEF at
<1> DEFINE out == InsertAt(list, at, new)
<1>2. /\ Len(out) = Len(list) + 1 /\ out \in Seq(Rule) /\ out[at] = new
      /\ \A i \in 1 .. at - 1 : out[i] = list[i]
      /\ \A i \in at .. Len(list) : out[i + 1] = list[i]
  BY <1>1, Inserted
<1> HIDE DEF out
<1>3. Insert(list, new, pos).list = out
  <2>1. Insert(list, new, pos) = [list |-> out, did |-> "inserted"]
    BY DEF Insert, at, out
  <2> QED
    BY <2>1
<1>4. DOMAIN out = 1 .. Len(list) + 1 /\ DOMAIN list = 1 .. Len(list)
  BY <1>2
<1>5. ASSUME NEW i \in DOMAIN list, Glued(list, i)
      PROVE  \E k \in DOMAIN out :
               Glued(out, k) /\ out[k] = list[i] /\ out[k - 1] = list[i - 1]
  <2>1. i > 1 /\ i # at /\ i \in 1 .. Len(list)
    BY <1>1, <1>4, <1>5 DEF Glued
  <2>2. CASE i < at
    <3>1. i \in 1 .. at - 1 /\ i - 1 \in 1 .. at - 1 /\ i \in DOMAIN out
      BY <1>1, <1>4, <2>1, <2>2
    <3>2. out[i] = list[i] /\ out[i - 1] = list[i - 1]
      BY <1>2, <3>1
    <3>3. Glued(out, i)
      BY <1>5, <3>2 DEF Glued
    <3> QED
      BY <3>1, <3>2, <3>3
  <2>3. CASE i > at
    <3>1. /\ i \in at .. Len(list) /\ i - 1 \in at .. Len(list)
          /\ i + 1 \in DOMAIN out /\ (i - 1) + 1 = i /\ (i + 1) - 1 = i
      BY <1>1, <1>4, <2>1, <2>3
    <3>2. out[i + 1] = list[i] /\ out[(i + 1) - 1] = list[i - 1]
      BY <1>2, <3>1
    <3>3. Glued(out, i + 1)
      BY <1>5, <2>1, <3>1, <3>2 DEF Glued
    <3> QED
      BY <3>1, <3>2, <3>3
  <2> QED
    BY <1>1, <2>1, <2>2, <2>3
<1>6. \E k \in DOMAIN out : k >= pos /\ out[k] = new
  BY <1>1, <1>2, <1>4
<1> QED
  BY <1>3, <1>5, <1>6

\* A list from which rules were taken has no copies if it had none.
LEMMA PicksNoCopies ==
  ASSUME NEW list \in Seq(Rule), NEW out \in Seq(Rule), NEW gone, NEW q,
         Picks(q, out, list, gone), NoCopies(list)
  PROVE  NoCopies(out)
<1>1. DOMAIN list = 1 .. Len(list) /\ DOMAIN out = 1 .. Len(out)
  OBVIOUS
<1>2. ASSUME NEW k \in 1 .. Len(out), NEW l \in 1 .. Len(out), SameKey(out[k], out[l])
      PROVE  k = l
  <2>1. /\ q[k] \in 1 .. Len(list) /\ q[l] \in 1 .. Len(list)
        /\ out[k] = list[q[k]] /\ out[l] = list[q[l]]
    BY DEF Picks
  <2>2. q[k] = q[l]
    BY <1>1, <1>2, <2>1 DEF NoCopies
  <2>3. ~(k < l) /\ ~(l < k)
    BY <2>1, <2>2 DEF Picks
  <2> QED
    BY <2>3
<1> QED
  BY <1>1, <1>2 DEF NoCopies

\* Nothing was taken.
LEMMA PicksAll ==
  ASSUME NEW S, NEW list \in Seq(S)
  PROVE  Picks([i \in 1 .. Len(list) |-> i], list, list, {})
BY DEF Picks

\* Deleting a rule from a list takes rules with its key.
LEMMA TakeIs ==
  ASSUME NEW list \in Seq(Rule), NEW new
  PROVE  /\ Take(list, new) \in [list : Seq(Rule), did : {"deleted", "notFound"}]
         /\ \E q, gone : /\ Picks(q, Take(list, new).list, list, gone)
                         /\ \A i \in gone : SameKey(list[i], new)
<1> DEFINE commented == {i \in DOMAIN list : new.note = NoNote /\ Commented(list[i], new)}
           exact == {i \in DOMAIN list : Exact(list[i], new)}
           gone == commented \cup {i \in exact : \A j \in commented \cup exact : i <= j}
<1>1. \A i \in gone : SameKey(list[i], new)
  BY DEF Commented, Exact
<1>2. Take(list, new) = IF gone = {} THEN [list |-> list, did |-> "notFound"]
                        ELSE [list |-> Without(list, gone), did |-> "deleted"]
  BY DEF Take
<1> HIDE DEF gone
<1>3. CASE gone = {}
  <2>1. Take(list, new) = [list |-> list, did |-> "notFound"]
    BY <1>2, <1>3
  <2>2. Picks([i \in 1 .. Len(list) |-> i], list, list, {})
    BY PicksAll
  <2> QED
    BY <2>1, <2>2
<1>4. CASE gone # {}
  <2> DEFINE out == Without(list, gone)
  <2>1. out \in Seq(Rule) /\ \E q : Picks(q, out, list, gone)
    BY WithoutIs
  <2> HIDE DEF out
  <2>2. Take(list, new) = [list |-> out, did |-> "deleted"]
    BY <1>2, <1>4 DEF out
  <2> QED
    BY <1>1, <2>1, <2>2
<1> QED
  BY <1>3, <1>4

\* What taking rules that a command speaks of leaves of the others.
LEMMA PicksOthers ==
  ASSUME NEW c \in Commands, NEW list \in Seq(Rule), NEW out \in Seq(Rule), NEW gone, NEW q,
         Picks(q, out, list, gone), \A i \in gone : Names(c, list[i])
  PROVE  Others(c, out) = Others(c, list)
<1> DEFINE named == {i \in DOMAIN list : Names(c, list[i])}
           namedOut == {i \in DOMAIN out : Names(c, out[i])}
<1>1. DOMAIN list = 1 .. Len(list) /\ DOMAIN out = 1 .. Len(out)
  OBVIOUS
<1>2. Corresponds(q, out, namedOut, list, named)
  <2>1. \A i \in 1 .. Len(out) : i \notin namedOut =>
          q[i] \in 1 .. Len(list) /\ q[i] \notin named /\ list[q[i]] = out[i]
    BY <1>1 DEF Picks
  <2>2. \A i, j \in 1 .. Len(out) : i \notin namedOut /\ j \notin namedOut /\ i < j => q[i] < q[j]
    BY DEF Picks
  <2>3. \A k \in 1 .. Len(list) : k \notin named =>
          \E i \in 1 .. Len(out) : i \notin namedOut /\ q[i] = k
    <3> SUFFICES ASSUME NEW k \in 1 .. Len(list), k \notin named
                 PROVE  \E i \in 1 .. Len(out) : i \notin namedOut /\ q[i] = k
      OBVIOUS
    <3>1. k \notin gone
      BY <1>1
    <3>2. PICK i \in 1 .. Len(out) : q[i] = k
      BY <3>1 DEF Picks
    <3>3. out[i] = list[k]
      BY <3>2 DEF Picks
    <3> QED
      BY <1>1, <3>2, <3>3
  <2> HIDE DEF named, namedOut
  <2> QED
    BY <2>1, <2>2, <2>3 DEF Corresponds
<1>3. Without(out, namedOut) = Without(list, named)
  <2> HIDE DEF named, namedOut
  <2> QED
    BY <1>2, SameWithout
<1> QED
  BY <1>3 DEF Others

\* What storing a rule that a command speaks of leaves of the others.
LEMMA ShiftsOthers ==
  ASSUME NEW c \in Commands, NEW list \in Seq(Rule), NEW out \in Seq(Rule), NEW new, NEW f,
         Shifts(f, list, out, new), Names(c, new)
  PROVE  Others(c, out) = Others(c, list)
<1> DEFINE named == {i \in DOMAIN list : Names(c, list[i])}
           namedOut == {i \in DOMAIN out : Names(c, out[i])}
<1>1. DOMAIN list = 1 .. Len(list) /\ DOMAIN out = 1 .. Len(out)
  OBVIOUS
<1>0. \A r \in Rule : SameKey(r, new) => Names(c, r)
  BY DEF SameKey, Names, IsApp
<1>2. Corresponds(f, list, named, out, namedOut)
  <2>1. \A i \in 1 .. Len(list) : i \notin named =>
          f[i] \in 1 .. Len(out) /\ f[i] \notin namedOut /\ out[f[i]] = list[i]
    BY <1>0, <1>1 DEF Shifts
  <2>2. \A i, j \in 1 .. Len(list) : i \notin named /\ j \notin named /\ i < j => f[i] < f[j]
    BY DEF Shifts
  <2>3. \A k \in 1 .. Len(out) : k \notin namedOut =>
          \E i \in 1 .. Len(list) : i \notin named /\ f[i] = k
    <3> SUFFICES ASSUME NEW k \in 1 .. Len(out), k \notin namedOut
                 PROVE  \E i \in 1 .. Len(list) : i \notin named /\ f[i] = k
      OBVIOUS
    <3>1. out[k] # new
      BY <1>1
    <3>2. PICK i \in 1 .. Len(list) : f[i] = k
      BY <3>1 DEF Shifts
    <3>3. out[k] = list[i]
      BY <3>1, <3>2 DEF Shifts
    <3> QED
      BY <1>1, <3>2, <3>3
  <2> HIDE DEF named, namedOut
  <2> QED
    BY <2>1, <2>2, <2>3 DEF Corresponds
<1>3. Without(list, named) = Without(out, namedOut)
  <2> HIDE DEF named, namedOut
  <2> QED
    BY <1>2, SameWithout
<1> QED
  BY <1>3 DEF Others

\* The deletions of a group, one after the other.
LEMMA TakeTrace ==
  ASSUME NEW list \in Seq(Rule), NEW act \in Actions, NEW s \in Seq(Rule)
  PROVE  LET A == [list : Seq(Rule), did : {"deleted", "notFound"}]
             base == [list |-> list, did |-> "deleted"]
         IN \E t \in [0 .. Len(s) -> A] :
              /\ t[0] = base
              /\ \A i \in 1 .. Len(s) : t[i] = TakeNext(act, t[i - 1], s[i])
              /\ FoldLeft(LAMBDA acc, r : TakeNext(act, acc, r), base, s) = t[Len(s)]
<1> DEFINE A == [list : Seq(Rule), did : {"deleted", "notFound"}]
           base == [list |-> list, did |-> "deleted"]
           n == Len(s)
           o == [p \in A \X (1 .. n) |-> TakeNext(act, p[1], s[p[2]])]
           R(h) == h = [x \in SUBSET DOMAIN s |->
                          IF x = {} THEN base ELSE TakeNext(act, h[x \ {Max(x)}], s[Max(x)])]
           h == CHOOSE h : R(h)
<1>1. n \in Nat /\ DOMAIN s = 1 .. n /\ \A i \in 1 .. n : s[i] \in Rule
  OBVIOUS
<1>2. base \in A
  OBVIOUS
<1>3. o \in [A \X (1 .. n) -> A]
  <2>1. \A a \in A : \A r : TakeNext(act, a, r) \in A
    BY TakeIs DEF TakeNext
  <2> QED
    BY <1>1, <2>1
<1> HIDE DEF A, base
<1>4. PICK g \in [SUBSET (1 .. n) -> A] : Folds(g, base, o, n)
  <2> HIDE DEF o, n
  <2> QED
    BY <1>1, <1>2, <1>3, FoldExists
<1>5. R(g)
  <2>1. ASSUME NEW x \in SUBSET (1 .. n), x # {}
        PROVE  g[x] = TakeNext(act, g[x \ {Max(x)}], s[Max(x)])
    <3>1. g[x] = o[<<g[x \ {Max(x)}], Max(x)>>]
      BY <1>4, <2>1 DEF Folds
    <3>2. Max(x) \in 1 .. n
      BY <1>1, <2>1, MaxIn
    <3>3. x \ {Max(x)} \in SUBSET (1 .. n)
      OBVIOUS
    <3>4. g[x \ {Max(x)}] \in A
      BY <3>3
    <3> QED
      BY <3>1, <3>2, <3>4
  <2>2. g[{}] = base
    BY <1>4 DEF Folds
  <2>3. g = [x \in SUBSET (1 .. n) |-> g[x]]
    OBVIOUS
  <2> HIDE DEF o
  <2>4. \A x \in SUBSET (1 .. n) :
          g[x] = IF x = {} THEN base ELSE TakeNext(act, g[x \ {Max(x)}], s[Max(x)])
    BY <2>1, <2>2
  <2> QED
    BY <1>1, <2>3, <2>4
<1>6. R(h)
  <2>1. \E f : R(f)
    BY <1>5
  <2> QED
    BY <2>1, Zenon
<1>7. FoldLeft(LAMBDA acc, r : TakeNext(act, acc, r), base, s) = h[DOMAIN s]
  BY DEF FoldLeft, MapThenFoldSet, Max
<1> HIDE DEF h
<1>8. \A x \in SUBSET (1 .. n) :
        h[x] = IF x = {} THEN base ELSE TakeNext(act, h[x \ {Max(x)}], s[Max(x)])
  BY <1>1, <1>6
<1>9. h[{}] = base
  BY <1>8
<1>10. Follows(h, o, A, n)
  <2> SUFFICES ASSUME NEW i \in 1 .. n, h[1 .. i - 1] \in A
               PROVE  h[1 .. i] = o[<<h[1 .. i - 1], i>>]
    BY DEF Follows
  <2>1. /\ 1 .. i \in SUBSET (1 .. n) /\ 1 .. i # {}
        /\ (1 .. i) \ {i} = 1 .. i - 1 /\ Max(1 .. i) = i
    BY <1>1, UpTo
  <2>3. h[1 .. i] = TakeNext(act, h[1 .. i - 1], s[i])
    BY <1>8, <2>1
  <2> QED
    BY <2>3
<1>11. PICK t \in [0 .. n -> A] :
         /\ t[0] = base
         /\ \A i \in 1 .. n : t[i] = o[<<t[i - 1], i>>]
         /\ h[1 .. n] = t[n]
  <2> HIDE DEF o, n
  <2>1. Runs(h, base, o, A, n)
    BY <1>1, <1>2, <1>3, <1>9, <1>10, FoldFollows
  <2> QED
    BY <2>1 DEF Runs
<1>12. \A i \in 1 .. n : t[i] = TakeNext(act, t[i - 1], s[i])
  <2> SUFFICES ASSUME NEW i \in 1 .. n PROVE t[i] = TakeNext(act, t[i - 1], s[i])
    OBVIOUS
  <2>1. i - 1 \in 0 .. n
    BY <1>1
  <2>2. t[i - 1] \in A
    BY <2>1
  <2> QED
    BY <1>11, <2>2
<1>13. FoldLeft(LAMBDA acc, r : TakeNext(act, acc, r), base, s) = t[n]
  BY <1>1, <1>7, <1>11
<1> QED
  BY <1>11, <1>12, <1>13 DEF A, base

\* The rules of a list that are in a rule's group.
LEMMA GroupIs ==
  ASSUME NEW list \in Seq(Rule), NEW r
  PROVE  /\ Group(list, r) \in Seq(Rule)
         /\ \A k \in 1 .. Len(Group(list, r)) :
              /\ \E i \in 1 .. Len(list) : Group(list, r)[k] = list[i]
              /\ IsApp(Group(list, r)[k]) /\ Tuple[Group(list, r)[k].of] = Tuple[r.of]
         /\ \A i \in 1 .. Len(list) :
              IsApp(list[i]) /\ Tuple[list[i].of] = Tuple[r.of] =>
                \E k \in 1 .. Len(Group(list, r)) : Group(list, r)[k] = list[i]
<1> DEFINE gone == {i \in DOMAIN list : ~(IsApp(list[i]) /\ Tuple[list[i].of] = Tuple[r.of])}
           out == Group(list, r)
<1>1. out = Without(list, gone) /\ DOMAIN list = 1 .. Len(list)
  BY DEF Group
<1>2. \A i \in 1 .. Len(list) :
        i \in gone <=> ~(IsApp(list[i]) /\ Tuple[list[i].of] = Tuple[r.of])
  BY <1>1
<1> HIDE DEF gone, out
<1>3. out \in Seq(Rule) /\ \E q : Picks(q, out, list, gone)
  BY <1>1, WithoutIs
<1>4. PICK q : Picks(q, out, list, gone)
  BY <1>3
<1>5. /\ \A k \in 1 .. Len(out) : q[k] \in 1 .. Len(list) /\ q[k] \notin gone /\ out[k] = list[q[k]]
      /\ \A i \in 1 .. Len(list) : i \notin gone => \E k \in 1 .. Len(out) : q[k] = i
  BY <1>4 DEF Picks
<1>6. ASSUME NEW k \in 1 .. Len(out)
      PROVE  /\ \E i \in 1 .. Len(list) : out[k] = list[i]
             /\ IsApp(out[k]) /\ Tuple[out[k].of] = Tuple[r.of]
  BY <1>2, <1>5
<1>7. ASSUME NEW i \in 1 .. Len(list), IsApp(list[i]) /\ Tuple[list[i].of] = Tuple[r.of]
      PROVE  \E k \in 1 .. Len(out) : out[k] = list[i]
  <2>1. PICK k \in 1 .. Len(out) : q[k] = i
    BY <1>2, <1>5, <1>7
  <2> QED
    BY <1>5, <2>1
<1> QED
  BY <1>3, <1>6, <1>7 DEF out

\* Rules that go together still do.
Together(old, new) ==
  \A i \in 2 .. Len(old) : Glued(old, i) =>
    \E k \in 2 .. Len(new) : SameKey(new[k - 1], old[i - 1]) /\ SameKey(new[k], old[i])

\* What each change that a command makes to a list has to keep.
Keeps(c, old, new) ==
  /\ new \in Seq(Rule)
  /\ NoCopies(old) => NoCopies(new)
  /\ Others(c, new) = Others(c, old)
  /\ c.kind # "delete" => Together(old, new)

\* Two changes that keep groups together keep them together one after the other.
LEMMA TogetherFollows ==
  ASSUME NEW a \in Seq(Rule), NEW b \in Seq(Rule), NEW d \in Seq(Rule),
         Together(a, b), Together(b, d)
  PROVE  Together(a, d)
<1> SUFFICES ASSUME NEW i \in 2 .. Len(a), Glued(a, i)
             PROVE  \E l \in 2 .. Len(d) : SameKey(d[l - 1], a[i - 1]) /\ SameKey(d[l], a[i])
  BY DEF Together
<1>1. PICK k \in 2 .. Len(b) : SameKey(b[k - 1], a[i - 1]) /\ SameKey(b[k], a[i])
  BY DEF Together
<1>2. Glued(b, k)
  BY <1>1 DEF Glued, SameKey, IsApp
<1>3. PICK l \in 2 .. Len(d) : SameKey(d[l - 1], b[k - 1]) /\ SameKey(d[l], b[k])
  BY <1>2 DEF Together
<1> QED
  BY <1>1, <1>3 DEF SameKey

\* Nothing changes nothing.
LEMMA KeepsSelf ==
  ASSUME NEW c, NEW list \in Seq(Rule)
  PROVE  Keeps(c, list, list)
BY DEF Keeps, Together, SameKey

\* Two changes by a command keep what each keeps.
LEMMA KeepsFollows ==
  ASSUME NEW c, NEW a \in Seq(Rule), NEW b, NEW d, Keeps(c, a, b), Keeps(c, b, d)
  PROVE  Keeps(c, a, d)
BY TogetherFollows DEF Keeps

\* Storing a rule of the command.
LEMMA StoreKeeps ==
  ASSUME NEW c \in Commands, NEW list \in Seq(Rule), NEW new \in Rule, NEW pos \in Nat,
         Names(c, new)
  PROVE  Keeps(c, list, Store(list, new, pos).list)
<1> DEFINE out == Store(list, new, pos).list
<1>1. out \in Seq(Rule) /\ \E f : Shifts(f, list, out, new)
  BY StoreShifts
<1>2. NoCopies(list) => NoCopies(out)
  BY StoreMakesNoCopies
<1> HIDE DEF out
<1>3. PICK f : Shifts(f, list, out, new)
  BY <1>1
<1>4. Others(c, out) = Others(c, list)
  BY <1>1, <1>3, ShiftsOthers
<1>5. Together(list, out)
  <2> SUFFICES ASSUME NEW i \in 2 .. Len(list), Glued(list, i)
               PROVE  \E k \in 2 .. Len(out) :
                        SameKey(out[k - 1], list[i - 1]) /\ SameKey(out[k], list[i])
    BY DEF Together
  <2>1. i \in 1 .. Len(list) /\ i - 1 \in 1 .. Len(list) /\ Len(out) \in Nat
    BY <1>1
  <2>2. f[i] = f[i - 1] + 1 /\ f[i] \in 1 .. Len(out) /\ f[i - 1] \in 1 .. Len(out)
    BY <1>3, <2>1 DEF Shifts
  <2>3. SameKey(out[f[i - 1]], list[i - 1]) /\ SameKey(out[f[i]], list[i])
    BY <1>3, <2>1 DEF Shifts, SameKey
  <2>4. f[i] \in 2 .. Len(out) /\ f[i] - 1 = f[i - 1]
    BY <2>1, <2>2
  <2> QED
    BY <2>3, <2>4
<1>6. Keeps(c, list, out)
  BY <1>1, <1>2, <1>4, <1>5 DEF Keeps
<1> QED
  BY <1>6 DEF out

\* Deleting a rule that the command speaks of.
LEMMA TakeKeeps ==
  ASSUME NEW c \in Commands, c.kind = "delete", NEW list \in Seq(Rule), NEW new,
         Names(c, new)
  PROVE  Keeps(c, list, Take(list, new).list)
<1> DEFINE out == Take(list, new).list
<1>1. out \in Seq(Rule)
  BY TakeIs
<1>2. PICK q, gone : Picks(q, out, list, gone) /\ \A i \in gone : SameKey(list[i], new)
  BY TakeIs
<1> HIDE DEF out
<1>3. NoCopies(list) => NoCopies(out)
  BY <1>1, <1>2, PicksNoCopies
<1>4. \A i \in gone : Names(c, list[i])
  BY <1>2 DEF SameKey, Names, IsApp
<1>5. Others(c, out) = Others(c, list)
  BY <1>1, <1>2, <1>4, PicksOthers
<1>6. Keeps(c, list, out)
  BY <1>1, <1>3, <1>5 DEF Keeps
<1> QED
  BY <1>6 DEF out

\* Deleting the group of the command.
LEMMA TakeGroupKeeps ==
  ASSUME NEW c \in Commands, c.kind = "delete", App[c.of] # NoApp,
         NEW list \in Seq(Rule), NEW new \in Rule, new.of = c.of
  PROVE  /\ TakeGroup(list, new).did \in {"deleted", "notFound"}
         /\ Keeps(c, list, TakeGroup(list, new).list)
<1> DEFINE s == Group(list, new)
           n == Len(s)
           base == [list |-> list, did |-> "deleted"]
           A == [list : Seq(Rule), did : {"deleted", "notFound"}]
<1>1. CASE s = <<>>
  <2>1. TakeGroup(list, new) = [list |-> list, did |-> "notFound"]
    BY <1>1 DEF TakeGroup
  <2>2. Keeps(c, list, list)
    BY KeepsSelf
  <2> QED
    BY <2>1, <2>2
<1>2. CASE s # <<>>
  <2>1. /\ s \in Seq(Rule)
        /\ \A k \in 1 .. n : IsApp(s[k]) /\ Tuple[s[k].of] = Tuple[new.of]
    BY GroupIs
  <2>2. TakeGroup(list, new) = FoldLeft(LAMBDA acc, r : TakeNext(new.act, acc, r), base, s)
    BY <1>2 DEF TakeGroup
  <2>0. new.act \in Actions
    BY DEF Rule
  <2> HIDE DEF s
  <2>3. PICK t \in [0 .. n -> A] :
          /\ t[0] = base
          /\ \A i \in 1 .. n : t[i] = TakeNext(new.act, t[i - 1], s[i])
          /\ FoldLeft(LAMBDA acc, r : TakeNext(new.act, acc, r), base, s) = t[n]
    BY <2>0, <2>1, TakeTrace
  <2>4. n \in Nat
    BY <2>1
  <2> HIDE DEF n
  <2> DEFINE U == {i \in 0 .. n : ~Keeps(c, list, t[i].list)}
  <2>5. U = {}
    <3> SUFFICES ASSUME U # {} PROVE FALSE
      OBVIOUS
    <3>1. PICK i \in U : \A k \in U : i <= k
      <4>1. U \in SUBSET Nat
        BY <2>4
      <4> HIDE DEF U
      <4> QED
        BY <4>1, Smallest
    <3>2. i \in 0 .. n /\ ~Keeps(c, list, t[i].list)
      OBVIOUS
    <3>3. i # 0
      <4>2. t[0] = base
        BY <2>3, Zenon
      <4>1. t[0].list = list
        BY <4>2
      <4> QED
        BY <3>2, <4>1, KeepsSelf
    <3>4. i \in 1 .. n /\ i - 1 \in 0 .. n /\ ~(i <= i - 1)
      BY <2>4, <3>2, <3>3
    <3>5. Keeps(c, list, t[i - 1].list)
      BY <3>1, <3>4
    <3>6. t[i - 1] \in A
      BY <3>4
    <3> DEFINE acc == t[i - 1]
               r == [s[i] EXCEPT !.act = new.act]
    <3>7. Names(c, r)
      <4>1. s[i] \in Rule /\ IsApp(s[i]) /\ Tuple[s[i].of] = Tuple[new.of]
        BY <2>1, <3>4 DEF n
      <4>2. r.of = s[i].of
        BY <4>1 DEF Rule
      <4> QED
        BY <4>1, <4>2 DEF Names, IsApp
    <3>8. t[i] = IF acc.did = "notFound" THEN acc ELSE Take(acc.list, r)
      BY <2>3, <3>4 DEF TakeNext
    <3> HIDE DEF r
    <3>9. Keeps(c, acc.list, Take(acc.list, r).list)
      BY <3>6, <3>7, TakeKeeps
    <3>10. Keeps(c, list, Take(acc.list, r).list)
      BY <3>5, <3>9, KeepsFollows
    <3> QED
      BY <3>2, <3>5, <3>8, <3>10
  <2>6. Keeps(c, list, t[n].list)
    <3>1. n \in 0 .. n
      BY <2>4
    <3> QED
      BY <2>5, <3>1
  <2>7. t[n] \in A
    BY <2>4
  <2> HIDE DEF U
  <2>8. TakeGroup(list, new) = t[n]
    BY <2>2, <2>3
  <2> QED
    BY <2>6, <2>7, <2>8
<1> QED
  BY <1>1, <1>2

\* One half of a command.
LEMMA ApplyHalfKeeps ==
  ASSUME NEW c \in Commands, NEW list \in Seq(Rule), NEW new \in Rule, NEW pos,
         new.of = c.of, Names(c, new),
         ApplyHalf(list, new, pos, c.kind = "delete").did # "error"
  PROVE  Keeps(c, list, ApplyHalf(list, new, pos, c.kind = "delete").list)
<1>1. CASE c.kind = "delete"
  <2>1. pos \in 0 .. Len(list) /\ ~(pos > 0)
    <3> SUFFICES ASSUME ~(pos \in 0 .. Len(list) /\ ~(pos > 0)) PROVE FALSE
      OBVIOUS
    <3>1. ApplyHalf(list, new, pos, c.kind = "delete") = Failed
      BY <1>1 DEF ApplyHalf
    <3> QED
      BY <3>1 DEF Failed
  <2>2. pos = 0
    BY <2>1
  <2>3. CASE IsApp(new)
    <3>1. ApplyHalf(list, new, pos, c.kind = "delete") = TakeGroup(list, new)
      BY <1>1, <2>1, <2>2, <2>3 DEF ApplyHalf
    <3>2. App[c.of] # NoApp
      BY <2>3 DEF IsApp
    <3>3. Keeps(c, list, TakeGroup(list, new).list)
      BY <1>1, <3>2, TakeGroupKeeps
    <3> QED
      BY <3>1, <3>3
  <2>4. CASE ~IsApp(new)
    <3>1. ApplyHalf(list, new, pos, c.kind = "delete") = Take(list, new)
      BY <1>1, <2>1, <2>2, <2>4 DEF ApplyHalf, SetRule
    <3>2. Keeps(c, list, Take(list, new).list)
      BY <1>1, TakeKeeps
    <3> QED
      BY <3>1, <3>2
  <2> QED
    BY <2>3, <2>4
<1>2. CASE c.kind # "delete"
  <2>1. pos \in 0 .. Len(list)
    <3> SUFFICES ASSUME pos \notin 0 .. Len(list) PROVE FALSE
      OBVIOUS
    <3>1. ApplyHalf(list, new, pos, c.kind = "delete") = Failed
      BY <1>2 DEF ApplyHalf
    <3> QED
      BY <3>1 DEF Failed
  <2>2. pos \in Nat
    BY <2>1
  <2>3. ApplyHalf(list, new, pos, c.kind = "delete") = Store(list, new, pos)
    BY <1>2, <2>1 DEF ApplyHalf, SetRule, Store
  <2>4. Keeps(c, list, Store(list, new, pos).list)
    BY <2>2, StoreKeeps
  <2> QED
    BY <2>3, <2>4
<1> QED
  BY <1>1, <1>2

\* dedupedCount is a number.
LEMMA DedupedType ==
  ASSUME NEW list \in Seq(Rule)
  PROVE  Deduped(list) \in Nat
<1>1. Len(list) \in Nat
  OBVIOUS
<1>2. IsFiniteSet(1 .. Len(list))
  BY <1>1, FS_Interval
<1>3. Shown(list) \subseteq 1 .. Len(list)
  BY DEF Shown
<1>4. IsFiniteSet(Shown(list))
  BY <1>2, <1>3, FS_Subset
<1> QED
  BY <1>4, FS_CardinalityType DEF Deduped

\* A command and an item of its application make a rule.
LEMMA RuleOfType ==
  ASSUME NEW c \in Commands, NEW item \in Items
  PROVE  RuleOf(c, item) \in Rule
<1>1. /\ c.of \in Templates /\ c.act \in Actions /\ c.note \in Notes
      /\ c.till \in {"never", "later"}
  BY CommandsAssumption DEF CommandsAssumption
<1> QED
  BY <1>1 DEF RuleOf, Rule

\* The rules of a command are what it speaks of.
LEMMA ExpandedIs ==
  ASSUME NEW c \in Commands, profile \in Profiles
  PROVE  /\ Len(Expanded(c)) \in Nat /\ DOMAIN Expanded(c) = 1 .. Len(Expanded(c))
         /\ \A i \in 1 .. Len(Expanded(c)) :
              /\ \E item \in Items : Expanded(c)[i] = RuleOf(c, item)
              /\ Expanded(c)[i] \in Rule /\ Expanded(c)[i].of = c.of
              /\ Names(c, Expanded(c)[i])
<1>1. c.of \in Templates /\ c.item \in Items
  BY CommandsAssumption DEF CommandsAssumption
<1>2. ASSUME NEW item \in Items, App[c.of] = NoApp => item = c.item
      PROVE  RuleOf(c, item) \in Rule /\ RuleOf(c, item).of = c.of /\ Names(c, RuleOf(c, item))
  <2>1. RuleOf(c, item) \in Rule
    BY RuleOfType
  <2>2. RuleOf(c, item).of = c.of /\ RuleOf(c, item).item = item
    BY DEF RuleOf
  <2> QED
    BY <1>2, <2>1, <2>2 DEF Names, IsApp
<1>3. CASE App[c.of] = NoApp \/ c.kind = "delete"
  <2> DEFINE r == RuleOf(c, c.item)
  <2>1. Expanded(c) = <<r>>
    BY <1>3 DEF Expanded
  <2>2. r \in Rule /\ r.of = c.of /\ Names(c, r)
    BY <1>1, <1>2
  <2>3. \E item \in Items : r = RuleOf(c, item)
    BY <1>1
  <2> HIDE DEF r
  <2>4. Len(<<r>>) = 1 /\ DOMAIN <<r>> = 1 .. 1 /\ <<r>>[1] = r
    OBVIOUS
  <2> QED
    BY <2>1, <2>2, <2>3, <2>4
<1>4. CASE ~(App[c.of] = NoApp \/ c.kind = "delete")
  <2> DEFINE items == profile[App[c.of]]
             rules == [i \in DOMAIN items |-> RuleOf(c, items[i])]
             n == Len(items)
  <2>1. items \in Seq(Items)
    <3>1. App[c.of] \in Apps
      BY <1>1, <1>4, TemplatesAssumption DEF TemplatesAssumption
    <3>2. profile \in [Apps -> Seq(Items)]
      BY CommandsAssumption DEF CommandsAssumption
    <3> QED
      BY <3>1, <3>2
  <2>2. Expanded(c) = IF c.kind \in {"insert", "prepend"} THEN Reverse(rules) ELSE rules
    BY <1>4 DEF Expanded
  <2> HIDE DEF items
  <2>3. n \in Nat /\ DOMAIN items = 1 .. n /\ \A i \in 1 .. n : items[i] \in Items
    BY <2>1
  <2> HIDE DEF n
  <2>4. /\ DOMAIN rules = 1 .. n
        /\ \A i \in 1 .. n : rules[i] = RuleOf(c, items[i])
    BY <2>3
  <2>5. rules \in Seq(Rule) /\ Len(rules) = n
    <3>1. \A i \in 1 .. n : rules[i] \in Rule
      BY <2>3, <2>4, RuleOfType
    <3>2. rules = [i \in 1 .. n |-> rules[i]]
      BY <2>4
    <3> HIDE DEF rules
    <3> QED
      BY <2>3, <3>1, <3>2
  <2> HIDE DEF rules
  <2>6. ASSUME NEW i \in 1 .. n
        PROVE  /\ \E item \in Items : rules[i] = RuleOf(c, item)
               /\ rules[i] \in Rule /\ rules[i].of = c.of /\ Names(c, rules[i])
    BY <1>2, <1>4, <2>3, <2>4
  <2>7. CASE c.kind \notin {"insert", "prepend"}
    BY <2>2, <2>3, <2>4, <2>5, <2>6, <2>7
  <2>8. CASE c.kind \in {"insert", "prepend"}
    <3>1. Reverse(rules) = [i \in 1 .. n |-> rules[(n - i) + 1]]
      BY <2>5 DEF Reverse
    <3> DEFINE back == Reverse(rules)
    <3>2. \A i \in 1 .. n : back[i] = rules[(n - i) + 1] /\ (n - i) + 1 \in 1 .. n
      BY <2>3, <3>1
    <3>3. back = [i \in 1 .. n |-> back[i]]
      BY <3>1
    <3> HIDE DEF back
    <3>4. \A i \in 1 .. n : back[i] \in Rule
      BY <2>6, <3>2
    <3>5. back \in Seq(Rule) /\ DOMAIN back = 1 .. n
      BY <2>3, <3>3, <3>4
    <3>6. Len(back) = n
      BY <2>3, <3>5
    <3>7. Expanded(c) = back
      BY <2>2, <2>8 DEF back
    <3>8. ASSUME NEW i \in 1 .. n
          PROVE  /\ \E item \in Items : back[i] = RuleOf(c, item)
                 /\ back[i] \in Rule /\ back[i].of = c.of /\ Names(c, back[i])
      BY <2>6, <3>2
    <3> QED
      BY <2>3, <3>5, <3>6, <3>7, <3>8
  <2> QED
    BY <2>7, <2>8
<1> QED
  BY <1>3, <1>4

\* What a command is in the middle of.
Edit == [r4 : Seq(Rule), r6 : Seq(Rule), n4 : Nat, ok : BOOLEAN]

\* What a step of a command keeps of both lists.
KeepsBoth(c, acc, next) ==
  /\ next \in Edit
  /\ Keeps(c, acc.r4, next.r4)
  /\ Keeps(c, acc.r6, next.r6)

\* A command changes the IPv4 list by a rule of its own only.
LEMMA WithV4Keeps ==
  ASSUME NEW c \in Commands, NEW acc \in Edit, NEW new \in Rule, NEW pos,
         new.of = c.of, Names(c, new)
  PROVE  KeepsBoth(c, acc, WithV4(acc, ApplyHalf(acc.r4, new, pos, c.kind = "delete")))
<1> DEFINE half == ApplyHalf(acc.r4, new, pos, c.kind = "delete")
           next == WithV4(acc, half)
<1>1. acc.r4 \in Seq(Rule) /\ acc.r6 \in Seq(Rule)
  BY DEF Edit
<1>2. Keeps(c, acc.r4, acc.r4) /\ Keeps(c, acc.r6, acc.r6)
  BY <1>1, KeepsSelf
<1>3. half.did # "error" => Keeps(c, acc.r4, half.list)
  BY <1>1, ApplyHalfKeeps
<1> HIDE DEF half
<1>4. CASE half.did = "error"
  <2>1. next = [acc EXCEPT !.ok = FALSE]
    BY <1>4 DEF WithV4
  <2>2. next \in Edit /\ next.r4 = acc.r4 /\ next.r6 = acc.r6
    BY <2>1 DEF Edit
  <2> HIDE DEF next
  <2>3. KeepsBoth(c, acc, next)
    BY <1>2, <2>2 DEF KeepsBoth
  <2> QED
    BY <2>3 DEF next, half
<1>5. CASE half.did # "error"
  <2>1. next = [acc EXCEPT !.r4 = half.list]
    BY <1>5 DEF WithV4
  <2>2. half.list \in Seq(Rule)
    BY <1>3, <1>5 DEF Keeps
  <2>3. next \in Edit /\ next.r4 = half.list /\ next.r6 = acc.r6
    BY <2>1, <2>2 DEF Edit
  <2> HIDE DEF next
  <2>4. KeepsBoth(c, acc, next)
    BY <1>2, <1>3, <1>5, <2>3 DEF KeepsBoth
  <2> QED
    BY <2>4 DEF next, half
<1> QED
  BY <1>4, <1>5 DEF half

\* A command changes the IPv6 list by a rule of its own only.
LEMMA WithV6Keeps ==
  ASSUME NEW c \in Commands, NEW acc \in Edit, NEW new \in Rule, NEW pos,
         new.of = c.of, Names(c, new)
  PROVE  KeepsBoth(c, acc, WithV6(acc, ApplyHalf(acc.r6, new, pos, c.kind = "delete")))
<1> DEFINE half == ApplyHalf(acc.r6, new, pos, c.kind = "delete")
           next == WithV6(acc, half)
<1>1. acc.r4 \in Seq(Rule) /\ acc.r6 \in Seq(Rule)
  BY DEF Edit
<1>2. Keeps(c, acc.r4, acc.r4) /\ Keeps(c, acc.r6, acc.r6)
  BY <1>1, KeepsSelf
<1>3. half.did # "error" => Keeps(c, acc.r6, half.list)
  BY <1>1, ApplyHalfKeeps
<1> HIDE DEF half
<1>4. CASE half.did = "error"
  <2>1. next = [acc EXCEPT !.ok = FALSE]
    BY <1>4 DEF WithV6
  <2>2. next \in Edit /\ next.r4 = acc.r4 /\ next.r6 = acc.r6
    BY <2>1 DEF Edit
  <2> HIDE DEF next
  <2>3. KeepsBoth(c, acc, next)
    BY <1>2, <2>2 DEF KeepsBoth
  <2> QED
    BY <2>3 DEF next, half
<1>5. CASE half.did # "error"
  <2>1. next = [acc EXCEPT !.r6 = half.list]
    BY <1>5 DEF WithV6
  <2>2. half.list \in Seq(Rule)
    BY <1>3, <1>5 DEF Keeps
  <2>3. next \in Edit /\ next.r6 = half.list /\ next.r4 = acc.r4
    BY <2>1, <2>2 DEF Edit
  <2> HIDE DEF next
  <2>4. KeepsBoth(c, acc, next)
    BY <1>2, <1>3, <1>5, <2>3 DEF KeepsBoth
  <2> QED
    BY <2>4 DEF next, half
<1> QED
  BY <1>4, <1>5 DEF half

\* Two changes of both lists keep what each keeps.
LEMMA BothFollow ==
  ASSUME NEW c, NEW a \in Edit, NEW b, NEW d, KeepsBoth(c, a, b), KeepsBoth(c, b, d)
  PROVE  KeepsBoth(c, a, d)
<1>1. a.r4 \in Seq(Rule) /\ a.r6 \in Seq(Rule)
  BY DEF Edit
<1> QED
  BY <1>1, KeepsFollows DEF KeepsBoth

\* A command changes both lists by a rule of its own only.
LEMMA ApplyDualKeeps ==
  ASSUME NEW c \in Commands, NEW acc \in Edit, NEW new \in Rule, NEW pos, NEW count, NEW n6,
         new.of = c.of, Names(c, new)
  PROVE  KeepsBoth(c, acc, ApplyDual(acc, new, pos, count, n6, c.kind = "delete"))
<1> DEFINE pos4 == DualV4Position(acc, pos, count, c.kind = "delete")
           mid == WithV4(acc, ApplyHalf(acc.r4, new, pos4, c.kind = "delete"))
           next == ApplyDual(acc, new, pos, count, n6, c.kind = "delete")
<1>1. KeepsBoth(c, acc, mid)
  BY WithV4Keeps
<1>2. CASE ~mid.ok
  <2>1. next = mid
    BY <1>2 DEF ApplyDual
  <2> HIDE DEF mid, next
  <2>2. KeepsBoth(c, acc, next)
    BY <1>1, <2>1
  <2> QED
    BY <2>2 DEF next
<1>3. CASE mid.ok
  <2> DEFINE asks == c.kind # "delete" /\ pos > 0
             counted == IF asks THEN [mid EXCEPT !.n4 = Deduped(mid.r4)] ELSE mid
             pos6 == DualV6Position(counted, pos, IF asks THEN pos + 1 ELSE pos4,
                                    count, n6, c.kind = "delete")
             last == WithV6(counted, ApplyHalf(counted.r6, new, pos6, c.kind = "delete"))
  <2>1. next = last
    BY <1>3 DEF ApplyDual
  <2>2. mid \in Edit
    BY <1>1 DEF KeepsBoth
  <2> HIDE DEF mid, asks
  <2>3. counted \in Edit /\ counted.r4 = mid.r4 /\ counted.r6 = mid.r6
    <3>1. mid.r4 \in Seq(Rule)
      BY <2>2 DEF Edit
    <3>2. Deduped(mid.r4) \in Nat
      BY <3>1, DedupedType
    <3> QED
      BY <2>2, <3>2 DEF Edit
  <2> HIDE DEF counted
  <2>4. KeepsBoth(c, acc, counted)
    BY <1>1, <2>3 DEF KeepsBoth
  <2>5. KeepsBoth(c, counted, last)
    BY <2>3, WithV6Keeps
  <2> HIDE DEF last, next
  <2>6. KeepsBoth(c, acc, next)
    BY <2>1, <2>4, <2>5, BothFollow
  <2> QED
    BY <2>6 DEF next
<1> QED
  BY <1>2, <1>3

\* A rule of a command keeps what it has to.
LEMMA ApplyNextKeeps ==
  ASSUME NEW c \in Commands, profile \in Profiles, NEW n6, NEW acc \in Edit,
         NEW i \in 1 .. Len(Expanded(c))
  PROVE  KeepsBoth(c, acc, ApplyNext(c, n6, acc, i))
<1> DEFINE new == Expanded(c)[i]
           pos == IF c.kind = "prepend" THEN -1 ELSE c.num
           next == ApplyNext(c, n6, acc, i)
<1>1. new \in Rule /\ new.of = c.of /\ Names(c, new)
  BY ExpandedIs
<1>2. c.fam \in {"v4", "v6", "both"}
  BY CommandsAssumption DEF CommandsAssumption
<1>3. CASE ~acc.ok \/ pos > acc.n4 + n6
  <2>1. next = [acc EXCEPT !.ok = FALSE]
    BY <1>3 DEF ApplyNext
  <2>2. next \in Edit /\ next.r4 = acc.r4 /\ next.r6 = acc.r6
    BY <2>1 DEF Edit
  <2>3. acc.r4 \in Seq(Rule) /\ acc.r6 \in Seq(Rule)
    BY DEF Edit
  <2> HIDE DEF next
  <2>4. KeepsBoth(c, acc, next)
    BY <2>2, <2>3, KeepsSelf DEF KeepsBoth
  <2> QED
    BY <2>4 DEF next
<1>4. CASE ~(~acc.ok \/ pos > acc.n4 + n6)
  <2>1. CASE c.fam = "both"
    <3>1. next = ApplyDual(acc, new, pos, i - 1, n6, c.kind = "delete")
      BY <1>4, <2>1 DEF ApplyNext
    <3> HIDE DEF next, new, pos
    <3>2. KeepsBoth(c, acc, next)
      BY <1>1, <3>1, ApplyDualKeeps
    <3> QED
      BY <3>2 DEF next
  <2>2. CASE c.fam = "v4"
    <3>1. next = WithV4(acc, ApplyHalf(acc.r4, new, V4Position(pos, i - 1, acc.n4),
                                       c.kind = "delete"))
      BY <1>4, <2>2 DEF ApplyNext
    <3> HIDE DEF next, new, pos
    <3>2. KeepsBoth(c, acc, next)
      BY <1>1, <3>1, WithV4Keeps
    <3> QED
      BY <3>2 DEF next
  <2>3. CASE c.fam = "v6"
    <3>1. next = WithV6(acc, ApplyHalf(acc.r6, new, V6Position(pos, i - 1, acc.n4, n6),
                                       c.kind = "delete"))
      BY <1>4, <2>3 DEF ApplyNext
    <3> HIDE DEF next, new, pos
    <3>2. KeepsBoth(c, acc, next)
      BY <1>1, <3>1, WithV6Keeps
    <3> QED
      BY <3>2 DEF next
  <2> QED
    BY <1>2, <2>1, <2>2, <2>3
<1> QED
  BY <1>3, <1>4

\* What a command starts from.
Start == [r4 |-> rules4, r6 |-> rules6, n4 |-> Deduped(rules4), ok |-> TRUE]

\* A command starts from the lists that are stored.
LEMMA StartType ==
  ASSUME TypeOK
  PROVE  Start \in Edit /\ Start.r4 = rules4 /\ Start.r6 = rules6
<1>1. Deduped(rules4) \in Nat
  BY DedupedType DEF TypeOK
<1> QED
  BY <1>1 DEF Start, Edit, TypeOK

\* The rules of a command, one after the other.
LEMMA EditTrace ==
  ASSUME NEW c \in Commands, TypeOK
  PROVE  \E t \in [0 .. Len(Expanded(c)) -> Edit] :
           /\ t[0] = Start
           /\ \A i \in 1 .. Len(Expanded(c)) : t[i] = ApplyNext(c, Deduped(rules6), t[i - 1], i)
           /\ Edited(c) = t[Len(Expanded(c))]
<1> DEFINE n6 == Deduped(rules6)
           s == [i \in DOMAIN Expanded(c) |-> i]
           n == Len(Expanded(c))
           o == [p \in Edit \X (1 .. n) |-> ApplyNext(c, n6, p[1], p[2])]
           R(h) == h = [x \in SUBSET DOMAIN s |->
                          IF x = {} THEN Start ELSE ApplyNext(c, n6, h[x \ {Max(x)}], s[Max(x)])]
           h == CHOOSE h : R(h)
<1>0. profile \in Profiles
  BY DEF TypeOK
<1>1. n \in Nat /\ DOMAIN s = 1 .. n /\ \A i \in 1 .. n : s[i] = i
  BY <1>0, ExpandedIs
<1>2. Start \in Edit
  BY StartType
<1>3. o \in [Edit \X (1 .. n) -> Edit]
  <2>1. \A a \in Edit, i \in 1 .. n : ApplyNext(c, n6, a, i) \in Edit
    BY <1>0, ApplyNextKeeps DEF KeepsBoth
  <2> HIDE DEF n, n6
  <2> QED
    BY <1>1, <2>1
<1> HIDE DEF s, n6
<1>4. PICK g \in [SUBSET (1 .. n) -> Edit] : Folds(g, Start, o, n)
  <2> HIDE DEF o, n
  <2> QED
    BY <1>1, <1>2, <1>3, FoldExists
<1>5. R(g)
  <2>1. ASSUME NEW x \in SUBSET (1 .. n), x # {}
        PROVE  g[x] = ApplyNext(c, n6, g[x \ {Max(x)}], s[Max(x)])
    <3>1. g[x] = o[<<g[x \ {Max(x)}], Max(x)>>]
      BY <1>4, <2>1 DEF Folds
    <3>2. Max(x) \in 1 .. n
      BY <1>1, <2>1, MaxIn
    <3>3. x \ {Max(x)} \in SUBSET (1 .. n)
      OBVIOUS
    <3>4. g[x \ {Max(x)}] \in Edit
      BY <3>3
    <3> HIDE DEF n
    <3> QED
      BY <1>1, <3>1, <3>2, <3>4
  <2>2. g[{}] = Start
    BY <1>4 DEF Folds
  <2>3. g = [x \in SUBSET (1 .. n) |-> g[x]]
    OBVIOUS
  <2> HIDE DEF o, n
  <2>4. \A x \in SUBSET (1 .. n) :
          g[x] = IF x = {} THEN Start ELSE ApplyNext(c, n6, g[x \ {Max(x)}], s[Max(x)])
    BY <2>1, <2>2
  <2> QED
    BY <1>1, <2>3, <2>4
<1>6. R(h)
  <2>1. \E f : R(f)
    BY <1>5
  <2> QED
    BY <2>1, Zenon
<1>7. Edited(c) = h[DOMAIN s]
  BY DEF Edited, FoldLeftDomain, FoldLeft, MapThenFoldSet, Max, n6, s, Start
<1> HIDE DEF h, n
<1>8. \A x \in SUBSET (1 .. n) :
        h[x] = IF x = {} THEN Start ELSE ApplyNext(c, n6, h[x \ {Max(x)}], s[Max(x)])
  BY <1>1, <1>6
<1>9. h[{}] = Start
  BY <1>8
<1>10. Follows(h, o, Edit, n)
  <2> SUFFICES ASSUME NEW i \in 1 .. n, h[1 .. i - 1] \in Edit
               PROVE  h[1 .. i] = o[<<h[1 .. i - 1], i>>]
    BY DEF Follows
  <2>1. /\ 1 .. i \in SUBSET (1 .. n) /\ 1 .. i # {}
        /\ (1 .. i) \ {i} = 1 .. i - 1 /\ Max(1 .. i) = i
    BY <1>1, UpTo
  <2>3. h[1 .. i] = ApplyNext(c, n6, h[1 .. i - 1], i)
    BY <1>1, <1>8, <2>1
  <2> QED
    BY <2>3
<1>11. PICK t \in [0 .. n -> Edit] :
         /\ t[0] = Start
         /\ \A i \in 1 .. n : t[i] = o[<<t[i - 1], i>>]
         /\ h[1 .. n] = t[n]
  <2> HIDE DEF o
  <2>1. Runs(h, Start, o, Edit, n)
    BY <1>1, <1>2, <1>3, <1>9, <1>10, FoldFollows
  <2> QED
    BY <2>1 DEF Runs
<1>12. \A i \in 1 .. n : t[i] = ApplyNext(c, n6, t[i - 1], i)
  <2> SUFFICES ASSUME NEW i \in 1 .. n PROVE t[i] = ApplyNext(c, n6, t[i - 1], i)
    OBVIOUS
  <2>1. i - 1 \in 0 .. n
    BY <1>1
  <2>2. t[i - 1] \in Edit
    BY <2>1
  <2> QED
    BY <1>11, <2>2
<1>13. Edited(c) = t[n]
  BY <1>1, <1>7, <1>11
<1> QED
  BY <1>11, <1>12, <1>13 DEF n, n6

\* What a command makes of the rules keeps what it has to.
LEMMA EditedKeeps ==
  ASSUME NEW c \in Commands, TypeOK
  PROVE  KeepsBoth(c, Start, Edited(c))
<1> DEFINE n == Len(Expanded(c))
<1>1. PICK t \in [0 .. n -> Edit] :
        /\ t[0] = Start
        /\ \A i \in 1 .. n : t[i] = ApplyNext(c, Deduped(rules6), t[i - 1], i)
        /\ Edited(c) = t[n]
  BY EditTrace
<1>2. n \in Nat /\ profile \in Profiles
  BY ExpandedIs DEF TypeOK
<1> HIDE DEF n
<1> DEFINE U == {i \in 0 .. n : ~KeepsBoth(c, Start, t[i])}
<1>3. U = {}
  <2> SUFFICES ASSUME U # {} PROVE FALSE
    OBVIOUS
  <2>1. PICK i \in U : \A k \in U : i <= k
    <3>1. U \in SUBSET Nat
      BY <1>2
    <3> HIDE DEF U
    <3> QED
      BY <3>1, Smallest
  <2>2. i \in 0 .. n /\ ~KeepsBoth(c, Start, t[i])
    OBVIOUS
  <2>3. i # 0
    <3>1. Start \in Edit /\ Start.r4 \in Seq(Rule) /\ Start.r6 \in Seq(Rule)
      BY StartType DEF TypeOK
    <3>2. KeepsBoth(c, Start, Start)
      BY <3>1, KeepsSelf DEF KeepsBoth
    <3> QED
      BY <1>1, <2>2, <3>2
  <2>4. i \in 1 .. n /\ i - 1 \in 0 .. n /\ ~(i <= i - 1)
    BY <1>2, <2>2, <2>3
  <2>5. KeepsBoth(c, Start, t[i - 1])
    BY <2>1, <2>4
  <2>6. t[i - 1] \in Edit
    BY <2>4
  <2>7. i \in 1 .. Len(Expanded(c))
    BY <2>4 DEF n
  <2>8. t[i] = ApplyNext(c, Deduped(rules6), t[i - 1], i)
    BY <1>1, <2>4
  <2>9. KeepsBoth(c, t[i - 1], t[i])
    BY <1>2, <2>6, <2>7, <2>8, ApplyNextKeeps
  <2>10. Start \in Edit
    BY StartType
  <2>11. KeepsBoth(c, Start, t[i])
    BY <2>5, <2>9, <2>10, BothFollow
  <2> QED
    BY <2>2, <2>11
<1>4. n \in 0 .. n
  BY <1>2
<1>5. KeepsBoth(c, Start, t[n])
  BY <1>3, <1>4
<1> QED
  BY <1>1, <1>5

\* What an update of an application is in the middle of.
Update == [out : Seq(Rule), last : SUBSET {Tuple[t] : t \in Templates}]

\* What a group is replaced by.
LEMMA GeneratedIs ==
  ASSUME TypeOK, NEW list \in Seq(Rule), NEW r \in Rule, App[r.of] \in Apps
  PROVE  /\ Generated(list, r) \in Seq(Rule)
         /\ profile[App[r.of]] \in Seq(Items)
         /\ profile[App[r.of]] # <<>> =>
              /\ Len(Generated(list, r)) = Len(profile[App[r.of]])
              /\ \A i \in 1 .. Len(profile[App[r.of]]) :
                   Generated(list, r)[i] = [r EXCEPT !.item = profile[App[r.of]][i]]
         /\ profile[App[r.of]] = <<>> => Generated(list, r) = Group(list, r)
<1> DEFINE items == profile[App[r.of]]
           new == [i \in DOMAIN items |-> [r EXCEPT !.item = items[i]]]
<1>1. items \in Seq(Items)
  BY CommandsAssumption DEF CommandsAssumption, TypeOK
<1>2. Generated(list, r) = IF items = <<>> THEN Group(list, r) ELSE new
  BY DEF Generated
<1> HIDE DEF items
<1>3. Group(list, r) \in Seq(Rule)
  BY GroupIs
<1>4. \A i \in 1 .. Len(items) : new[i] = [r EXCEPT !.item = items[i]] /\ new[i] \in Rule
  <2>1. DOMAIN items = 1 .. Len(items) /\ \A i \in 1 .. Len(items) : items[i] \in Items
    BY <1>1
  <2>2. \A item \in Items : [r EXCEPT !.item = item] \in Rule
    BY DEF Rule
  <2> QED
    BY <2>1, <2>2
<1>5. new = [i \in 1 .. Len(items) |-> new[i]] /\ Len(items) \in Nat
  BY <1>1
<1> HIDE DEF new
<1>6. new \in Seq(Rule) /\ Len(new) = Len(items)
  BY <1>4, <1>5
<1>7. CASE items = <<>>
  <2>1. Generated(list, r) = Group(list, r)
    BY <1>2, <1>7
  <2> QED
    BY <1>1, <1>3, <1>7, <2>1 DEF items
<1>8. CASE items # <<>>
  <2>1. Generated(list, r) = new
    BY <1>2, <1>8
  <2> QED
    BY <1>1, <1>4, <1>6, <1>8, <2>1 DEF items
<1> QED
  BY <1>7, <1>8

\* A step of an update leaves it in a state of its own.
LEMMA UpdateType ==
  ASSUME TypeOK, NEW list \in Seq(Rule), NEW app \in Apps, NEW acc \in Update, NEW r \in Rule
  PROVE  RegenerateNext(list, app, acc, r) \in Update
<1>1. CASE App[r.of] # app
  <2>1. RegenerateNext(list, app, acc, r) = [acc EXCEPT !.out = Append(@, r)]
    BY <1>1 DEF RegenerateNext
  <2>2. Append(acc.out, r) \in Seq(Rule)
    BY DEF Update
  <2> QED
    BY <2>1, <2>2 DEF Update
<1>2. CASE App[r.of] = app /\ acc.last = {Tuple[r.of]}
  BY <1>2 DEF RegenerateNext
<1>3. CASE App[r.of] = app /\ acc.last # {Tuple[r.of]}
  <2>1. RegenerateNext(list, app, acc, r) =
          [out |-> acc.out \o Generated(list, r), last |-> {Tuple[r.of]}]
    BY <1>3 DEF RegenerateNext
  <2>2. acc.out \in Seq(Rule) /\ Generated(list, r) \in Seq(Rule)
    BY <1>3, GeneratedIs DEF Update
  <2>3. acc.out \o Generated(list, r) \in Seq(Rule)
    BY <2>2
  <2>4. r.of \in Templates
    BY DEF Rule
  <2> QED
    BY <2>1, <2>3, <2>4 DEF Update
<1> QED
  BY <1>1, <1>2, <1>3

\* The update of a list, rule by rule.
LEMMA UpdateTrace ==
  ASSUME TypeOK, NEW list \in Seq(Rule), NEW app \in Apps
  PROVE  \E t \in [0 .. Len(list) -> Update] :
           /\ t[0] = [out |-> <<>>, last |-> {}]
           /\ \A i \in 1 .. Len(list) : t[i] = RegenerateNext(list, app, t[i - 1], list[i])
           /\ Regenerated(list, app) = t[Len(list)].out
<1> DEFINE base == [out |-> <<>>, last |-> {}]
           n == Len(list)
           o == [p \in Update \X (1 .. n) |-> RegenerateNext(list, app, p[1], list[p[2]])]
           R(h) == h = [x \in SUBSET DOMAIN list |->
                          IF x = {} THEN base
                          ELSE RegenerateNext(list, app, h[x \ {Max(x)}], list[Max(x)])]
           h == CHOOSE h : R(h)
<1>1. n \in Nat /\ DOMAIN list = 1 .. n /\ \A i \in 1 .. n : list[i] \in Rule
  OBVIOUS
<1>2. base \in Update
  BY DEF Update
<1>3. o \in [Update \X (1 .. n) -> Update]
  <2>1. \A a \in Update, i \in 1 .. n : RegenerateNext(list, app, a, list[i]) \in Update
    BY <1>1, UpdateType
  <2> HIDE DEF n
  <2> QED
    BY <1>1, <2>1
<1>4. PICK g \in [SUBSET (1 .. n) -> Update] : Folds(g, base, o, n)
  <2> HIDE DEF o, n, base
  <2> QED
    BY <1>1, <1>2, <1>3, FoldExists
<1> HIDE DEF base
<1>5. R(g)
  <2>1. ASSUME NEW x \in SUBSET (1 .. n), x # {}
        PROVE  g[x] = RegenerateNext(list, app, g[x \ {Max(x)}], list[Max(x)])
    <3>1. g[x] = o[<<g[x \ {Max(x)}], Max(x)>>]
      BY <1>4, <2>1 DEF Folds
    <3>2. Max(x) \in 1 .. n
      BY <1>1, <2>1, MaxIn
    <3>3. x \ {Max(x)} \in SUBSET (1 .. n)
      OBVIOUS
    <3>4. g[x \ {Max(x)}] \in Update
      BY <3>3
    <3> HIDE DEF n
    <3> QED
      BY <1>1, <3>1, <3>2, <3>4
  <2>2. g[{}] = base
    BY <1>4 DEF Folds
  <2>3. g = [x \in SUBSET (1 .. n) |-> g[x]]
    OBVIOUS
  <2> HIDE DEF o, n
  <2>4. \A x \in SUBSET (1 .. n) :
          g[x] = IF x = {} THEN base
                 ELSE RegenerateNext(list, app, g[x \ {Max(x)}], list[Max(x)])
    BY <2>1, <2>2
  <2> QED
    BY <1>1, <2>3, <2>4
<1>6. R(h)
  <2>1. \E f : R(f)
    BY <1>5
  <2> QED
    BY <2>1, Zenon
<1>7. Regenerated(list, app) = h[DOMAIN list].out
  BY DEF Regenerated, FoldLeft, MapThenFoldSet, Max, base
<1> HIDE DEF h, n
<1>8. \A x \in SUBSET (1 .. n) :
        h[x] = IF x = {} THEN base
               ELSE RegenerateNext(list, app, h[x \ {Max(x)}], list[Max(x)])
  BY <1>1, <1>6
<1>9. h[{}] = base
  BY <1>8
<1>10. Follows(h, o, Update, n)
  <2> SUFFICES ASSUME NEW i \in 1 .. n, h[1 .. i - 1] \in Update
               PROVE  h[1 .. i] = o[<<h[1 .. i - 1], i>>]
    BY DEF Follows
  <2>1. /\ 1 .. i \in SUBSET (1 .. n) /\ 1 .. i # {}
        /\ (1 .. i) \ {i} = 1 .. i - 1 /\ Max(1 .. i) = i
    BY <1>1, UpTo
  <2>3. h[1 .. i] = RegenerateNext(list, app, h[1 .. i - 1], list[i])
    BY <1>8, <2>1
  <2> QED
    BY <2>3
<1>11. PICK t \in [0 .. n -> Update] :
         /\ t[0] = base
         /\ \A i \in 1 .. n : t[i] = o[<<t[i - 1], i>>]
         /\ h[1 .. n] = t[n]
  <2> HIDE DEF o
  <2>1. Runs(h, base, o, Update, n)
    BY <1>1, <1>2, <1>3, <1>9, <1>10, FoldFollows
  <2> QED
    BY <2>1 DEF Runs
<1>12. \A i \in 1 .. n : t[i] = RegenerateNext(list, app, t[i - 1], list[i])
  <2> SUFFICES ASSUME NEW i \in 1 .. n
               PROVE  t[i] = RegenerateNext(list, app, t[i - 1], list[i])
    OBVIOUS
  <2>1. i - 1 \in 0 .. n
    BY <1>1
  <2>2. t[i - 1] \in Update
    BY <2>1
  <2> QED
    BY <1>11, <2>2
<1>13. Regenerated(list, app) = t[n].out
  BY <1>1, <1>7, <1>11
<1> QED
  BY <1>11, <1>12, <1>13 DEF n, base

\* An update leaves a list of rules.
LEMMA RegeneratedType ==
  ASSUME TypeOK, NEW list \in Seq(Rule), NEW app \in Apps
  PROVE  Regenerated(list, app) \in Seq(Rule)
<1>1. PICK t \in [0 .. Len(list) -> Update] : Regenerated(list, app) = t[Len(list)].out
  BY UpdateTrace
<1>2. Len(list) \in 0 .. Len(list)
  OBVIOUS
<1> QED
  BY <1>1, <1>2 DEF Update

\* What is generated has no copies.
LEMMA GeneratedNoCopies ==
  ASSUME TypeOK, ItemsOnce, NEW list \in Seq(Rule), NoCopies(list),
         NEW r \in Rule, App[r.of] \in Apps
  PROVE  NoCopies(Generated(list, r))
<1> DEFINE new == Generated(list, r)
           items == profile[App[r.of]]
<1>1. CASE items = <<>>
  <2>1. new = Group(list, r)
    BY <1>1, GeneratedIs
  <2> DEFINE gone == {i \in DOMAIN list : ~(IsApp(list[i]) /\ Tuple[list[i].of] = Tuple[r.of])}
             out == Without(list, gone)
  <2>2. new = out
    BY <2>1 DEF Group
  <2> HIDE DEF gone
  <2>3. out \in Seq(Rule) /\ \E q : Picks(q, out, list, gone)
    BY WithoutIs
  <2> HIDE DEF out, new
  <2>4. NoCopies(out)
    BY <2>3, PicksNoCopies
  <2> QED
    BY <2>2, <2>4 DEF new
<1>2. CASE items # <<>>
  <2>1. /\ new \in Seq(Rule) /\ items \in Seq(Items) /\ Len(new) = Len(items)
        /\ \A i \in 1 .. Len(items) : new[i] = [r EXCEPT !.item = items[i]]
    BY <1>2, GeneratedIs
  <2>2. IsInjective(items)
    BY DEF ItemsOnce, TypeOK
  <2> HIDE DEF new, items
  <2>3. DOMAIN new = 1 .. Len(items) /\ DOMAIN items = 1 .. Len(items)
    BY <2>1
  <2>4. \A i \in 1 .. Len(items) : new[i].item = items[i]
    BY <2>1 DEF Rule
  <2>5. NoCopies(new)
    BY <2>2, <2>3, <2>4 DEF NoCopies, SameKey, IsInjective
  <2> QED
    BY <2>5 DEF new
<1> QED
  BY <1>1, <1>2

\* Its rules are the application's.
LEMMA GeneratedApp ==
  ASSUME TypeOK, GroupsAreApps, NEW list \in Seq(Rule), NEW r \in Rule, App[r.of] \in Apps,
         NEW k \in 1 .. Len(Generated(list, r))
  PROVE  App[Generated(list, r)[k].of] = App[r.of]
<1> DEFINE new == Generated(list, r)
           items == profile[App[r.of]]
<1>1. CASE items = <<>>
  <2>1. new = Group(list, r)
    BY <1>1, GeneratedIs
  <2>2. IsApp(new[k]) /\ Tuple[new[k].of] = Tuple[r.of]
    <3>1. k \in 1 .. Len(new)
      OBVIOUS
    <3> HIDE DEF new
    <3> QED
      BY <2>1, <3>1, GroupIs
  <2>3. new \in Seq(Rule)
    BY GeneratedIs
  <2>4. new[k].of \in Templates /\ r.of \in Templates /\ App[r.of] # NoApp
    <3>1. new[k] \in Rule
      BY <2>3
    <3>2. App[r.of] # NoApp
      BY TemplatesAssumption DEF TemplatesAssumption
    <3> HIDE DEF new
    <3> QED
      BY <3>1, <3>2 DEF Rule
  <2> HIDE DEF new
  <2>5. App[new[k].of] = App[r.of]
    BY <2>2, <2>4 DEF GroupsAreApps, IsApp
  <2> QED
    BY <2>5 DEF new
<1>2. CASE items # <<>>
  <2>1. k \in 1 .. Len(items) /\ new[k] = [r EXCEPT !.item = items[k]]
    BY <1>2, GeneratedIs
  <2>2. new[k].of = r.of
    BY <2>1 DEF Rule
  <2> QED
    BY <2>2
<1> QED
  BY <1>1, <1>2

\* What an update has of the first i rules: no copies, the other rules of the
\* list, and the application's once it has met one of them.
Updated(acc, list, app, i) ==
  /\ NoCopies(acc.out)
  /\ \A k \in 1 .. Len(acc.out) : App[acc.out[k].of] # app =>
       \E j \in 1 .. i : acc.out[k] = list[j]
  /\ \/ acc.last = {} /\ \A k \in 1 .. Len(acc.out) : App[acc.out[k].of] # app
     \/ \A s \in Templates : App[s] = app => acc.last = {Tuple[s]}

\* A rule of the list keeps an update free of copies.
LEMMA UpdatedNext ==
  ASSUME TypeOK, GroupsAreApps, ItemsOnce, NEW list \in Seq(Rule), NoCopies(list),
         NEW app \in Apps, NEW acc \in Update, NEW i \in 1 .. Len(list),
         Updated(acc, list, app, i - 1)
  PROVE  Updated(RegenerateNext(list, app, acc, list[i]), list, app, i)
<1> DEFINE r == list[i]
           next == RegenerateNext(list, app, acc, r)
           n == Len(acc.out)
<1>1. /\ r \in Rule /\ r.of \in Templates /\ i \in Nat /\ app # NoApp
      /\ acc.out \in Seq(Rule) /\ n \in Nat /\ DOMAIN acc.out = 1 .. n
      /\ \A k \in 1 .. n : acc.out[k] \in Rule
  <2>1. list[i] \in Rule
    OBVIOUS
  <2>2. list[i].of \in Templates
    BY <2>1 DEF Rule
  <2>3. app # NoApp
    BY TemplatesAssumption DEF TemplatesAssumption
  <2>4. acc.out \in Seq(Rule)
    BY DEF Update
  <2> QED
    BY <2>1, <2>2, <2>3, <2>4
<1>2. CASE App[r.of] # app
  <2> DEFINE out == Append(acc.out, r)
  <2>1. next = [acc EXCEPT !.out = out]
    BY <1>2 DEF RegenerateNext
  <2>2. next.out = out /\ next.last = acc.last
    BY <2>1 DEF Update
  <2>3. /\ Len(out) = n + 1 /\ DOMAIN out = 1 .. n + 1 /\ out[n + 1] = r
        /\ \A k \in 1 .. n : out[k] = acc.out[k]
    BY <1>1
  <2> HIDE DEF out, next
  <2>4. \A k \in 1 .. n : ~SameKey(acc.out[k], r)
    <3> SUFFICES ASSUME NEW k \in 1 .. n, SameKey(acc.out[k], r)
                 PROVE  FALSE
      OBVIOUS
    <3>1. App[acc.out[k].of] # app
      BY <1>2 DEF SameKey
    <3>2. PICK j \in 1 .. i - 1 : acc.out[k] = list[j]
      BY <3>1 DEF Updated
    <3>3. SameKey(list[j], list[i]) /\ j \in DOMAIN list /\ i \in DOMAIN list /\ j # i
      BY <1>1, <3>2
    <3> QED
      BY <3>3 DEF NoCopies
  <2>5. NoCopies(out)
    <3>1. \A k, l \in 1 .. n : SameKey(acc.out[k], acc.out[l]) => k = l
      BY <1>1 DEF Updated, NoCopies
    <3>2. \A k \in 1 .. n : ~SameKey(r, acc.out[k])
      BY <2>4 DEF SameKey
    <3> SUFFICES ASSUME NEW k \in 1 .. n + 1, NEW l \in 1 .. n + 1, SameKey(out[k], out[l])
                 PROVE  k = l
      BY <2>3 DEF NoCopies
    <3>3. k \in 1 .. n \/ k = n + 1
      BY <1>1
    <3>4. l \in 1 .. n \/ l = n + 1
      BY <1>1
    <3> HIDE DEF n, r
    <3> QED
      BY <2>3, <2>4, <3>1, <3>2, <3>3, <3>4
  <2>6. ASSUME NEW k \in 1 .. Len(out), App[out[k].of] # app
        PROVE  \E j \in 1 .. i : out[k] = list[j]
    <3>1. k \in 1 .. n \/ k = n + 1
      BY <1>1, <2>3
    <3>2. CASE k = n + 1
      <4>1. out[k] = list[i] /\ i \in 1 .. i
        BY <1>1, <2>3, <3>2
      <4> QED
        BY <4>1
    <3>3. CASE k \in 1 .. n
      <4>1. out[k] = acc.out[k]
        BY <2>3, <3>3
      <4>2. PICK j \in 1 .. i - 1 : acc.out[k] = list[j]
        BY <2>6, <3>3, <4>1 DEF Updated
      <4>3. j \in 1 .. i
        BY <1>1
      <4> QED
        BY <4>1, <4>2, <4>3
    <3> QED
      BY <3>1, <3>2, <3>3
  <2>7. ASSUME acc.last = {}, \A k \in 1 .. n : App[acc.out[k].of] # app
        PROVE  \A k \in 1 .. Len(out) : App[out[k].of] # app
    <3> SUFFICES ASSUME NEW k \in 1 .. n + 1
                 PROVE  App[out[k].of] # app
      BY <2>3
    <3>1. k \in 1 .. n \/ k = n + 1
      BY <1>1
    <3> QED
      BY <1>2, <2>3, <2>7, <3>1
  <2> QED
    BY <2>2, <2>5, <2>6, <2>7 DEF Updated, next
<1>3. CASE App[r.of] = app /\ acc.last = {Tuple[r.of]}
  <2>1. next = acc
    BY <1>3 DEF RegenerateNext
  <2>2. \A s \in Templates : App[s] = app => acc.last = {Tuple[s]}
    BY <1>1, <1>3 DEF GroupsAreApps
  <2>3. \A j \in 1 .. i - 1 : j \in 1 .. i
    BY <1>1
  <2> HIDE DEF next
  <2>4. Updated(next, list, app, i)
    BY <2>1, <2>2, <2>3 DEF Updated
  <2> QED
    BY <2>4 DEF next
<1>4. CASE App[r.of] = app /\ acc.last # {Tuple[r.of]}
  <2> DEFINE new == Generated(list, r)
             out == acc.out \o new
             m == Len(new)
  <2>1. next = [out |-> out, last |-> {Tuple[r.of]}]
    BY <1>4 DEF RegenerateNext
  <2>2. next.out = out /\ next.last = {Tuple[r.of]}
    <3> HIDE DEF out, next, r
    <3> QED
      BY <2>1
  <2>3. new \in Seq(Rule) /\ NoCopies(new) /\ \A k \in 1 .. m : App[new[k].of] = app
    BY <1>1, <1>4, GeneratedIs, GeneratedNoCopies, GeneratedApp
  <2>4. \A k \in 1 .. n : App[acc.out[k].of] # app
    BY <1>1, <1>4 DEF Updated
  <2> HIDE DEF new, next
  <2>5. m \in Nat /\ DOMAIN new = 1 .. m
    BY <2>3
  <2>6. /\ Len(out) = n + m /\ DOMAIN out = 1 .. n + m
        /\ \A k \in 1 .. n + m :
             out[k] = IF k <= n THEN acc.out[k] ELSE new[k - n]
    <3>1. out \in Seq(Rule) /\ Len(out) = n + m
      BY <1>1, <2>3, ConcatProperties
    <3>2. \A k \in 1 .. n + m : out[k] = IF k <= n THEN acc.out[k] ELSE new[k - n]
      BY <1>1, <2>3, ConcatProperties
    <3> HIDE DEF out
    <3> QED
      BY <3>1, <3>2
  <2> HIDE DEF out
  <2>7. \A k \in 1 .. n + m :
          \/ k \in 1 .. n /\ out[k] = acc.out[k] /\ App[out[k].of] # app
          \/ k - n \in 1 .. m /\ out[k] = new[k - n] /\ App[out[k].of] = app
    <3> SUFFICES ASSUME NEW k \in 1 .. n + m
                 PROVE  \/ k \in 1 .. n /\ out[k] = acc.out[k] /\ App[out[k].of] # app
                        \/ k - n \in 1 .. m /\ out[k] = new[k - n] /\ App[out[k].of] = app
      OBVIOUS
    <3>1. k \in 1 .. n \/ (k - n \in 1 .. m /\ ~(k <= n))
      BY <1>1, <2>5
    <3>2. CASE k \in 1 .. n
      <4>1. k <= n
        BY <3>2
      <4> QED
        BY <2>4, <2>6, <3>2, <4>1
    <3>3. CASE k - n \in 1 .. m /\ ~(k <= n)
      BY <2>3, <2>6, <3>3
    <3> QED
      BY <3>1, <3>2, <3>3
  <2>8. NoCopies(out)
    <3> SUFFICES ASSUME NEW k \in 1 .. n + m, NEW l \in 1 .. n + m, SameKey(out[k], out[l])
                 PROVE  k = l
      BY <2>6 DEF NoCopies
    <3>1. App[out[k].of] = App[out[l].of]
      BY DEF SameKey
    <3>2. CASE App[out[k].of] = app
      <4>1. k - n \in 1 .. m /\ l - n \in 1 .. m /\ SameKey(new[k - n], new[l - n])
        BY <2>7, <3>1, <3>2
      <4>2. k - n = l - n
        BY <2>3, <2>5, <4>1 DEF NoCopies
      <4> QED
        BY <1>1, <4>2
    <3>3. CASE App[out[k].of] # app
      <4>1. k \in 1 .. n /\ l \in 1 .. n /\ SameKey(acc.out[k], acc.out[l])
        BY <2>7, <3>1, <3>3
      <4> QED
        BY <1>1, <4>1 DEF NoCopies, Updated
    <3> QED
      BY <3>2, <3>3
  <2>9. ASSUME NEW k \in 1 .. n + m, App[out[k].of] # app
        PROVE  \E j \in 1 .. i : out[k] = list[j]
    <3>1. k \in 1 .. n /\ out[k] = acc.out[k]
      BY <2>7, <2>9
    <3>2. PICK j \in 1 .. i - 1 : acc.out[k] = list[j]
      BY <2>9, <3>1 DEF Updated
    <3>3. j \in 1 .. i
      BY <1>1
    <3> QED
      BY <3>1, <3>2, <3>3
  <2>10. \A s \in Templates : App[s] = app => {Tuple[r.of]} = {Tuple[s]}
    BY <1>1, <1>4 DEF GroupsAreApps
  <2>11. Updated(next, list, app, i)
    BY <2>2, <2>6, <2>8, <2>9, <2>10 DEF Updated
  <2> QED
    BY <2>11 DEF next
<1> QED
  BY <1>2, <1>3, <1>4

\* An update leaves no copies where there were none.
LEMMA RegeneratedNoCopies ==
  ASSUME TypeOK, GroupsAreApps, ItemsOnce, NEW list \in Seq(Rule), NoCopies(list), NEW app \in Apps
  PROVE  NoCopies(Regenerated(list, app))
<1> DEFINE n == Len(list)
<1>1. PICK t \in [0 .. n -> Update] :
        /\ t[0] = [out |-> <<>>, last |-> {}]
        /\ \A i \in 1 .. n : t[i] = RegenerateNext(list, app, t[i - 1], list[i])
        /\ Regenerated(list, app) = t[n].out
  BY UpdateTrace
<1>2. n \in Nat
  OBVIOUS
<1> HIDE DEF n
<1> DEFINE U == {i \in 0 .. n : ~Updated(t[i], list, app, i)}
<1>3. U = {}
  <2> SUFFICES ASSUME U # {} PROVE FALSE
    OBVIOUS
  <2>1. PICK i \in U : \A k \in U : i <= k
    <3>1. U \in SUBSET Nat
      BY <1>2
    <3> HIDE DEF U
    <3> QED
      BY <3>1, Smallest
  <2>2. i \in 0 .. n /\ ~Updated(t[i], list, app, i)
    OBVIOUS
  <2>3. i # 0
    <3>1. t[0].out = <<>> /\ t[0].last = {}
      BY <1>1
    <3>2. Updated(t[0], list, app, 0)
      BY <3>1 DEF Updated, NoCopies
    <3> QED
      BY <2>2, <3>2
  <2>4. i \in 1 .. n /\ i - 1 \in 0 .. n /\ ~(i <= i - 1)
    BY <1>2, <2>2, <2>3
  <2>5. Updated(t[i - 1], list, app, i - 1) /\ t[i - 1] \in Update
    BY <2>1, <2>4
  <2>6. t[i] = RegenerateNext(list, app, t[i - 1], list[i]) /\ i \in 1 .. Len(list)
    BY <1>1, <2>4 DEF n
  <2>7. Updated(t[i], list, app, i)
    BY <2>5, <2>6, UpdatedNext
  <2> QED
    BY <2>2, <2>7
<1>4. n \in 0 .. n
  BY <1>2
<1>5. Updated(t[n], list, app, n)
  BY <1>3, <1>4
<1> QED
  BY <1>1, <1>5 DEF Updated

\* Entries taken out leave a list of rules, without copies if it had none.
LEMMA WithoutKeeps ==
  ASSUME NEW list \in Seq(Rule), NEW gone
  PROVE  /\ Without(list, gone) \in Seq(Rule)
         /\ NoCopies(list) => NoCopies(Without(list, gone))
<1> DEFINE out == Without(list, gone)
<1>1. out \in Seq(Rule) /\ \E q : Picks(q, out, list, gone)
  BY WithoutIs
<1> HIDE DEF out
<1>2. NoCopies(list) => NoCopies(out)
  BY <1>1, PicksNoCopies
<1> QED
  BY <1>1, <1>2 DEF out

\* The clock leaves a list of rules, without copies if it had none.
LEMMA LapsedKeeps ==
  ASSUME NEW list \in Seq(Rule)
  PROVE  /\ Lapsed(list) \in Seq(Rule)
         /\ NoCopies(list) => NoCopies(Lapsed(list))
<1> DEFINE out == Lapsed(list)
<1>1. DOMAIN list = 1 .. Len(list) /\ Len(list) \in Nat /\ \A i \in 1 .. Len(list) : list[i] \in Rule
  OBVIOUS
<1>2. \A i \in 1 .. Len(list) :
        out[i] = IF list[i].till = "later" THEN [list[i] EXCEPT !.till = "past"] ELSE list[i]
  BY <1>1 DEF Lapsed
<1>3. out = [i \in 1 .. Len(list) |-> out[i]]
  BY <1>1 DEF Lapsed
<1> HIDE DEF out
<1>4. \A i \in 1 .. Len(list) : out[i] \in Rule /\ SameKey(out[i], list[i])
  <2>1. \A r \in Rule : LET s == [r EXCEPT !.till = "past"] IN s \in Rule /\ SameKey(s, r)
    BY DEF Rule, SameKey
  <2> QED
    BY <1>1, <1>2, <2>1 DEF SameKey
<1>5. out \in Seq(Rule)
  BY <1>1, <1>3, <1>4
<1>6. NoCopies(list) => NoCopies(out)
  BY <1>1, <1>3, <1>4 DEF NoCopies, SameKey
<1> QED
  BY <1>5, <1>6 DEF out

\* What a step does to a list.
LEMMA Steps ==
  ASSUME TypeOK, [Next]_vars
  PROVE  /\ TypeOK'
         /\ GroupsAreApps /\ ItemsOnce /\ NoDuplicates => NoDuplicates'
<1> DEFINE Good(old, new) == /\ new \in Seq(Rule)
                             /\ GroupsAreApps /\ ItemsOnce /\ NoCopies(old) => NoCopies(new)
<1>0. rules4 \in Seq(Rule) /\ rules6 \in Seq(Rule) /\ profile \in Profiles
  BY DEF TypeOK
<1>1. SUFFICES Good(rules4, rules4') /\ Good(rules6, rules6') /\ profile' \in Profiles
  BY DEF TypeOK, NoDuplicates
<1>2. ASSUME NEW c \in Commands, RunRuleOp(c)
      PROVE  Good(rules4, rules4') /\ Good(rules6, rules6') /\ profile' \in Profiles
  <2> DEFINE done == Edited(c)
  <2>1. /\ rules4' = Sweep(done.r4) /\ rules6' = Sweep(done.r6) /\ profile' = profile
    BY <1>2 DEF RunRuleOp
  <2>2. Start.r4 = rules4 /\ Start.r6 = rules6 /\ KeepsBoth(c, Start, done)
    BY StartType, EditedKeeps
  <2> HIDE DEF done
  <2>3. Keeps(c, rules4, done.r4) /\ Keeps(c, rules6, done.r6)
    BY <2>2 DEF KeepsBoth
  <2>4. /\ done.r4 \in Seq(Rule) /\ (NoCopies(rules4) => NoCopies(done.r4))
        /\ done.r6 \in Seq(Rule) /\ (NoCopies(rules6) => NoCopies(done.r6))
    BY <2>3 DEF Keeps
  <2> QED
    BY <1>0, <2>1, <2>4, WithoutKeeps DEF Sweep
<1>3. ASSUME NEW n \in 1 .. MaxRules, DeleteByNumber(n)
      PROVE  Good(rules4, rules4') /\ Good(rules6, rules6') /\ profile' \in Profiles
  <2> DEFINE n4 == Deduped(rules4)
             i4 == Numbered(rules4, n)
             i6 == Numbered(rules6, n - n4)
  <2>1. /\ rules4' = Sweep(IF i4 # 0 THEN WithoutNumber(rules4, i4) ELSE rules4)
        /\ rules6' = Sweep(IF i4 = 0 THEN WithoutNumber(rules6, i6) ELSE rules6)
        /\ profile' = profile
    BY <1>3 DEF DeleteByNumber
  <2> HIDE DEF i4, i6
  <2>2. \A list \in Seq(Rule) : \A i :
          /\ WithoutNumber(list, i) \in Seq(Rule)
          /\ NoCopies(list) => NoCopies(WithoutNumber(list, i))
    BY WithoutKeeps DEF WithoutNumber
  <2>3. \A list \in Seq(Rule) : Sweep(list) \in Seq(Rule) /\ (NoCopies(list) => NoCopies(Sweep(list)))
    BY WithoutKeeps DEF Sweep
  <2> QED
    BY <1>0, <2>1, <2>2, <2>3
<1>4. ASSUME NEW app \in Apps, AppUpdate(app)
      PROVE  Good(rules4, rules4') /\ Good(rules6, rules6') /\ profile' \in Profiles
  <2>1. /\ rules4' = Regenerated(rules4, app) /\ rules6' = Regenerated(rules6, app)
        /\ profile' = profile
    BY <1>4 DEF AppUpdate
  <2> QED
    BY <1>0, <2>1, RegeneratedType, RegeneratedNoCopies
<1>5. CASE EditProfile
  <2>1. profile' \in Profiles /\ rules4' = rules4 /\ rules6' = rules6
    BY <1>5 DEF EditProfile
  <2> QED
    BY <1>0, <2>1
<1>6. CASE Expire
  <2>1. /\ rules4' = Lapsed(rules4) /\ rules6' = Lapsed(rules6) /\ profile' = profile
    BY <1>6 DEF Expire
  <2> QED
    BY <1>0, <2>1, LapsedKeeps
<1>7. CASE CmdSweep
  <2>1. /\ rules4' = Sweep(rules4) /\ rules6' = Sweep(rules6) /\ profile' = profile
    BY <1>7 DEF CmdSweep
  <2> QED
    BY <1>0, <2>1, WithoutKeeps DEF Sweep
<1>8. CASE UNCHANGED vars
  <2>1. profile' = profile /\ rules4' = rules4 /\ rules6' = rules6
    BY <1>8 DEF vars
  <2> QED
    BY <1>0, <2>1
<1> QED
  BY <1>2, <1>3, <1>4, <1>5, <1>6, <1>7, <1>8 DEF Next

\* The lists hold rules, whatever the commands.
THEOREM RulesTyped == Spec => []TypeOK
<1>1. Init => TypeOK
  BY DEF Init, TypeOK
<1>2. TypeOK /\ [Next]_vars => TypeOK'
  BY Steps
<1> QED
  BY <1>1, <1>2, PTL DEF Spec

\* No list ever holds two rules with one key, when the rules of an application
\* form one group and no profile gives an item twice (setRuleEngine,
\* updateAppRule).
THEOREM NothingTwice ==
  ASSUME GroupsAreApps, ItemsOnce
  PROVE  Spec => []NoDuplicates
<1>1. Init => TypeOK /\ NoDuplicates
  BY DEF Init, TypeOK, NoDuplicates, NoCopies
<1>2. TypeOK /\ NoDuplicates /\ [Next]_vars => (TypeOK /\ NoDuplicates)'
  BY Steps
<1> QED
  BY <1>1, <1>2, PTL DEF Spec

\* A command leaves the rules that it does not speak of, in both families.
THEOREM OthersStand == Spec => []OthersKept
<1>1. TypeOK => OthersKept
  <2> SUFFICES ASSUME TypeOK, NEW done \in Done
               PROVE  /\ Others(done.cmd, done.edit.r4) = Others(done.cmd, rules4)
                      /\ Others(done.cmd, done.edit.r6) = Others(done.cmd, rules6)
    BY DEF OthersKept
  <2>1. PICK c \in Commands : done = [cmd |-> c, edit |-> Edited(c)]
    BY DEF Done
  <2>2. done.cmd = c /\ done.edit = Edited(c)
    BY <2>1
  <2>3. KeepsBoth(c, Start, Edited(c)) /\ Start.r4 = rules4 /\ Start.r6 = rules6
    BY EditedKeeps, StartType
  <2> QED
    BY <2>2, <2>3 DEF KeepsBoth, Keeps
<1> QED
  BY <1>1, RulesTyped, PTL

\* No rule comes between two rules of an application that stand together.
THEOREM GroupsStand ==
  ASSUME GroupsAreApps, ItemsOnce
  PROVE  Spec => []GroupsStayTogether
<1> DEFINE Whole(old, new) ==
             LET place(r) == CHOOSE i \in DOMAIN new : SameKey(new[i], r) IN
             \A i \in 2 .. Len(old) :
               (/\ IsApp(old[i - 1]) /\ IsApp(old[i])
                /\ Ends[old[i - 1].of] = Ends[old[i].of]
                /\ \A k \in {i - 1, i} : \E j \in DOMAIN new : SameKey(new[j], old[k]))
               => place(old[i]) = place(old[i - 1]) + 1
<1>1. ASSUME NEW old \in Seq(Rule), NEW new \in Seq(Rule), NoCopies(new), Together(old, new)
      PROVE  Whole(old, new)
  <2> DEFINE place(r) == CHOOSE i \in DOMAIN new : SameKey(new[i], r)
  <2> SUFFICES ASSUME NEW i \in 2 .. Len(old), IsApp(old[i - 1]), IsApp(old[i]),
                      Ends[old[i - 1].of] = Ends[old[i].of]
               PROVE  place(old[i]) = place(old[i - 1]) + 1
    OBVIOUS
  <2>1. Glued(old, i)
    BY DEF Glued
  <2>2. PICK k \in 2 .. Len(new) : SameKey(new[k - 1], old[i - 1]) /\ SameKey(new[k], old[i])
    BY <1>1, <2>1 DEF Together
  <2>3. k \in DOMAIN new /\ k - 1 \in DOMAIN new /\ k \in Int
    OBVIOUS
  <2>4. \A r, j : j \in DOMAIN new /\ SameKey(new[j], r) => place(r) = j
    <3> SUFFICES ASSUME NEW r, NEW j, j \in DOMAIN new, SameKey(new[j], r)
                 PROVE  place(r) = j
      OBVIOUS
    <3>1. \A l \in DOMAIN new : SameKey(new[l], r) <=> l = j
      BY <1>1 DEF NoCopies, SameKey
    <3> QED
      BY <3>1
  <2> HIDE DEF place
  <2>5. place(old[i]) = k /\ place(old[i - 1]) = k - 1
    BY <2>2, <2>3, <2>4
  <2> QED
    BY <2>3, <2>5
<1>2. TypeOK /\ NoDuplicates => GroupsStayTogether
  <2> SUFFICES ASSUME TypeOK, NoDuplicates,
                      NEW done \in {d \in Done : d.cmd.kind # "delete"},
                      NEW lists \in {<<rules4, done.edit.r4>>, <<rules6, done.edit.r6>>}
               PROVE  Whole(lists[1], lists[2])
    BY DEF GroupsStayTogether
  <2>1. PICK c \in Commands : done = [cmd |-> c, edit |-> Edited(c)]
    BY DEF Done
  <2>2. done.cmd = c /\ done.edit = Edited(c) /\ c.kind # "delete"
    BY <2>1
  <2>3. KeepsBoth(c, Start, Edited(c)) /\ Start.r4 = rules4 /\ Start.r6 = rules6
    BY EditedKeeps, StartType
  <2>4. /\ Keeps(c, rules4, done.edit.r4) /\ Keeps(c, rules6, done.edit.r6)
        /\ NoCopies(rules4) /\ NoCopies(rules6) /\ rules4 \in Seq(Rule) /\ rules6 \in Seq(Rule)
    BY <2>2, <2>3 DEF KeepsBoth, NoDuplicates, TypeOK
  <2>5. Keeps(c, lists[1], lists[2]) /\ NoCopies(lists[1]) /\ lists[1] \in Seq(Rule)
    BY <2>4
  <2>6. NoCopies(lists[2]) /\ lists[2] \in Seq(Rule) /\ Together(lists[1], lists[2])
    BY <2>2, <2>5 DEF Keeps
  <2> HIDE DEF Whole
  <2> QED
    BY <1>1, <2>5, <2>6
<1> QED
  BY <1>2, RulesTyped, NothingTwice, PTL

\* The rules of a list with a rule's key have its action, and the comment that
\* it gives, if any.
Alike(list, new) ==
  \A i \in 1 .. Len(list) : SameKey(list[i], new) =>
    list[i].act = new.act /\ (new.note = NoNote \/ new.note = list[i].note)

\* What a deletion leaves is the list without the rules of that key.
TakesAll(done, list, new) ==
  /\ \A k \in 1 .. Len(done.list) :
       ~SameKey(done.list[k], new) /\ \E i \in 1 .. Len(list) : done.list[k] = list[i]
  /\ \A i \in 1 .. Len(list) : ~SameKey(list[i], new) =>
       \E k \in 1 .. Len(done.list) : done.list[k] = list[i]
  /\ (\E i \in 1 .. Len(list) : SameKey(list[i], new)) => done.did = "deleted"

\* A deletion takes all that has the rule's key, when there is one at most and
\* its action and comment are those given.
LEMMA TakeTakes ==
  ASSUME NEW list \in Seq(Rule), NoCopies(list), NEW new, Alike(list, new)
  PROVE  TakesAll(Take(list, new), list, new)
<1> DEFINE commented == {i \in DOMAIN list : new.note = NoNote /\ Commented(list[i], new)}
           exact == {i \in DOMAIN list : Exact(list[i], new)}
           gone == commented \cup {i \in exact : \A j \in commented \cup exact : i <= j}
<1>0. DOMAIN list = 1 .. Len(list)
  OBVIOUS
<1>1. gone = {i \in 1 .. Len(list) : SameKey(list[i], new)}
  <2>1. \A i \in commented \cup exact : i \in 1 .. Len(list) /\ SameKey(list[i], new)
    BY <1>0 DEF Commented, Exact
  <2>2. \A i \in 1 .. Len(list) : SameKey(list[i], new) => i \in commented \cup exact
    BY <1>0 DEF Commented, Exact, Alike
  <2>3. \A i, j \in commented \cup exact : i = j /\ i <= j
    <3> HIDE DEF commented, exact
    <3>1. \A i, j \in 1 .. Len(list) :
            SameKey(list[i], new) /\ SameKey(list[j], new) => i = j
      BY <1>0 DEF NoCopies, SameKey
    <3> QED
      BY <2>1, <3>1
  <2> HIDE DEF commented, exact
  <2> QED
    BY <2>1, <2>2, <2>3
<1>2. Take(list, new) = IF gone = {} THEN [list |-> list, did |-> "notFound"]
                        ELSE [list |-> Without(list, gone), did |-> "deleted"]
  BY DEF Take
<1> HIDE DEF gone
<1>3. CASE gone = {}
  <2>1. Take(list, new) = [list |-> list, did |-> "notFound"]
    BY <1>2, <1>3
  <2>2. Take(list, new).list = list
    BY <2>1
  <2>3. \A i \in 1 .. Len(list) : ~SameKey(list[i], new)
    BY <1>1, <1>3
  <2> QED
    BY <2>2, <2>3 DEF TakesAll
<1>4. CASE gone # {}
  <2> DEFINE out == Without(list, gone)
  <2>1. out \in Seq(Rule) /\ \E q : Picks(q, out, list, gone)
    BY WithoutIs
  <2> HIDE DEF out
  <2>2. Take(list, new) = [list |-> out, did |-> "deleted"]
    BY <1>2, <1>4 DEF out
  <2>3. Take(list, new).list = out /\ Take(list, new).did = "deleted"
    BY <2>2
  <2>4. PICK q : Picks(q, out, list, gone)
    BY <2>1
  <2>5. ASSUME NEW k \in 1 .. Len(out)
        PROVE  ~SameKey(out[k], new) /\ \E i \in 1 .. Len(list) : out[k] = list[i]
    <3>1. q[k] \in 1 .. Len(list) /\ q[k] \notin gone /\ out[k] = list[q[k]]
      BY <2>4 DEF Picks
    <3> QED
      BY <1>1, <3>1
  <2>6. ASSUME NEW i \in 1 .. Len(list), ~SameKey(list[i], new)
        PROVE  \E k \in 1 .. Len(out) : out[k] = list[i]
    <3>1. PICK k \in 1 .. Len(out) : q[k] = i
      BY <1>1, <2>4, <2>6 DEF Picks
    <3>2. out[k] = list[i]
      BY <2>4, <3>1 DEF Picks
    <3> QED
      BY <3>2
  <2> QED
    BY <2>3, <2>5, <2>6 DEF TakesAll
<1> QED
  BY <1>3, <1>4

\* The rules of a list that the first deletions of a group leave.
Taken(acc, list, s, i) ==
  /\ NoCopies(acc.list) /\ acc.did = "deleted"
  /\ \A k \in 1 .. Len(acc.list) :
       /\ \E j \in 1 .. Len(list) : acc.list[k] = list[j]
       /\ \A m \in 1 .. i : ~SameKey(acc.list[k], s[m])
  /\ \A m \in i + 1 .. Len(s) : \E k \in 1 .. Len(acc.list) : acc.list[k] = s[m]

\* A step of applyHalf's deletion of a group takes one rule of the group more.
LEMMA TakenNext ==
  ASSUME NEW list \in Seq(Rule), NEW s \in Seq(Rule), NoCopies(s), NEW act \in Actions,
         \A m \in 1 .. Len(s) : s[m].act = act,
         NEW acc \in [list : Seq(Rule), did : {"deleted", "notFound"}],
         NEW i \in 1 .. Len(s), Taken(acc, list, s, i - 1)
  PROVE  Taken(TakeNext(act, acc, s[i]), list, s, i)
<1> DEFINE old == acc.list
           r == s[i]
           next == TakeNext(act, acc, r)
<1>1. /\ old \in Seq(Rule) /\ r \in Rule /\ i \in Nat /\ Len(s) \in Nat /\ (i - 1) + 1 = i
      /\ DOMAIN s = 1 .. Len(s) /\ DOMAIN old = 1 .. Len(old)
  OBVIOUS
<1>2. NoCopies(old) /\ acc.did = "deleted"
  BY DEF Taken
<1>3. [r EXCEPT !.act = act] = r
  <2>1. r.act = act
    OBVIOUS
  <2> HIDE DEF r
  <2> QED
    BY <1>1, <2>1 DEF Rule
<1>4. next = Take(old, r)
  <2>1. acc.did # "notFound"
    BY <1>2
  <2>2. next = Take(old, [r EXCEPT !.act = act])
    BY <2>1 DEF TakeNext
  <2> QED
    BY <1>3, <2>2
<1>5. PICK k0 \in 1 .. Len(old) : old[k0] = r
  <2>1. i \in (i - 1) + 1 .. Len(s)
    BY <1>1
  <2> QED
    BY <2>1 DEF Taken
<1>6. Alike(old, r)
  <2>1. \A k \in 1 .. Len(old) : SameKey(old[k], r) => k = k0
    BY <1>1, <1>2, <1>5 DEF NoCopies
  <2> QED
    BY <1>5, <2>1 DEF Alike
<1> HIDE DEF next, old, r
<1>7. TakesAll(next, old, r)
  BY <1>1, <1>2, <1>4, <1>6, TakeTakes
<1>8. next.did = "deleted"
  BY <1>5, <1>7 DEF SameKey, TakesAll
<1>9. NoCopies(next.list)
  <2>1. PICK q, gone : Picks(q, Take(old, r).list, old, gone)
    BY <1>1, TakeIs
  <2>2. Take(old, r).list \in Seq(Rule)
    BY <1>1, TakeIs
  <2> QED
    BY <1>1, <1>2, <1>4, <2>1, <2>2, PicksNoCopies
<1>10. ASSUME NEW k \in 1 .. Len(next.list)
       PROVE  /\ \E j \in 1 .. Len(list) : next.list[k] = list[j]
              /\ \A m \in 1 .. i : ~SameKey(next.list[k], s[m])
  <2>1. PICK l \in 1 .. Len(old) : next.list[k] = old[l]
    BY <1>7 DEF TakesAll
  <2>2. /\ \E j \in 1 .. Len(list) : old[l] = list[j]
        /\ \A m \in 1 .. i - 1 : ~SameKey(old[l], s[m])
    BY DEF Taken, old
  <2>3. \A m \in 1 .. i : m \in 1 .. i - 1 \/ m = i
    BY <1>1
  <2>4. ~SameKey(next.list[k], s[i])
    BY <1>7 DEF r, TakesAll
  <2> QED
    BY <2>1, <2>2, <2>3, <2>4
<1>11. ASSUME NEW m \in i + 1 .. Len(s)
       PROVE  \E k \in 1 .. Len(next.list) : next.list[k] = s[m]
  <2>1. m \in (i - 1) + 1 .. Len(s) /\ m \in 1 .. Len(s) /\ i \in 1 .. Len(s) /\ m # i
    BY <1>1
  <2>2. PICK l \in 1 .. Len(old) : old[l] = s[m]
    BY <2>1 DEF Taken, old
  <2>3. ~SameKey(s[m], s[i])
    BY <1>1, <2>1 DEF NoCopies
  <2>4. ~SameKey(old[l], r)
    BY <2>2, <2>3 DEF r
  <2> QED
    BY <1>7, <2>2, <2>4 DEF TakesAll
<1>12. Taken(next, list, s, i)
  BY <1>8, <1>9, <1>10, <1>11 DEF Taken
<1> QED
  BY <1>12 DEF next, r

\* Deleting a group takes all of it.
LEMMA TakeGroupTakes ==
  ASSUME NEW list \in Seq(Rule), NoCopies(list), NEW new \in Rule,
         \A i \in 1 .. Len(list) :
           IsApp(list[i]) /\ Tuple[list[i].of] = Tuple[new.of] => list[i].act = new.act
  PROVE  \A k \in 1 .. Len(TakeGroup(list, new).list) :
           LET r == TakeGroup(list, new).list[k] IN
           ~(IsApp(r) /\ Tuple[r.of] = Tuple[new.of])
<1> DEFINE s == Group(list, new)
           n == Len(s)
           base == [list |-> list, did |-> "deleted"]
           A == [list : Seq(Rule), did : {"deleted", "notFound"}]
           act == new.act
<1>1. /\ s \in Seq(Rule)
      /\ \A k \in 1 .. n : /\ \E i \in 1 .. Len(list) : s[k] = list[i]
                           /\ IsApp(s[k]) /\ Tuple[s[k].of] = Tuple[new.of]
      /\ \A i \in 1 .. Len(list) :
           IsApp(list[i]) /\ Tuple[list[i].of] = Tuple[new.of] =>
             \E k \in 1 .. n : s[k] = list[i]
  BY GroupIs
<1>2. NoCopies(s)
  BY WithoutKeeps DEF Group
<1>3. \A m \in 1 .. n : s[m].act = act
  BY <1>1
<1>4. act \in Actions
  BY DEF Rule
<1>5. CASE s = <<>>
  <2>1. TakeGroup(list, new) = [list |-> list, did |-> "notFound"]
    BY <1>5 DEF TakeGroup
  <2>2. TakeGroup(list, new).list = list
    BY <2>1
  <2>3. 1 .. n = {}
    BY <1>5
  <2> HIDE DEF s, n
  <2> QED
    BY <1>1, <2>2, <2>3
<1>6. CASE s # <<>>
  <2>1. TakeGroup(list, new) = FoldLeft(LAMBDA acc, r : TakeNext(act, acc, r), base, s)
    BY <1>6 DEF TakeGroup
  <2> HIDE DEF s, act
  <2>2. PICK t \in [0 .. n -> A] :
          /\ t[0] = base
          /\ \A i \in 1 .. n : t[i] = TakeNext(act, t[i - 1], s[i])
          /\ FoldLeft(LAMBDA acc, r : TakeNext(act, acc, r), base, s) = t[n]
    BY <1>1, <1>4, TakeTrace
  <2>3. n \in Nat
    BY <1>1
  <2>31. TakeGroup(list, new) = t[n]
    BY <2>1, <2>2
  <2>4. t[0] = base
    BY <2>2, Zenon
  <2>5. \A i \in 1 .. n : t[i] = TakeNext(act, t[i - 1], s[i])
    BY <2>2, Zenon
  <2> HIDE DEF n
  <2> DEFINE U == {i \in 0 .. n : ~Taken(t[i], list, s, i)}
  <2>6. U = {}
    <3> SUFFICES ASSUME U # {} PROVE FALSE
      OBVIOUS
    <3>1. PICK i \in U : \A k \in U : i <= k
      <4>1. U \in SUBSET Nat
        BY <2>3
      <4> HIDE DEF U
      <4> QED
        BY <4>1, Smallest
    <3>2. i \in 0 .. n /\ ~Taken(t[i], list, s, i)
      OBVIOUS
    <3>3. i # 0
      <4>1. t[0].list = list /\ t[0].did = "deleted"
        BY <2>4
      <4>2. \A m \in 0 + 1 .. Len(s) : \E k \in 1 .. Len(list) : list[k] = s[m]
        BY <1>1 DEF n
      <4>3. Taken(t[0], list, s, 0)
        BY <4>1, <4>2 DEF Taken
      <4> QED
        BY <3>2, <4>3
    <3>4. i \in 1 .. n /\ i - 1 \in 0 .. n /\ ~(i <= i - 1)
      BY <2>3, <3>2, <3>3
    <3>5. Taken(t[i - 1], list, s, i - 1) /\ t[i - 1] \in A
      BY <3>1, <3>4
    <3>6. t[i] = TakeNext(act, t[i - 1], s[i]) /\ i \in 1 .. Len(s)
      BY <2>5, <3>4 DEF n
    <3>7. Taken(t[i], list, s, i)
      <4>1. \A m \in 1 .. Len(s) : s[m].act = act
        BY <1>3 DEF n
      <4>2. s \in Seq(Rule) /\ NoCopies(s) /\ act \in Actions /\ i \in 1 .. Len(s)
        BY <1>1, <1>2, <1>4, <3>6
      <4> DEFINE acc == t[i - 1]
      <4>3. acc \in [list : Seq(Rule), did : {"deleted", "notFound"}]
        BY <3>5
      <4>4. Taken(acc, list, s, i - 1)
        BY <3>5
      <4>5. t[i] = TakeNext(act, acc, s[i])
        BY <3>6
      <4> HIDE DEF acc, A, U
      <4> QED
        BY <4>1, <4>2, <4>3, <4>4, <4>5, TakenNext
    <3> QED
      BY <3>2, <3>7
  <2>7. Taken(t[n], list, s, n)
    <3>1. n \in 0 .. n
      BY <2>3
    <3> QED
      BY <2>6, <3>1
  <2> SUFFICES ASSUME NEW k \in 1 .. Len(t[n].list), IsApp(t[n].list[k]),
                      Tuple[t[n].list[k].of] = Tuple[new.of]
               PROVE  FALSE
    BY <2>31
  <2>8. PICK j \in 1 .. Len(list) : t[n].list[k] = list[j]
    BY <2>7 DEF Taken
  <2>9. PICK m \in 1 .. n : s[m] = list[j]
    BY <1>1, <2>8 DEF n
  <2>10. ~SameKey(t[n].list[k], s[m])
    BY <2>7 DEF Taken
  <2> QED
    BY <2>8, <2>9, <2>10 DEF SameKey
<1> QED
  BY <1>5, <1>6

\* A deletion from one list, by rule or by group.
TakeHalf(list, new) == IF IsApp(new) THEN TakeGroup(list, new) ELSE Take(list, new)

\* What a deletion by text is.
LEMMA DeletedIs ==
  ASSUME TypeOK, NEW c \in Commands, c.kind = "delete"
  PROVE  /\ c.fam # "v6" => Edited(c).r4 = TakeHalf(rules4, RuleOf(c, c.item)).list
         /\ c.fam # "v4" => Edited(c).r6 = TakeHalf(rules6, RuleOf(c, c.item)).list
<1> DEFINE new == RuleOf(c, c.item)
           n6 == Deduped(rules6)
           n4 == Deduped(rules4)
<1>1. /\ c.num = 0 /\ c.fam \in {"v4", "v6", "both"} /\ c.item \in Items
  BY CommandsAssumption DEF CommandsAssumption
<1>2. Expanded(c) = <<new>> /\ Len(<<new>>) = 1 /\ <<new>>[1] = new
  BY DEF Expanded
<1>3. /\ new \in Rule /\ new.of = c.of
      /\ rules4 \in Seq(Rule) /\ rules6 \in Seq(Rule) /\ n4 \in Nat /\ n6 \in Nat
  BY <1>1, RuleOfType, DedupedType DEF TypeOK, RuleOf
<1> HIDE DEF n4, n6, new
<1>4. Edited(c) = ApplyNext(c, n6, Start, 1)
  <2>1. Len(Expanded(c)) = 1
    BY <1>2
  <2>2. PICK t \in [0 .. 1 -> Edit] :
          /\ t[0] = Start
          /\ \A i \in 1 .. 1 : t[i] = ApplyNext(c, n6, t[i - 1], i)
          /\ Edited(c) = t[1]
    BY <2>1, EditTrace DEF n6
  <2>3. t[1] = ApplyNext(c, n6, t[1 - 1], 1)
    BY <2>2
  <2>4. t[1 - 1] = Start
    BY <2>2
  <2> QED
    BY <2>2, <2>3, <2>4
<1>5. /\ Start.r4 = rules4 /\ Start.r6 = rules6 /\ Start.n4 = n4 /\ Start.ok = TRUE
      /\ Start \in Edit
  BY StartType DEF Start, n4
<1>6. ASSUME NEW list \in Seq(Rule)
      PROVE  /\ ApplyHalf(list, new, 0, c.kind = "delete") = TakeHalf(list, new)
             /\ TakeHalf(list, new).did # "error"
  <2>1. ApplyHalf(list, new, 0, c.kind = "delete") = TakeHalf(list, new)
    <3>1. 0 \in 0 .. Len(list) /\ ~(0 > 0)
      OBVIOUS
    <3>2. CASE IsApp(new)
      BY <3>1, <3>2 DEF ApplyHalf, TakeHalf
    <3>3. CASE ~IsApp(new)
      BY <3>1, <3>3 DEF ApplyHalf, TakeHalf, SetRule
    <3> QED
      BY <3>2, <3>3
  <2>2. CASE IsApp(new)
    <3>1. App[c.of] # NoApp
      BY <1>3, <2>2 DEF IsApp
    <3> QED
      BY <1>3, <2>1, <2>2, <3>1, TakeGroupKeeps DEF TakeHalf
  <2>3. CASE ~IsApp(new)
    BY <2>1, <2>3, TakeIs DEF TakeHalf
  <2> QED
    BY <2>1, <2>2, <2>3
<1> DEFINE half4 == TakeHalf(rules4, new)
           half6 == TakeHalf(rules6, new)
           mid == [Start EXCEPT !.r4 = half4.list]
<1>7. /\ half4 = ApplyHalf(rules4, new, 0, c.kind = "delete") /\ half4.did # "error"
      /\ half6 = ApplyHalf(rules6, new, 0, c.kind = "delete") /\ half6.did # "error"
  BY <1>3, <1>6
<1> HIDE DEF half4, half6
<1>8. ~(~Start.ok \/ c.num > Start.n4 + n6) /\ c.kind # "prepend"
  BY <1>1, <1>3, <1>5
<1>9. mid.r4 = half4.list /\ mid.r6 = rules6 /\ mid.ok = TRUE /\ mid.n4 = n4
  BY <1>5 DEF Edit
<1>10. CASE c.fam = "v4"
  <2>1. V4Position(0, 1 - 1, n4) = 0
    BY <1>3 DEF V4Position
  <2>2. Edited(c) = WithV4(Start, ApplyHalf(Start.r4, new, V4Position(0, 1 - 1, Start.n4),
                                             c.kind = "delete"))
    BY <1>1, <1>2, <1>4, <1>8, <1>10 DEF ApplyNext
  <2>3. Edited(c) = WithV4(Start, half4)
    BY <1>5, <1>7, <2>1, <2>2
  <2>4. Edited(c) = mid
    BY <1>7, <2>3 DEF WithV4
  <2> HIDE DEF mid
  <2> QED
    BY <1>9, <1>10, <2>4 DEF half4, new
<1>11. CASE c.fam = "v6"
  <2>1. V6Position(0, 1 - 1, n4, n6) = 0
    BY <1>3 DEF V6Position
  <2>2. Edited(c) = WithV6(Start, ApplyHalf(Start.r6, new, V6Position(0, 1 - 1, Start.n4, n6),
                                             c.kind = "delete"))
    BY <1>1, <1>2, <1>4, <1>8, <1>11 DEF ApplyNext
  <2>3. Edited(c) = WithV6(Start, half6)
    BY <1>5, <1>7, <2>1, <2>2
  <2>4. Edited(c) = [Start EXCEPT !.r6 = half6.list]
    BY <1>7, <2>3 DEF WithV6
  <2>5. Edited(c).r6 = half6.list
    BY <1>5, <2>4 DEF Edit
  <2> QED
    BY <1>11, <2>5 DEF half6, new
<1>12. CASE c.fam = "both"
  <2>1. Edited(c) = ApplyDual(Start, new, 0, 1 - 1, n6, c.kind = "delete")
    BY <1>1, <1>2, <1>4, <1>8, <1>12 DEF ApplyNext
  <2>2. DualV4Position(Start, 0, 1 - 1, c.kind = "delete") = 0
    BY DEF DualV4Position
  <2>3. WithV4(Start, ApplyHalf(Start.r4, new, DualV4Position(Start, 0, 1 - 1, c.kind = "delete"),
                                c.kind = "delete")) = mid
    <3>1. WithV4(Start, half4) = mid
      BY <1>7 DEF WithV4
    <3> HIDE DEF mid
    <3> QED
      BY <1>5, <1>7, <2>2, <3>1
  <2>4. DualV6Position(mid, 0, 0, 1 - 1, n6, c.kind = "delete") = 0
    BY DEF DualV6Position
  <2>5. Edited(c) = WithV6(mid, ApplyHalf(mid.r6, new, 0, c.kind = "delete"))
    <3> HIDE DEF mid
    <3> QED
      BY <1>9, <2>1, <2>2, <2>3, <2>4 DEF ApplyDual
  <2>6. Edited(c) = WithV6(mid, half6)
    <3> HIDE DEF mid
    <3> QED
      BY <1>7, <1>9, <2>5
  <2>7. Edited(c) = [mid EXCEPT !.r6 = half6.list]
    BY <1>7, <2>6 DEF WithV6
  <2>8. Edited(c).r4 = half4.list /\ Edited(c).r6 = half6.list
    BY <1>5, <2>7 DEF Edit
  <2> QED
    BY <2>8 DEF half4, half6, new
<1> QED
  BY <1>1, <1>10, <1>11, <1>12

\* The rules of a list that a deletion names have its action, and the comment
\* that it gives, if any.
Matching(c, list) ==
  \A r \in Range(list) : Names(c, r) =>
    r.act = c.act /\ (IsApp(r) \/ c.note \in {NoNote, r.note})

\* Where they do, none of them is left.
LEMMA HalfDeletesAll ==
  ASSUME NEW c \in Commands, c.kind = "delete",
         NEW list \in Seq(Rule), NoCopies(list), Matching(c, list)
  PROVE  \A r \in Range(TakeHalf(list, RuleOf(c, c.item)).list) : ~Names(c, r)
<1> DEFINE new == RuleOf(c, c.item)
           out == TakeHalf(list, new).list
<1>1. /\ new \in Rule /\ new.of = c.of /\ new.item = c.item
      /\ new.act = c.act /\ new.note = c.note
  <2>1. c.item \in Items
    BY CommandsAssumption DEF CommandsAssumption
  <2> QED
    BY <2>1, RuleOfType DEF RuleOf
<1>2. \A i \in 1 .. Len(list) : list[i] \in Range(list)
  BY DEF Range
<1> HIDE DEF new
<1>3. CASE IsApp(new)
  <2>1. App[c.of] # NoApp
    BY <1>1, <1>3 DEF IsApp
  <2>2. \A i \in 1 .. Len(list) :
          IsApp(list[i]) /\ Tuple[list[i].of] = Tuple[new.of] => list[i].act = new.act
    BY <1>1, <1>2, <2>1 DEF Matching, Names
  <2>3. \A k \in 1 .. Len(TakeGroup(list, new).list) :
           LET r == TakeGroup(list, new).list[k] IN
           ~(IsApp(r) /\ Tuple[r.of] = Tuple[new.of])
    BY <1>1, <2>2, TakeGroupTakes
  <2>4. out = TakeGroup(list, new).list
    BY <1>3 DEF TakeHalf
  <2>5. out \in Seq(Rule)
    BY <1>1, <2>1, <2>4, TakeGroupKeeps DEF Keeps
  <2>6. \A k \in 1 .. Len(out) : ~(IsApp(out[k]) /\ Tuple[out[k].of] = Tuple[new.of])
    BY <2>3, <2>4
  <2> HIDE DEF out
  <2>7. \A r \in Range(out) : \E k \in 1 .. Len(out) : r = out[k]
    BY <2>5 DEF Range
  <2>8. \A r \in Range(out) : ~Names(c, r)
    BY <1>1, <2>1, <2>6, <2>7 DEF Names
  <2> QED
    BY <2>8 DEF out, new
<1>4. CASE ~IsApp(new)
  <2>1. App[c.of] = NoApp
    BY <1>1, <1>4 DEF IsApp
  <2>2. Alike(list, new)
    <3> SUFFICES ASSUME NEW i \in 1 .. Len(list), SameKey(list[i], new)
                 PROVE  list[i].act = new.act /\ (new.note = NoNote \/ new.note = list[i].note)
      BY DEF Alike
    <3>1. Names(c, list[i]) /\ ~IsApp(list[i])
      BY <1>1, <2>1 DEF Names, SameKey, IsApp
    <3> QED
      BY <1>1, <1>2, <3>1 DEF Matching
  <2>3. TakesAll(Take(list, new), list, new)
    BY <2>2, TakeTakes
  <2>4. out = Take(list, new).list
    BY <1>4 DEF TakeHalf
  <2>5. out \in Seq(Rule)
    BY <1>1, <2>4, TakeIs
  <2>6. \A k \in 1 .. Len(out) : ~SameKey(out[k], new)
    BY <2>3, <2>4 DEF TakesAll
  <2> HIDE DEF out
  <2>7. \A r \in Range(out) : \E k \in 1 .. Len(out) : r = out[k]
    BY <2>5 DEF Range
  <2>8. \A r \in Range(out) : ~Names(c, r)
    BY <1>1, <2>1, <2>6, <2>7 DEF Names, SameKey
  <2> QED
    BY <2>8 DEF out, new
<1> QED
  BY <1>3, <1>4

\* Deleting by text leaves nothing of what it names in the families it speaks
\* of, if all of it is stored with the action and, when it gives one, the
\* comment of the command, whatever has become of the profiles since.
THEOREM DeletesAllAlways ==
  ASSUME GroupsAreApps, ItemsOnce
  PROVE  Spec => []DeletesAll
<1>1. ASSUME TypeOK, NoDuplicates PROVE DeletesAll
  <2> SUFFICES ASSUME NEW done \in Done, done.cmd.kind = "delete"
               PROVE  /\ done.cmd.fam # "v6" /\ Matching(done.cmd, rules4)
                           => \A r \in Range(done.edit.r4) : ~Names(done.cmd, r)
                      /\ done.cmd.fam # "v4" /\ Matching(done.cmd, rules6)
                           => \A r \in Range(done.edit.r6) : ~Names(done.cmd, r)
    BY DEF DeletesAll, Matching
  <2>1. PICK c \in Commands : done = [cmd |-> c, edit |-> Edited(c)]
    BY DEF Done
  <2>2. done.cmd = c /\ done.edit = Edited(c)
    BY <2>1
  <2>3. /\ c.fam # "v6" => Edited(c).r4 = TakeHalf(rules4, RuleOf(c, c.item)).list
        /\ c.fam # "v4" => Edited(c).r6 = TakeHalf(rules6, RuleOf(c, c.item)).list
    BY <1>1, <2>2, DeletedIs
  <2>4. /\ rules4 \in Seq(Rule) /\ NoCopies(rules4)
        /\ rules6 \in Seq(Rule) /\ NoCopies(rules6)
    BY <1>1 DEF TypeOK, NoDuplicates
  <2>5. Matching(c, rules4) =>
          \A r \in Range(TakeHalf(rules4, RuleOf(c, c.item)).list) : ~Names(c, r)
    BY <2>2, <2>4, HalfDeletesAll
  <2>6. Matching(c, rules6) =>
          \A r \in Range(TakeHalf(rules6, RuleOf(c, c.item)).list) : ~Names(c, r)
    BY <2>2, <2>4, HalfDeletesAll
  <2> QED
    BY <2>2, <2>3, <2>5, <2>6
<1> QED
  BY <1>1, RulesTyped, NothingTwice, PTL

\* Where setRuleEngine's loop can be.
LoopState ==
  [out : Seq(Rule), found : BOOLEAN, modified : BOOLEAN, inserted : BOOLEAN,
   matched : BOOLEAN, pos : Nat, count : Nat, last : {EndsOf(r) : r \in Rule} \cup {<<>>}]

\* An entry leaves the loop in a state of its own.
LEMMA LoopTyped ==
  ASSUME NEW acc \in LoopState, NEW r \in Rule, NEW new \in Rule, NEW remove \in BOOLEAN
  PROVE  LoopNext(new, remove, acc, r) \in LoopState
<1> DEFINE a == AtPosition(acc, r, new)
           L == {EndsOf(x) : x \in Rule} \cup {<<>>}
           b == [a EXCEPT !.last = EndsOf(r), !.count = @ + 1, !.matched = @ \/ SameKey(r, new)]
           next == LoopMatch(b, r, new, remove)
<1>0. next = LoopNext(new, remove, acc, r)
  BY DEF LoopNext
<1>1. EndsOf(r) \in L
  OBVIOUS
<1> HIDE DEF L
<1>2. LoopState = [out : Seq(Rule), found : BOOLEAN, modified : BOOLEAN, inserted : BOOLEAN,
                   matched : BOOLEAN, pos : Nat, count : Nat, last : L]
  BY DEF LoopState, L
<1>3. a \in LoopState
  <2>1. Append(acc.out, new) \in Seq(Rule)
    BY <1>2
  <2>2. \/ a = acc
        \/ a = [acc EXCEPT !.inserted = TRUE, !.out = Append(@, new)]
        \/ a = [acc EXCEPT !.pos = @ + 1]
    BY DEF AtPosition
  <2>3. [acc EXCEPT !.pos = @ + 1] \in LoopState
    BY <1>2
  <2>4. [acc EXCEPT !.inserted = TRUE, !.out = Append(@, new)] \in LoopState
    BY <1>2, <2>1
  <2> HIDE DEF a
  <2> QED
    BY <2>2, <2>3, <2>4
<1> HIDE DEF a
<1>4. b \in LoopState
  <2>1. (a.matched \/ SameKey(r, new)) \in BOOLEAN /\ a.count + 1 \in Nat
    BY <1>2, <1>3
  <2> DEFINE m == a.matched \/ SameKey(r, new)
  <2>2. b = [a EXCEPT !.last = EndsOf(r), !.count = a.count + 1, !.matched = m]
    BY <1>2, <1>3
  <2>3. m \in BOOLEAN
    BY <2>1
  <2> HIDE DEF m, b
  <2> QED
    BY <1>1, <1>2, <1>3, <2>1, <2>2, <2>3
<1> HIDE DEF b
<1>5. next \in LoopState
  <2>1. Append(b.out, new) \in Seq(Rule) /\ Append(b.out, r) \in Seq(Rule)
    BY <1>2, <1>4
  <2> QED
    BY <1>2, <1>4, <2>1 DEF LoopMatch
<1> QED
  BY <1>0, <1>5

\* The loop, entry by entry.
LEMMA LoopTrace ==
  ASSUME NEW s \in Seq(Rule), NEW new \in Rule, NEW position \in Nat, NEW remove \in BOOLEAN
  PROVE  \E t \in [0 .. Len(s) -> LoopState] :
           /\ t[0] = LoopStart(position)
           /\ \A i \in 1 .. Len(s) : t[i] = LoopNext(new, remove, t[i - 1], s[i])
           /\ FoldLeft(LAMBDA acc, r : LoopNext(new, remove, acc, r), LoopStart(position), s)
                = t[Len(s)]
<1> DEFINE A == LoopState
           base == LoopStart(position)
           n == Len(s)
           o == [p \in A \X (1 .. n) |-> LoopNext(new, remove, p[1], s[p[2]])]
           R(h) == h = [x \in SUBSET DOMAIN s |->
                          IF x = {} THEN base ELSE LoopNext(new, remove, h[x \ {Max(x)}], s[Max(x)])]
           h == CHOOSE h : R(h)
<1>1. n \in Nat /\ DOMAIN s = 1 .. n /\ \A i \in 1 .. n : s[i] \in Rule
  OBVIOUS
<1>2. base \in A
  BY DEF LoopStart, LoopState
<1>3. o \in [A \X (1 .. n) -> A]
  <2>1. \A a \in A, r \in Rule : LoopNext(new, remove, a, r) \in A
    BY LoopTyped
  <2> QED
    BY <1>1, <2>1
<1> HIDE DEF A, base
<1>4. PICK g \in [SUBSET (1 .. n) -> A] : Folds(g, base, o, n)
  <2> HIDE DEF o, n
  <2> QED
    BY <1>1, <1>2, <1>3, FoldExists
<1>5. R(g)
  <2>1. ASSUME NEW x \in SUBSET (1 .. n), x # {}
        PROVE  g[x] = LoopNext(new, remove, g[x \ {Max(x)}], s[Max(x)])
    <3>1. g[x] = o[<<g[x \ {Max(x)}], Max(x)>>]
      BY <1>4, <2>1 DEF Folds
    <3>2. Max(x) \in 1 .. n
      BY <1>1, <2>1, MaxIn
    <3>3. x \ {Max(x)} \in SUBSET (1 .. n)
      OBVIOUS
    <3>4. g[x \ {Max(x)}] \in A
      BY <3>3
    <3> QED
      BY <3>1, <3>2, <3>4
  <2>2. g[{}] = base
    BY <1>4 DEF Folds
  <2>3. g = [x \in SUBSET (1 .. n) |-> g[x]]
    OBVIOUS
  <2> HIDE DEF o
  <2>4. \A x \in SUBSET (1 .. n) :
          g[x] = IF x = {} THEN base ELSE LoopNext(new, remove, g[x \ {Max(x)}], s[Max(x)])
    BY <2>1, <2>2
  <2> QED
    BY <1>1, <2>3, <2>4
<1>6. R(h)
  <2>1. \E f : R(f)
    BY <1>5
  <2> QED
    BY <2>1, Zenon
<1>7. FoldLeft(LAMBDA acc, r : LoopNext(new, remove, acc, r), base, s) = h[DOMAIN s]
  BY DEF FoldLeft, MapThenFoldSet, Max
<1> HIDE DEF h
<1>8. \A x \in SUBSET (1 .. n) :
        h[x] = IF x = {} THEN base ELSE LoopNext(new, remove, h[x \ {Max(x)}], s[Max(x)])
  BY <1>1, <1>6
<1>9. h[{}] = base
  BY <1>8
<1>10. Follows(h, o, A, n)
  <2> SUFFICES ASSUME NEW i \in 1 .. n, h[1 .. i - 1] \in A
               PROVE  h[1 .. i] = o[<<h[1 .. i - 1], i>>]
    BY DEF Follows
  <2>1. /\ 1 .. i \in SUBSET (1 .. n) /\ 1 .. i # {}
        /\ (1 .. i) \ {i} = 1 .. i - 1 /\ Max(1 .. i) = i
    BY <1>1, UpTo
  <2>3. h[1 .. i] = LoopNext(new, remove, h[1 .. i - 1], s[i])
    BY <1>8, <2>1
  <2> QED
    BY <2>3
<1>11. PICK t \in [0 .. n -> A] :
         /\ t[0] = base
         /\ \A i \in 1 .. n : t[i] = o[<<t[i - 1], i>>]
         /\ h[1 .. n] = t[n]
  <2> HIDE DEF o, n
  <2>1. Runs(h, base, o, A, n)
    BY <1>1, <1>2, <1>3, <1>9, <1>10, FoldFollows
  <2> QED
    BY <2>1 DEF Runs
<1>12. \A i \in 1 .. n : t[i] = LoopNext(new, remove, t[i - 1], s[i])
  <2> SUFFICES ASSUME NEW i \in 1 .. n PROVE t[i] = LoopNext(new, remove, t[i - 1], s[i])
    OBVIOUS
  <2>1. i - 1 \in 0 .. n
    BY <1>1
  <2>2. t[i - 1] \in A
    BY <2>1
  <2> QED
    BY <1>11, <2>2
<1>13. FoldLeft(LAMBDA acc, r : LoopNext(new, remove, acc, r), base, s) = t[n]
  BY <1>1, <1>7, <1>11
<1> QED
  BY <1>11, <1>12, <1>13 DEF A, base

\* The entry goes with the one before it.
Slides(acc, r) == EndsOf(r) # <<>> /\ acc.last = EndsOf(r)

\* What a pass of the loop that stores does at an entry.
Passed(acc, next, r, new) ==
  /\ next.count = acc.count + 1 /\ next.last = EndsOf(r)
  /\ next.matched <=> acc.matched \/ SameKey(r, new)
  /\ acc.count = acc.pos /\ ~Slides(acc, r) =>
       next.inserted /\ next.pos = acc.pos /\ next.out = Append(Append(acc.out, new), r)
  /\ acc.count # acc.pos \/ Slides(acc, r) =>
       /\ next.inserted <=> acc.inserted
       /\ next.pos = IF acc.count = acc.pos THEN acc.pos + 1 ELSE acc.pos
       /\ acc.inserted => next.out = Append(acc.out, r)
       /\ ~acc.inserted =>
            /\ next.found <=> acc.found \/ SameKey(r, new)
            /\ next.modified <=> acc.modified \/ (SameKey(r, new) /\ ~Exact(r, new))
            /\ next.out = Append(acc.out, IF SameKey(r, new) /\ (~Exact(r, new) \/ ~acc.found)
                                          THEN new ELSE r)

\* So the loop that stores passes an entry.
LEMMA LoopPasses ==
  ASSUME NEW acc \in LoopState, NEW r \in Rule, NEW new \in Rule
  PROVE  Passed(acc, LoopNext(new, FALSE, acc, r), r, new)
<1> DEFINE a == AtPosition(acc, r, new)
           m == a.matched \/ SameKey(r, new)
           b == [a EXCEPT !.last = EndsOf(r), !.count = @ + 1, !.matched = @ \/ SameKey(r, new)]
           next == LoopMatch(b, r, new, FALSE)
           L == {EndsOf(x) : x \in Rule} \cup {<<>>}
           opens == EndsOf(r) = <<>> \/ (acc.last = <<>> /\ acc.count > 1) \/ acc.last # EndsOf(r)
<1>0. next = LoopNext(new, FALSE, acc, r)
  BY DEF LoopNext
<1>1. EndsOf(r) \in L
  OBVIOUS
<1> HIDE DEF L
<1>2. LoopState = [out : Seq(Rule), found : BOOLEAN, modified : BOOLEAN, inserted : BOOLEAN,
                   matched : BOOLEAN, pos : Nat, count : Nat, last : L]
  BY DEF LoopState, L
<1>3. opens <=> ~Slides(acc, r)
  BY DEF Slides
<1>4. a = IF acc.count # acc.pos THEN acc
          ELSE IF opens THEN [acc EXCEPT !.inserted = TRUE, !.out = Append(@, new)]
          ELSE [acc EXCEPT !.pos = @ + 1]
  BY DEF AtPosition
<1> HIDE DEF a, opens
<1>5. /\ acc.count = acc.pos /\ opens =>
           /\ a.inserted /\ a.out = Append(acc.out, new) /\ a.pos = acc.pos
      /\ ~(acc.count = acc.pos /\ opens) =>
           /\ a.inserted <=> acc.inserted
           /\ a.out = acc.out /\ a.pos = IF acc.count = acc.pos THEN acc.pos + 1 ELSE acc.pos
      /\ a.count = acc.count
      /\ a.matched <=> acc.matched
      /\ a.found <=> acc.found
      /\ a.modified <=> acc.modified
      /\ a \in LoopState
  <2>1. CASE acc.count # acc.pos
    <3>1. a = acc
      BY <1>4, <2>1
    <3> QED
      BY <2>1, <3>1
  <2>2. CASE acc.count = acc.pos /\ opens
    <3>1. a = [acc EXCEPT !.inserted = TRUE, !.out = Append(@, new)]
      BY <1>4, <2>2
    <3>2. Append(acc.out, new) \in Seq(Rule)
      BY <1>2
    <3> QED
      BY <1>2, <2>2, <3>1, <3>2
  <2>3. CASE acc.count = acc.pos /\ ~opens
    <3>1. a = [acc EXCEPT !.pos = @ + 1]
      BY <1>4, <2>3
    <3> QED
      BY <1>2, <2>3, <3>1
  <2> QED
    BY <2>1, <2>2, <2>3
<1>6. /\ b.count = acc.count + 1 /\ b.last = EndsOf(r) /\ (b.matched <=> acc.matched \/ SameKey(r, new))
      /\ b.out = a.out /\ b.pos = a.pos /\ (b.found <=> a.found)
      /\ (b.modified <=> a.modified) /\ (b.inserted <=> a.inserted)
  BY <1>2, <1>5
<1>7. b \in LoopState
  <2>1. m \in BOOLEAN /\ a.count + 1 \in Nat
    BY <1>2, <1>5
  <2>2. b = [a EXCEPT !.last = EndsOf(r), !.count = a.count + 1, !.matched = m]
    BY <1>2, <1>5
  <2> HIDE DEF m, b
  <2> QED
    BY <1>1, <1>2, <1>5, <2>1, <2>2
<1> HIDE DEF b
<1>8. /\ next.count = b.count /\ next.last = b.last /\ (next.matched <=> b.matched)
      /\ (next.inserted <=> b.inserted) /\ next.pos = b.pos
      /\ b.inserted => next.out = Append(b.out, r)
      /\ ~b.inserted =>
            /\ next.found <=> b.found \/ SameKey(r, new)
            /\ next.modified <=> b.modified \/ (SameKey(r, new) /\ ~Exact(r, new))
            /\ next.out = Append(b.out, IF SameKey(r, new) /\ (~Exact(r, new) \/ ~b.found)
                                        THEN new ELSE r)
  <2>0. Exact(r, new) => SameKey(r, new)
    BY DEF Exact
  <2>1. CASE Exact(r, new) /\ ~b.found /\ ~b.inserted
    <3>1. next = [b EXCEPT !.found = TRUE, !.out = Append(@, new)]
      BY <2>1 DEF LoopMatch
    <3> QED
      BY <1>2, <1>7, <2>0, <2>1, <3>1
  <2>2. CASE SameKey(r, new) /\ ~Exact(r, new) /\ ~b.inserted
    <3>1. next = [b EXCEPT !.found = TRUE, !.modified = TRUE, !.out = Append(@, new)]
      BY <2>2 DEF LoopMatch
    <3> QED
      BY <1>2, <1>7, <2>0, <2>2, <3>1
  <2>3. CASE /\ ~(Exact(r, new) /\ ~b.found /\ ~b.inserted)
             /\ ~(SameKey(r, new) /\ ~Exact(r, new) /\ ~b.inserted)
    <3>1. next = [b EXCEPT !.out = Append(@, r)]
      BY <2>3 DEF LoopMatch
    <3> QED
      BY <1>2, <1>7, <2>0, <2>3, <3>1
  <2> QED
    BY <2>1, <2>2, <2>3
<1> HIDE DEF next
<1>9. Passed(acc, next, r, new)
  BY <1>3, <1>5, <1>6, <1>8 DEF Passed
<1> QED
  BY <1>0, <1>9

\* Before the new rule has gone in, the loop replaces what is to be.
Replacing(acc, list, new, i) ==
  /\ acc.found <=> \E j \in 1 .. i : SameKey(list[j], new)
  /\ acc.modified <=> \E j \in 1 .. i : SameKey(list[j], new) /\ ~Exact(list[j], new)
  /\ Len(acc.out) = i
  /\ \A j \in 1 .. i : acc.out[j] = Replaced(list, new)[j]

\* After, the entries are where an insertion puts them.
Inserting(acc, list, new, at, i) ==
  /\ at \in 1 .. i /\ Len(acc.out) = i + 1 /\ acc.out[at] = new
  /\ \A j \in 1 .. at - 1 : acc.out[j] = list[j]
  /\ \A j \in at .. i : acc.out[j + 1] = list[j]

\* Where the loop is after some entries, when it stores.
Storing(acc, list, new, pos, i) ==
  /\ acc \in LoopState
  /\ acc.count = i + 1
  /\ acc.last = IF i = 0 THEN <<>> ELSE EndsOf(list[i])
  /\ acc.matched <=> \E j \in 1 .. i : SameKey(list[j], new)
  /\ acc.inserted <=> \E j \in Slots(list, pos) : j <= i
  /\ ~acc.inserted => acc.pos = (IF pos # 0 /\ pos <= i THEN i + 1 ELSE pos)
  /\ acc.inserted => acc.pos < acc.count
  /\ ~acc.inserted => Replacing(acc, list, new, i)
  /\ acc.inserted /\ ~acc.matched => Inserting(acc, list, new, Slot(list, pos), i)

\* The entries that putting a rule in place replaces.
LEMMA ReplacedIs ==
  ASSUME NEW list \in Seq(Rule), NEW new \in Rule
  PROVE  /\ Replaced(list, new) \in Seq(Rule) /\ Len(Replaced(list, new)) = Len(list)
         /\ \A j \in 1 .. Len(list) :
              Replaced(list, new)[j] =
                IF /\ SameKey(list[j], new)
                   /\ ~Exact(list[j], new) \/ ~\E k \in 1 .. j - 1 : SameKey(list[k], new)
                THEN new ELSE list[j]
<1> DEFINE out == Replaced(list, new)
<1>1. DOMAIN list = 1 .. Len(list) /\ Len(list) \in Nat /\ \A j \in 1 .. Len(list) : list[j] \in Rule
  OBVIOUS
<1>2. out = [j \in 1 .. Len(list) |->
               IF \/ j \in Differs(list, new)
                  \/ j \in Stored(list, new) /\ \A k \in Stored(list, new) : j <= k
               THEN new ELSE list[j]]
  BY <1>1 DEF Replaced
<1> HIDE DEF out
<1>3. \A j \in 1 .. Len(list) : out[j] \in Rule
  BY <1>1, <1>2
<1>4. out = [j \in 1 .. Len(list) |-> out[j]]
  BY <1>2
<1>5. out \in Seq(Rule) /\ Len(out) = Len(list)
  BY <1>1, <1>3, <1>4
<1>6. ASSUME NEW j \in 1 .. Len(list)
      PROVE  out[j] = IF /\ SameKey(list[j], new)
                         /\ ~Exact(list[j], new) \/ ~\E k \in 1 .. j - 1 : SameKey(list[k], new)
                      THEN new ELSE list[j]
  <2>1. \A k : k \in Stored(list, new) <=> k \in 1 .. Len(list) /\ SameKey(list[k], new)
    BY <1>1 DEF Stored
  <2>2. j \in Differs(list, new) <=> SameKey(list[j], new) /\ ~Exact(list[j], new)
    BY <1>1 DEF Stored, Differs
  <2>3. (\A k \in Stored(list, new) : j <= k) <=> ~\E k \in 1 .. j - 1 : SameKey(list[k], new)
    BY <1>1, <2>1
  <2>4. out[j] = IF \/ j \in Differs(list, new)
                    \/ j \in Stored(list, new) /\ \A k \in Stored(list, new) : j <= k
                 THEN new ELSE list[j]
    BY <1>2
  <2>5. SameKey(list[j], new) <=> j \in Stored(list, new)
    BY <2>1
  <2> QED
    BY <2>2, <2>3, <2>4, <2>5
<1> QED
  BY <1>5, <1>6 DEF out

\* An entry goes with the one before it when the loop says so.
LEMMA SlidesIs ==
  ASSUME NEW list \in Seq(Rule), NEW i \in 1 .. Len(list), NEW acc,
         acc.last = IF i - 1 = 0 THEN <<>> ELSE EndsOf(list[i - 1])
  PROVE  Slides(acc, list[i]) <=> Glued(list, i)
<1>1. CASE i = 1
  <2>1. acc.last = <<>>
    BY <1>1
  <2> QED
    BY <1>1, <2>1 DEF Slides, Glued
<1>2. CASE i # 1
  <2>1. i > 1 /\ acc.last = EndsOf(list[i - 1])
    BY <1>2
  <2>2. \A r : (EndsOf(r) # <<>> <=> IsApp(r)) /\ (IsApp(r) => EndsOf(r) = <<Ends[r.of]>>)
    BY DEF EndsOf
  <2>3. \A x, y : <<x>> = <<y>> <=> x = y
    OBVIOUS
  <2> QED
    BY <2>1, <2>2, <2>3 DEF Slides, Glued
<1> QED
  BY <1>1, <1>2

\* The loop that stores does at the i-th entry what SetRule says of it.
LEMMA StoringNext ==
  ASSUME NEW list \in Seq(Rule), NEW new \in Rule, NEW pos \in 0 .. Len(list),
         NEW i \in 1 .. Len(list), NEW acc, Storing(acc, list, new, pos, i - 1)
  PROVE  Storing(LoopNext(new, FALSE, acc, list[i]), list, new, pos, i)
<1> DEFINE r == list[i]
           next == LoopNext(new, FALSE, acc, r)
           at == Slot(list, pos)
           put == Replaced(list, new)
<1>1. /\ Len(list) \in Nat /\ i \in Nat /\ pos \in Nat /\ r \in Rule /\ acc \in LoopState
      /\ (i - 1) + 1 = i /\ i # 0 /\ i - 1 \in Nat
  BY DEF Storing
<1>2. /\ acc.count = i /\ acc.last = (IF i - 1 = 0 THEN <<>> ELSE EndsOf(list[i - 1]))
      /\ acc.matched <=> \E j \in 1 .. i - 1 : SameKey(list[j], new)
      /\ acc.inserted <=> \E j \in Slots(list, pos) : j <= i - 1
      /\ ~acc.inserted => acc.pos = (IF pos # 0 /\ pos <= i - 1 THEN i ELSE pos)
      /\ acc.inserted => acc.pos < acc.count
      /\ ~acc.inserted => Replacing(acc, list, new, i - 1)
      /\ acc.inserted /\ ~acc.matched => Inserting(acc, list, new, at, i - 1)
  BY <1>1 DEF Storing
<1>3. next \in LoopState
  BY <1>1, LoopTyped
<1>4. Passed(acc, next, r, new)
  BY <1>1, LoopPasses
<1>5. Slides(acc, r) <=> Glued(list, i)
  BY <1>2, SlidesIs
<1>6. \A j : j \in Slots(list, pos) <=> pos # 0 /\ j \in pos .. Len(list) /\ ~Glued(list, j)
  BY DEF Slots
<1> HIDE DEF next, r, at, put
<1>7. next.count = i + 1 /\ next.last = EndsOf(list[i])
  BY <1>2, <1>4 DEF Passed, r
<1>8. next.matched <=> \E j \in 1 .. i : SameKey(list[j], new)
  <2>1. next.matched <=> acc.matched \/ SameKey(list[i], new)
    BY <1>4 DEF Passed, r
  <2>2. \A j : j \in 1 .. i <=> j \in 1 .. i - 1 \/ j = i
    BY <1>1
  <2> QED
    BY <1>2, <2>1, <2>2
<1>9. (acc.count = acc.pos /\ ~Slides(acc, r)) <=> ~acc.inserted /\ i \in Slots(list, pos)
  <2>1. CASE acc.inserted
    BY <1>2, <2>1
  <2>2. CASE ~acc.inserted
    <3>1. acc.pos = (IF pos # 0 /\ pos <= i - 1 THEN i ELSE pos) /\ acc.count = i
      BY <1>2, <2>2
    <3>2. acc.count = acc.pos <=> pos # 0 /\ pos <= i
      BY <1>1, <3>1
    <3>3. i \in pos .. Len(list) <=> pos <= i
      BY <1>1
    <3> QED
      BY <1>5, <1>6, <2>2, <3>2, <3>3
  <2> QED
    BY <2>1, <2>2
<1>10. next.inserted <=> \E j \in Slots(list, pos) : j <= i
  <2>1. \A j \in Slots(list, pos) : j <= i <=> j <= i - 1 \/ j = i
    BY <1>1, <1>6
  <2>2. next.inserted <=> acc.inserted \/ i \in Slots(list, pos)
    <3>1. CASE acc.count = acc.pos /\ ~Slides(acc, r)
      BY <1>4, <1>9, <3>1 DEF Passed
    <3>2. CASE ~(acc.count = acc.pos /\ ~Slides(acc, r))
      <4>1. next.inserted <=> acc.inserted
        BY <1>4, <3>2 DEF Passed
      <4> QED
        BY <1>9, <3>2, <4>1
    <3> QED
      BY <3>1, <3>2
  <2>3. i \in Slots(list, pos) <=> \E j \in Slots(list, pos) : j = i
    OBVIOUS
  <2> QED
    BY <1>2, <2>1, <2>2, <2>3
<1>11. ASSUME ~next.inserted
       PROVE  /\ next.pos = (IF pos # 0 /\ pos <= i THEN i + 1 ELSE pos)
              /\ Replacing(next, list, new, i)
  <2>1. ~acc.inserted /\ ~(acc.count = acc.pos /\ ~Slides(acc, r)) /\ i \notin Slots(list, pos)
    <3>1. i \notin Slots(list, pos)
      BY <1>1, <1>10, <1>11
    <3>2. ~\E j \in Slots(list, pos) : j <= i - 1
      BY <1>1, <1>6, <1>10, <1>11
    <3> QED
      BY <1>2, <1>9, <3>1, <3>2
  <2>2. /\ next.pos = IF acc.count = acc.pos THEN acc.pos + 1 ELSE acc.pos
        /\ next.found <=> acc.found \/ SameKey(r, new)
        /\ next.modified <=> acc.modified \/ (SameKey(r, new) /\ ~Exact(r, new))
        /\ next.out = Append(acc.out, IF SameKey(r, new) /\ (~Exact(r, new) \/ ~acc.found)
                                      THEN new ELSE r)
    BY <1>4, <2>1 DEF Passed
  <2>3. next.pos = (IF pos # 0 /\ pos <= i THEN i + 1 ELSE pos)
    BY <1>1, <1>2, <2>1, <2>2
  <2>4. /\ acc.found <=> \E j \in 1 .. i - 1 : SameKey(list[j], new)
        /\ acc.modified <=> \E j \in 1 .. i - 1 : SameKey(list[j], new) /\ ~Exact(list[j], new)
        /\ Len(acc.out) = i - 1
        /\ \A j \in 1 .. i - 1 : acc.out[j] = put[j]
    BY <1>2, <2>1 DEF Replacing, put
  <2>5. \A j : j \in 1 .. i <=> j \in 1 .. i - 1 \/ j = i
    BY <1>1
  <2>6. next.found <=> \E j \in 1 .. i : SameKey(list[j], new)
    BY <2>2, <2>4, <2>5 DEF r
  <2>7. next.modified <=> \E j \in 1 .. i : SameKey(list[j], new) /\ ~Exact(list[j], new)
    BY <2>2, <2>4, <2>5 DEF r
  <2> DEFINE x == IF SameKey(r, new) /\ (~Exact(r, new) \/ ~acc.found) THEN new ELSE r
  <2>8. put[i] = x
    <3>1. put[i] = IF /\ SameKey(list[i], new)
                      /\ ~Exact(list[i], new) \/ ~\E k \in 1 .. i - 1 : SameKey(list[k], new)
                   THEN new ELSE list[i]
      BY ReplacedIs DEF put
    <3> QED
      BY <2>4, <3>1 DEF r
  <2>9. acc.out \in Seq(Rule) /\ x \in Rule
    BY <1>1 DEF LoopState
  <2>10. next.out = Append(acc.out, x)
    BY <2>2
  <2> HIDE DEF x
  <2>11. Len(next.out) = i /\ \A j \in 1 .. i : next.out[j] = put[j]
    BY <1>1, <2>4, <2>5, <2>8, <2>9, <2>10
  <2> QED
    BY <2>3, <2>6, <2>7, <2>11 DEF Replacing, put
<1>12. ASSUME next.inserted
       PROVE  next.pos < next.count
  <2>1. CASE acc.count = acc.pos /\ ~Slides(acc, r)
    BY <1>1, <1>2, <1>4, <1>7, <2>1 DEF Passed
  <2>2. CASE ~(acc.count = acc.pos /\ ~Slides(acc, r))
    <3>1. acc.inserted /\ next.pos = IF acc.count = acc.pos THEN acc.pos + 1 ELSE acc.pos
      BY <1>4, <1>12, <2>2 DEF Passed
    <3>2. acc.pos < acc.count /\ acc.pos \in Nat
      BY <1>1, <1>2, <3>1 DEF LoopState
    <3> QED
      BY <1>1, <1>2, <1>7, <3>1, <3>2
  <2> QED
    BY <2>1, <2>2
<1>13. ASSUME next.inserted, ~next.matched
       PROVE  Inserting(next, list, new, at, i)
  <2>0. ~acc.matched /\ ~SameKey(r, new) /\ acc.out \in Seq(Rule)
    BY <1>1, <1>4, <1>13 DEF Passed, LoopState
  <2>1. CASE acc.inserted
    <3>1. next.out = Append(acc.out, r)
      BY <1>4, <1>9, <2>1 DEF Passed
    <3>2. /\ at \in 1 .. i - 1 /\ Len(acc.out) = (i - 1) + 1 /\ acc.out[at] = new
          /\ \A j \in 1 .. at - 1 : acc.out[j] = list[j]
          /\ \A j \in at .. i - 1 : acc.out[j + 1] = list[j]
      BY <1>2, <2>0, <2>1 DEF Inserting
    <3>3. Len(next.out) = i + 1 /\ next.out[i + 1] = r /\ \A j \in 1 .. i : next.out[j] = acc.out[j]
      <4> DEFINE y == acc.out
      <4>1. y \in Seq(Rule) /\ Len(y) = i /\ next.out = Append(y, r)
        BY <1>1, <2>0, <3>1, <3>2
      <4> HIDE DEF y
      <4>2. Len(next.out) = i + 1 /\ next.out[i + 1] = r /\ \A j \in 1 .. i : next.out[j] = y[j]
        BY <1>1, <4>1
      <4> QED
        BY <4>2 DEF y
    <3>4. at \in 1 .. i /\ next.out[at] = new
      BY <1>1, <3>2, <3>3
    <3>5. \A j \in 1 .. at - 1 : next.out[j] = list[j]
      BY <1>1, <3>2, <3>3
    <3>6. \A j \in at .. i : next.out[j + 1] = list[j]
      <4> SUFFICES ASSUME NEW j \in at .. i PROVE next.out[j + 1] = list[j]
        OBVIOUS
      <4>1. CASE j = i
        BY <3>3, <4>1 DEF r
      <4>2. CASE j # i
        <5>1. j \in at .. i - 1 /\ j + 1 \in 1 .. i
          BY <1>1, <3>2, <4>2
        <5> QED
          BY <3>2, <3>3, <5>1
      <4> QED
        BY <4>1, <4>2
    <3> QED
      BY <3>3, <3>4, <3>5, <3>6 DEF Inserting
  <2>2. CASE ~acc.inserted
    <3>1. acc.count = acc.pos /\ ~Slides(acc, r) /\ i \in Slots(list, pos)
      <4>1. acc.count = acc.pos /\ ~Slides(acc, r)
        BY <1>4, <1>13, <2>2 DEF Passed
      <4> QED
        BY <1>9, <4>1
    <3>2. next.out = Append(Append(acc.out, new), r)
      BY <1>4, <3>1 DEF Passed
    <3>3. Len(acc.out) = i - 1 /\ \A j \in 1 .. i - 1 : acc.out[j] = list[j]
      <4>1. Len(acc.out) = i - 1 /\ \A j \in 1 .. i - 1 : acc.out[j] = put[j]
        BY <1>2, <2>2 DEF Replacing, put
      <4>2. \A j \in 1 .. i - 1 : ~SameKey(list[j], new) /\ j \in 1 .. Len(list)
        BY <1>1, <1>2, <2>0
      <4>3. \A j \in 1 .. i - 1 : put[j] = list[j]
        BY <4>2, ReplacedIs DEF put
      <4> QED
        BY <4>1, <4>3
    <3>4. at = i
      <4>1. \A j \in Slots(list, pos) : ~(j <= i - 1) /\ j \in Int
        BY <1>1, <1>2, <1>6, <2>2
      <4>2. at \in Slots(list, pos) /\ at <= i
        BY <1>1, <3>1, SlotExists DEF at
      <4> QED
        BY <1>1, <4>1, <4>2
    <3>5. /\ Len(next.out) = i + 1 /\ next.out[i] = new /\ next.out[i + 1] = r
          /\ \A j \in 1 .. i - 1 : next.out[j] = acc.out[j]
      <4> DEFINE y == Append(acc.out, new)
      <4>1. /\ y \in Seq(Rule) /\ Len(y) = i /\ y[i] = new
            /\ \A j \in 1 .. i - 1 : y[j] = acc.out[j]
        BY <1>1, <2>0, <3>3
      <4>2. next.out = Append(y, r)
        BY <3>2
      <4> HIDE DEF y
      <4>3. Len(next.out) = i + 1 /\ next.out[i + 1] = r /\ \A j \in 1 .. i : next.out[j] = y[j]
        BY <1>1, <4>1, <4>2
      <4> QED
        BY <1>1, <4>1, <4>3
    <3>6. \A j \in i .. i : next.out[j + 1] = list[j]
      BY <1>1, <3>5 DEF r
    <3> QED
      BY <1>1, <3>3, <3>4, <3>5, <3>6 DEF Inserting
  <2> QED
    BY <2>1, <2>2
<1>14. Storing(next, list, new, pos, i)
  BY <1>1, <1>3, <1>7, <1>8, <1>10, <1>11, <1>12, <1>13 DEF Storing, at
<1> QED
  BY <1>14 DEF next, r

\* Storing a rule in one pass is what SetRule says.
LEMMA LoopStores ==
  ASSUME NEW list \in Seq(Rule), NEW new \in Rule, NEW pos \in 0 .. Len(list)
  PROVE  Loop(list, new, pos, FALSE) = SetRule(list, new, pos, FALSE)
<1> DEFINE n == Len(list)
           end == FoldLeft(LAMBDA acc, r : LoopNext(new, FALSE, acc, r), LoopStart(pos), list)
           put == Replaced(list, new)
<1>1. n \in Nat /\ pos \in Nat /\ FALSE \in BOOLEAN
  OBVIOUS
<1>2. PICK t \in [0 .. n -> LoopState] :
        /\ t[0] = LoopStart(pos)
        /\ \A i \in 1 .. n : t[i] = LoopNext(new, FALSE, t[i - 1], list[i])
        /\ end = t[n]
  BY <1>1, LoopTrace
<1>3. t[0] = LoopStart(pos)
  BY <1>2, Zenon
<1>4. \A i \in 1 .. n : t[i] = LoopNext(new, FALSE, t[i - 1], list[i])
  BY <1>2, Zenon
<1>5. end = t[n]
  BY <1>2, Zenon
<1>6. Loop(list, new, pos, FALSE) = LoopOutcome(list, new, FALSE, end)
  BY DEF Loop
<1> HIDE DEF n, end, put
<1> DEFINE U == {i \in 0 .. n : ~Storing(t[i], list, new, pos, i)}
<1>7. U = {}
  <2> SUFFICES ASSUME U # {} PROVE FALSE
    OBVIOUS
  <2>1. PICK i \in U : \A k \in U : i <= k
    <3>1. U \in SUBSET Nat
      BY <1>1
    <3> HIDE DEF U
    <3> QED
      BY <3>1, Smallest
  <2>2. i \in 0 .. n /\ ~Storing(t[i], list, new, pos, i)
    OBVIOUS
  <2>3. i # 0
    <3>1. t[0] \in LoopState
      BY <1>1
    <3>2. /\ t[0].out = <<>> /\ ~t[0].found /\ ~t[0].modified /\ ~t[0].inserted /\ ~t[0].matched
          /\ t[0].pos = pos /\ t[0].count = 1 /\ t[0].last = <<>>
      BY <1>3 DEF LoopStart
    <3>3. 1 .. 0 = {} /\ ~\E j \in Slots(list, pos) : j <= 0
      BY <1>1 DEF Slots
    <3>4. Len(t[0].out) = 0
      BY <3>2
    <3>5. Replacing(t[0], list, new, 0)
      BY <3>2, <3>3, <3>4 DEF Replacing
    <3>6. t[0].pos = (IF pos # 0 /\ pos <= 0 THEN 0 + 1 ELSE pos) /\ t[0].count = 0 + 1
      BY <1>1, <3>2
    <3>7. Storing(t[0], list, new, pos, 0)
      BY <3>1, <3>2, <3>3, <3>5, <3>6 DEF Storing
    <3> QED
      BY <2>2, <3>7
  <2>4. i \in 1 .. n /\ i - 1 \in 0 .. n /\ ~(i <= i - 1)
    BY <1>1, <2>2, <2>3
  <2>5. Storing(t[i - 1], list, new, pos, i - 1)
    BY <2>1, <2>4
  <2>6. t[i] = LoopNext(new, FALSE, t[i - 1], list[i]) /\ i \in 1 .. Len(list)
    BY <1>4, <2>4 DEF n
  <2>7. Storing(t[i], list, new, pos, i)
    <3> HIDE DEF U
    <3> QED
      BY <2>5, <2>6, StoringNext
  <2> QED
    BY <2>2, <2>7
<1>8. Storing(end, list, new, pos, n)
  <2>1. n \in 0 .. n
    BY <1>1
  <2> QED
    BY <1>5, <1>7, <2>1
<1> HIDE DEF U
<1>9. /\ end \in LoopState
      /\ end.matched <=> Stored(list, new) # {}
      /\ end.inserted <=> Slots(list, pos) # {}
  <2>1. \A j : j \in Stored(list, new) <=> j \in 1 .. n /\ SameKey(list[j], new)
    BY DEF Stored, n
  <2>2. \A j \in Slots(list, pos) : j <= n
    BY <1>1 DEF Slots, n
  <2> QED
    BY <1>8, <2>1, <2>2 DEF Storing
<1>10. CASE Slots(list, pos) # {} /\ Stored(list, new) # {}
  <2>1. Loop(list, new, pos, FALSE) = [list |-> list, did |-> "skipped"]
    BY <1>6, <1>9, <1>10 DEF LoopOutcome
  <2>2. SetRule(list, new, pos, FALSE) = [list |-> list, did |-> "skipped"]
    BY <1>10 DEF SetRule, Insert
  <2> QED
    BY <2>1, <2>2
<1>11. CASE Slots(list, pos) # {} /\ Stored(list, new) = {}
  <2> DEFINE at == Slot(list, pos)
             in == InsertAt(list, at, new)
  <2>1. Loop(list, new, pos, FALSE) = [list |-> end.out, did |-> "inserted"]
    BY <1>6, <1>9, <1>11 DEF LoopOutcome
  <2>2. SetRule(list, new, pos, FALSE) = [list |-> in, did |-> "inserted"]
    BY <1>11 DEF SetRule, Insert
  <2>3. Inserting(end, list, new, at, n)
    BY <1>8, <1>9, <1>11 DEF Storing
  <2> HIDE DEF at
  <2>4. /\ at \in 1 .. n /\ Len(end.out) = n + 1 /\ end.out[at] = new
        /\ \A j \in 1 .. at - 1 : end.out[j] = list[j]
        /\ \A j \in at .. n : end.out[j + 1] = list[j]
    BY <2>3 DEF Inserting
  <2>5. /\ in \in Seq(Rule) /\ Len(in) = n + 1 /\ in[at] = new
        /\ \A j \in 1 .. at - 1 : in[j] = list[j]
        /\ \A j \in at .. n : in[j + 1] = list[j]
    <3>1. at \in 1 .. Len(list)
      BY <2>4 DEF n
    <3>2. /\ InsertAt(list, at, new) \in Seq(Rule)
          /\ Len(InsertAt(list, at, new)) = Len(list) + 1
          /\ InsertAt(list, at, new)[at] = new
          /\ \A j \in 1 .. at - 1 : InsertAt(list, at, new)[j] = list[j]
          /\ \A j \in at .. Len(list) : InsertAt(list, at, new)[j + 1] = list[j]
      BY <3>1, Inserted
    <3> QED
      BY <3>2 DEF in, n
  <2> HIDE DEF in
  <2>6. \A k \in 1 .. n + 1 : end.out[k] = in[k]
    <3> SUFFICES ASSUME NEW k \in 1 .. n + 1 PROVE end.out[k] = in[k]
      OBVIOUS
    <3>1. CASE k < at
      BY <1>1, <2>4, <2>5, <3>1
    <3>2. CASE k = at
      BY <2>4, <2>5, <3>2
    <3>3. CASE k > at
      <4>1. k - 1 \in at .. n /\ (k - 1) + 1 = k
        BY <1>1, <2>4, <3>3
      <4>2. end.out[(k - 1) + 1] = list[k - 1] /\ in[(k - 1) + 1] = list[k - 1]
        BY <2>4, <2>5, <4>1
      <4> QED
        BY <4>1, <4>2
    <3> QED
      BY <1>1, <2>4, <3>1, <3>2, <3>3
  <2>7. end.out \in Seq(Rule)
    BY <1>9 DEF LoopState
  <2>8. end.out = in
    BY <2>4, <2>5, <2>6, <2>7, SeqEqual
  <2> QED
    BY <2>1, <2>2, <2>8
<1>12. CASE Slots(list, pos) = {}
  <2>1. /\ end.found <=> \E j \in 1 .. n : SameKey(list[j], new)
        /\ end.modified <=> \E j \in 1 .. n : SameKey(list[j], new) /\ ~Exact(list[j], new)
        /\ Len(end.out) = n
        /\ \A j \in 1 .. n : end.out[j] = put[j]
    BY <1>8, <1>9, <1>12 DEF Storing, Replacing, put
  <2>2. end.found <=> Stored(list, new) # {}
    BY <2>1 DEF Stored, n
  <2>3. end.modified <=> Differs(list, new) # {}
    BY <2>1 DEF Differs, Stored, n
  <2>4. end.out \in Seq(Rule)
    BY <1>9 DEF LoopState
  <2>5. put \in Seq(Rule) /\ Len(put) = n
    BY ReplacedIs DEF put, n
  <2>6. end.out = put
    BY <2>1, <2>4, <2>5, SeqEqual
  <2>7. SetRule(list, new, pos, FALSE) = Put(list, new)
    BY <1>12 DEF SetRule
  <2>8. CASE Stored(list, new) = {}
    <3>1. put = list
      <4>1. \A j \in 1 .. n : ~SameKey(list[j], new)
        BY <2>8 DEF Stored, n
      <4>2. \A j \in 1 .. n : put[j] = list[j]
        BY <4>1, ReplacedIs DEF put, n
      <4> QED
        BY <2>5, <4>2, SeqEqual DEF n
    <3>2. Loop(list, new, pos, FALSE) = [list |-> Append(end.out, new), did |-> "added"]
      BY <1>6, <1>9, <1>12, <2>2, <2>8 DEF LoopOutcome
    <3>3. Put(list, new) = [list |-> Append(list, new), did |-> "added"]
      BY <2>8 DEF Put
    <3> QED
      BY <2>6, <2>7, <3>1, <3>2, <3>3
  <2>9. CASE Stored(list, new) # {} /\ Differs(list, new) = {}
    <3>1. Loop(list, new, pos, FALSE) = [list |-> list, did |-> "skipped"]
      BY <1>6, <1>9, <1>12, <2>2, <2>3, <2>9 DEF LoopOutcome
    <3>2. Put(list, new) = [list |-> list, did |-> "skipped"]
      BY <2>9 DEF Put
    <3> QED
      BY <2>7, <3>1, <3>2
  <2>10. CASE Stored(list, new) # {} /\ Differs(list, new) # {}
    <3>1. Loop(list, new, pos, FALSE) = [list |-> end.out, did |-> "updated"]
      BY <1>6, <1>9, <1>12, <2>2, <2>3, <2>10 DEF LoopOutcome
    <3>2. Put(list, new) = [list |-> put, did |-> "updated"]
      BY <2>10 DEF Put, put
    <3> QED
      BY <2>6, <2>7, <3>1, <3>2
  <2> QED
    BY <2>8, <2>9, <2>10
<1> QED
  BY <1>10, <1>11, <1>12

\* What a pass of the loop that deletes does at an entry: it drops the first
\* match, and each one with another comment when none is given.
Dropped(acc, next, r, new) ==
  LET other == Commented(r, new) /\ new.note = NoNote
      drops == (Exact(r, new) /\ ~acc.found) \/ other
  IN /\ next.count = acc.count + 1 /\ next.pos = acc.pos /\ ~next.inserted
     /\ next.found <=> acc.found \/ Exact(r, new) \/ other
     /\ next.out = IF drops THEN acc.out ELSE Append(acc.out, r)

\* So the loop that deletes passes an entry.
LEMMA LoopDrops ==
  ASSUME NEW acc \in LoopState, NEW r \in Rule, NEW new \in Rule,
         acc.pos = 0, acc.count > 0, ~acc.inserted
  PROVE  Dropped(acc, LoopNext(new, TRUE, acc, r), r, new)
<1> DEFINE m == acc.matched \/ SameKey(r, new)
           b == [acc EXCEPT !.last = EndsOf(r), !.count = @ + 1, !.matched = @ \/ SameKey(r, new)]
           next == LoopMatch(b, r, new, TRUE)
           L == {EndsOf(x) : x \in Rule} \cup {<<>>}
<1>1. EndsOf(r) \in L
  OBVIOUS
<1> HIDE DEF L
<1>2. LoopState = [out : Seq(Rule), found : BOOLEAN, modified : BOOLEAN, inserted : BOOLEAN,
                   matched : BOOLEAN, pos : Nat, count : Nat, last : L]
  BY DEF LoopState, L
<1>3. next = LoopNext(new, TRUE, acc, r)
  <2>1. acc.count # acc.pos
    BY <1>2
  <2>2. AtPosition(acc, r, new) = acc
    BY <2>1 DEF AtPosition
  <2> QED
    BY <2>2 DEF LoopNext
<1>4. /\ b.count = acc.count + 1 /\ b.pos = acc.pos /\ (b.found <=> acc.found)
      /\ b.out = acc.out /\ ~b.inserted
  BY <1>2
<1>5. b \in LoopState
  <2>1. m \in BOOLEAN /\ acc.count + 1 \in Nat
    BY <1>2
  <2>2. b = [acc EXCEPT !.last = EndsOf(r), !.count = acc.count + 1, !.matched = m]
    BY <1>2
  <2> HIDE DEF m, b
  <2> QED
    BY <1>1, <1>2, <2>1, <2>2
<1> HIDE DEF b
<1>6. ~(Exact(r, new) /\ Commented(r, new))
  BY DEF Exact, Commented
<1> SUFFICES Dropped(acc, next, r, new)
  BY <1>3
<1>7. CASE Exact(r, new) /\ ~b.found
  <2>1. next = [b EXCEPT !.found = TRUE]
    <3>1. next = [b EXCEPT !.found = TRUE, !.out = b.out]
      BY <1>4, <1>7 DEF LoopMatch
    <3> QED
      BY <1>2, <1>5, <3>1
  <2> HIDE DEF next
  <2> QED
    BY <1>2, <1>4, <1>5, <1>6, <1>7, <2>1 DEF Dropped
<1>8. CASE Commented(r, new) /\ new.note = NoNote
  <2>1. next = [b EXCEPT !.found = TRUE]
    BY <1>6, <1>8 DEF LoopMatch
  <2> HIDE DEF next
  <2> QED
    BY <1>2, <1>4, <1>5, <1>6, <1>8, <2>1 DEF Dropped
<1>9. CASE ~(Exact(r, new) /\ ~b.found) /\ ~(Commented(r, new) /\ new.note = NoNote)
  <2>1. next = [b EXCEPT !.out = Append(@, r)]
    BY <1>9 DEF LoopMatch
  <2> HIDE DEF next
  <2> QED
    BY <1>2, <1>4, <1>5, <1>9, <2>1 DEF Dropped
<1> HIDE DEF next
<1> QED
  BY <1>7, <1>8, <1>9

\* The entries that a deletion matches, and those of them it takes.
Hits(list, new) ==
  {i \in DOMAIN list : new.note = NoNote /\ Commented(list[i], new)} \cup
  {i \in DOMAIN list : Exact(list[i], new)}

\* Those that a deletion takes.
Gone(list, new) ==
  {i \in DOMAIN list : new.note = NoNote /\ Commented(list[i], new)} \cup
  {i \in {i \in DOMAIN list : Exact(list[i], new)} : \A j \in Hits(list, new) : i <= j}

\* These are the entries that Take removes, all of them and no others.
LEMMA TakeGone ==
  ASSUME NEW list \in Seq(Rule), NEW new
  PROVE  /\ Take(list, new) = IF Gone(list, new) = {} THEN [list |-> list, did |-> "notFound"]
                              ELSE [list |-> Without(list, Gone(list, new)), did |-> "deleted"]
         /\ Gone(list, new) = {} <=> Hits(list, new) = {}
<1>1. Take(list, new) = IF Gone(list, new) = {} THEN [list |-> list, did |-> "notFound"]
                        ELSE [list |-> Without(list, Gone(list, new)), did |-> "deleted"]
  BY DEF Take, Gone, Hits
<1>2. Gone(list, new) \subseteq Hits(list, new)
  BY DEF Gone, Hits
<1>3. ASSUME Hits(list, new) # {} PROVE Gone(list, new) # {}
  <2>1. Hits(list, new) \in SUBSET Nat
    BY DEF Hits
  <2>2. PICK i \in Hits(list, new) : \A j \in Hits(list, new) : i <= j
    BY <1>3, <2>1, Smallest
  <2>3. i \in Gone(list, new)
    BY <2>2 DEF Gone, Hits
  <2> QED
    BY <2>3
<1> QED
  BY <1>1, <1>2, <1>3

\* What is left of the first entries of a list.
Left(q, out, list, gone, i) ==
  /\ q \in [1 .. Len(out) -> 1 .. i]
  /\ \A k \in 1 .. Len(out) : q[k] \notin gone /\ out[k] = list[q[k]]
  /\ \A k, l \in 1 .. Len(out) : k < l => q[k] < q[l]
  /\ \A j \in 1 .. i : j \notin gone => \E k \in 1 .. Len(out) : q[k] = j

\* One more entry that stays is left in its place in the order.
LEMMA LeftKept ==
  ASSUME NEW S, NEW list \in Seq(S), NEW out \in Seq(S), NEW gone, NEW i \in 1 .. Len(list), NEW q,
         Left(q, out, list, gone, i - 1), i \notin gone
  PROVE  \E p : Left(p, Append(out, list[i]), list, gone, i)
<1> DEFINE n == Len(out)
           r == list[i]
           new == Append(out, r)
           p == [k \in 1 .. n + 1 |-> IF k = n + 1 THEN i ELSE q[k]]
<1>1. n \in Nat /\ i \in Nat /\ n + 1 \in 1 .. n + 1 /\ r \in S /\ i \in 1 .. i /\ i - 1 \in Nat
  OBVIOUS
<1> HIDE DEF r
<1>2. Len(new) = n + 1 /\ new[n + 1] = r /\ \A k \in 1 .. n : new[k] = out[k]
  BY <1>1
<1>3. /\ \A k \in 1 .. n : q[k] \in 1 .. i - 1 /\ q[k] \notin gone /\ out[k] = list[q[k]]
      /\ \A k, l \in 1 .. n : k < l => q[k] < q[l]
      /\ \A j \in 1 .. i - 1 : j \notin gone => \E k \in 1 .. n : q[k] = j
  BY DEF Left
<1>4. \A k \in 1 .. n + 1 : k = n + 1 \/ k \in 1 .. n
  BY <1>1
<1>5. /\ p[n + 1] = i /\ \A k \in 1 .. n : p[k] = q[k]
      /\ p = [k \in 1 .. n + 1 |-> p[k]]
  BY <1>1
<1> HIDE DEF p, new, n
<1>6. \A k \in 1 .. n + 1 : p[k] \in 1 .. i /\ p[k] \notin gone /\ new[k] = list[p[k]]
  <2> SUFFICES ASSUME NEW k \in 1 .. n + 1
               PROVE  p[k] \in 1 .. i /\ p[k] \notin gone /\ new[k] = list[p[k]]
    OBVIOUS
  <2>1. CASE k = n + 1
    BY <1>1, <1>2, <1>5, <2>1 DEF r
  <2>2. CASE k \in 1 .. n
    <3>1. p[k] = q[k] /\ new[k] = out[k] /\ q[k] \in 1 .. i - 1
      BY <1>2, <1>3, <1>5, <2>2
    <3>2. q[k] \in 1 .. i
      BY <1>1, <3>1
    <3> QED
      BY <1>3, <2>2, <3>1, <3>2
  <2> QED
    BY <1>4, <2>1, <2>2
<1>7. \A k, l \in 1 .. n + 1 : k < l => p[k] < p[l]
  <2> SUFFICES ASSUME NEW k \in 1 .. n + 1, NEW l \in 1 .. n + 1, k < l
               PROVE  p[k] < p[l]
    OBVIOUS
  <2>1. k \in 1 .. n
    BY <1>1
  <2>2. CASE l = n + 1
    <3>1. p[k] = q[k] /\ p[l] = i /\ q[k] \in 1 .. i - 1
      BY <1>3, <1>5, <2>1, <2>2
    <3> QED
      BY <1>1, <3>1
  <2>3. CASE l \in 1 .. n
    BY <1>3, <1>5, <2>1, <2>3
  <2> QED
    BY <1>4, <2>2, <2>3
<1>8. \A j \in 1 .. i : j \notin gone => \E k \in 1 .. n + 1 : p[k] = j
  <2> SUFFICES ASSUME NEW j \in 1 .. i, j \notin gone PROVE \E k \in 1 .. n + 1 : p[k] = j
    OBVIOUS
  <2>1. CASE j = i
    BY <1>1, <1>5, <2>1
  <2>2. CASE j # i
    <3>1. j \in 1 .. i - 1
      BY <1>1, <2>2
    <3>2. PICK k \in 1 .. n : q[k] = j
      BY <1>3, <3>1
    <3>3. k \in 1 .. n + 1
      BY <1>1
    <3> QED
      BY <1>5, <3>2, <3>3
  <2> QED
    BY <2>1, <2>2
<1>9. p \in [1 .. n + 1 -> 1 .. i]
  BY <1>5, <1>6
<1>10. Left(p, new, list, gone, i)
  BY <1>2, <1>6, <1>7, <1>8, <1>9 DEF Left
<1> QED
  BY <1>10 DEF new, r

\* Where the loop is after some entries, when it deletes.
Dropping(acc, list, new, i) ==
  /\ acc \in LoopState /\ acc.count = i + 1 /\ acc.pos = 0 /\ ~acc.inserted
  /\ acc.found <=> \E j \in 1 .. i : j \in Hits(list, new)
  /\ \E q : Left(q, acc.out, list, Gone(list, new), i)

\* The loop that deletes does at the i-th entry what SetRule says of it.
LEMMA DroppingNext ==
  ASSUME NEW list \in Seq(Rule), NEW new \in Rule, NEW i \in 1 .. Len(list), NEW acc,
         Dropping(acc, list, new, i - 1)
  PROVE  Dropping(LoopNext(new, TRUE, acc, list[i]), list, new, i)
<1> DEFINE r == list[i]
           next == LoopNext(new, TRUE, acc, r)
           other == Commented(r, new) /\ new.note = NoNote
           drops == (Exact(r, new) /\ ~acc.found) \/ other
           gone == Gone(list, new)
<1>1. /\ Len(list) \in Nat /\ i \in Nat /\ r \in Rule /\ (i - 1) + 1 = i /\ i - 1 \in Nat
      /\ DOMAIN list = 1 .. Len(list) /\ TRUE \in BOOLEAN
  OBVIOUS
<1>2. /\ acc \in LoopState /\ acc.count = i /\ acc.pos = 0 /\ ~acc.inserted
      /\ acc.found <=> \E j \in 1 .. i - 1 : j \in Hits(list, new)
  BY <1>1 DEF Dropping
<1>3. PICK q : Left(q, acc.out, list, gone, i - 1)
  BY DEF Dropping
<1>4. next \in LoopState
  BY <1>1, <1>2, LoopTyped
<1>5. Dropped(acc, next, r, new)
  <2>1. acc.count > 0
    BY <1>1, <1>2
  <2> QED
    BY <1>1, <1>2, <2>1, LoopDrops
<1> HIDE DEF next
<1>6. /\ next.count = i + 1 /\ next.pos = 0 /\ ~next.inserted
      /\ next.found <=> acc.found \/ Exact(r, new) \/ other
      /\ next.out = IF drops THEN acc.out ELSE Append(acc.out, r)
  BY <1>2, <1>5 DEF Dropped
<1>7. i \in Hits(list, new) <=> Exact(r, new) \/ other
  BY <1>1 DEF Hits
<1>8. next.found <=> \E j \in 1 .. i : j \in Hits(list, new)
  <2>1. \A j : j \in 1 .. i <=> j \in 1 .. i - 1 \/ j = i
    BY <1>1
  <2> HIDE DEF r, other
  <2> QED
    BY <1>2, <1>6, <1>7, <2>1
<1>9. i \in gone <=> drops
  <2>1. i \in gone <=> other \/ (Exact(r, new) /\ \A j \in Hits(list, new) : i <= j)
    BY <1>1 DEF Gone
  <2>2. \A j \in Hits(list, new) : j \in Nat
    BY <1>1 DEF Hits
  <2>3. \A j \in Nat : i <= j \/ j \in 0 .. i - 1
    BY <1>1
  <2>4. 0 \notin Hits(list, new)
    BY <1>1 DEF Hits
  <2>5. \A j \in 1 .. i - 1 : ~(i <= j)
    BY <1>1
  <2>6. (\A j \in Hits(list, new) : i <= j) <=> ~\E j \in 1 .. i - 1 : j \in Hits(list, new)
    <3>1. \A j \in 0 .. i - 1 : j = 0 \/ j \in 1 .. i - 1
      BY <1>1
    <3> QED
      BY <2>2, <2>3, <2>4, <2>5, <3>1
  <2> HIDE DEF r, other, gone
  <2> QED
    BY <1>2, <2>1, <2>6
<1>10. \E p : Left(p, next.out, list, gone, i)
  <2>1. CASE i \in gone
    <3>1. next.out = acc.out
      BY <1>6, <1>9, <2>1
    <3>2. \A k : k \in 1 .. i - 1 => k \in 1 .. i
      BY <1>1
    <3>3. \A k \in 1 .. i : k \in 1 .. i - 1 \/ k = i
      BY <1>1
    <3> HIDE DEF gone
    <3>4. q \in [1 .. Len(acc.out) -> 1 .. i]
      BY <1>3, <3>2 DEF Left
    <3>5. \A j \in 1 .. i : j \notin gone => \E k \in 1 .. Len(acc.out) : q[k] = j
      BY <1>3, <2>1, <3>3 DEF Left
    <3>6. Left(q, acc.out, list, gone, i)
      BY <1>3, <3>4, <3>5 DEF Left
    <3> QED
      BY <3>1, <3>6
  <2>2. CASE i \notin gone
    <3>1. next.out = Append(acc.out, r)
      BY <1>6, <1>9, <2>2
    <3>2. acc.out \in Seq(Rule)
      BY <1>2 DEF LoopState
    <3> HIDE DEF gone
    <3>3. \E p : Left(p, Append(acc.out, list[i]), list, gone, i)
      BY <1>3, <2>2, <3>2, LeftKept
    <3> QED
      BY <3>1, <3>3
  <2> QED
    BY <2>1, <2>2
<1>11. Dropping(next, list, new, i)
  BY <1>4, <1>6, <1>8, <1>10 DEF Dropping
<1> QED
  BY <1>11 DEF next

\* Deleting a rule in one pass is what SetRule says.
LEMMA LoopTakes ==
  ASSUME NEW list \in Seq(Rule), NEW new \in Rule
  PROVE  Loop(list, new, 0, TRUE) = SetRule(list, new, 0, TRUE)
<1> DEFINE n == Len(list)
           end == FoldLeft(LAMBDA acc, r : LoopNext(new, TRUE, acc, r), LoopStart(0), list)
           gone == Gone(list, new)
<1>1. n \in Nat /\ 0 \in Nat /\ TRUE \in BOOLEAN
  OBVIOUS
<1>2. PICK t \in [0 .. n -> LoopState] :
        /\ t[0] = LoopStart(0)
        /\ \A i \in 1 .. n : t[i] = LoopNext(new, TRUE, t[i - 1], list[i])
        /\ end = t[n]
  BY <1>1, LoopTrace
<1>3. t[0] = LoopStart(0)
  BY <1>2, Zenon
<1>4. \A i \in 1 .. n : t[i] = LoopNext(new, TRUE, t[i - 1], list[i])
  BY <1>2, Zenon
<1>5. end = t[n]
  BY <1>2, Zenon
<1>6. Loop(list, new, 0, TRUE) = LoopOutcome(list, new, TRUE, end)
  BY DEF Loop
<1> HIDE DEF n, end, gone
<1> DEFINE U == {i \in 0 .. n : ~Dropping(t[i], list, new, i)}
<1>7. U = {}
  <2> SUFFICES ASSUME U # {} PROVE FALSE
    OBVIOUS
  <2>1. PICK i \in U : \A k \in U : i <= k
    <3>1. U \in SUBSET Nat
      BY <1>1
    <3> HIDE DEF U
    <3> QED
      BY <3>1, Smallest
  <2>2. i \in 0 .. n /\ ~Dropping(t[i], list, new, i)
    OBVIOUS
  <2>3. i # 0
    <3>1. t[0] \in LoopState
      BY <1>1
    <3>2. /\ t[0].out = <<>> /\ ~t[0].found /\ ~t[0].inserted /\ t[0].pos = 0 /\ t[0].count = 1
      BY <1>3 DEF LoopStart
    <3>3. 1 .. 0 = {} /\ Len(t[0].out) = 0 /\ t[0].count = 0 + 1
      BY <3>2
    <3>4. <<>> \in [1 .. 0 -> 1 .. 0]
      BY <3>3
    <3>5. Left(<<>>, t[0].out, list, Gone(list, new), 0)
      BY <3>3, <3>4 DEF Left
    <3>6. Dropping(t[0], list, new, 0)
      BY <3>1, <3>2, <3>3, <3>5 DEF Dropping
    <3> QED
      BY <2>2, <3>6
  <2>4. i \in 1 .. n /\ i - 1 \in 0 .. n /\ ~(i <= i - 1)
    BY <1>1, <2>2, <2>3
  <2>5. Dropping(t[i - 1], list, new, i - 1)
    BY <2>1, <2>4
  <2>6. t[i] = LoopNext(new, TRUE, t[i - 1], list[i]) /\ i \in 1 .. Len(list)
    BY <1>4, <2>4 DEF n
  <2>7. Dropping(t[i], list, new, i)
    <3> HIDE DEF U
    <3> QED
      BY <2>5, <2>6, DroppingNext
  <2> QED
    BY <2>2, <2>7
<1>8. Dropping(end, list, new, n)
  <2>1. n \in 0 .. n
    BY <1>1
  <2> QED
    BY <1>5, <1>7, <2>1
<1> HIDE DEF U
<1>9. /\ end \in LoopState /\ ~end.inserted
      /\ end.found <=> gone # {}
  <2>1. \A j \in Hits(list, new) : j \in 1 .. n
    BY DEF Hits, n
  <2>2. end.found <=> Hits(list, new) # {}
    BY <1>8, <2>1 DEF Dropping
  <2> QED
    BY <1>8, <2>2, TakeGone DEF Dropping, gone
<1>10. end.out = Without(list, gone)
  <2>1. PICK q : Left(q, end.out, list, gone, n)
    BY <1>8 DEF Dropping, gone
  <2>2. Picks(q, end.out, list, gone)
    BY <2>1 DEF Left, Picks, n
  <2>3. end.out \in Seq(Rule)
    BY <1>9 DEF LoopState
  <2> DEFINE w == Without(list, gone)
  <2>4. w \in Seq(Rule) /\ \E p : Picks(p, w, list, gone)
    BY WithoutIs
  <2> HIDE DEF w
  <2>5. end.out = w
    BY <2>2, <2>3, <2>4, SamePicks
  <2> QED
    BY <2>5 DEF w
<1>11. SetRule(list, new, 0, TRUE) = Take(list, new)
  BY DEF SetRule
<1>12. CASE gone = {}
  <2>1. Loop(list, new, 0, TRUE) = [list |-> list, did |-> "notFound"]
    BY <1>6, <1>9, <1>12 DEF LoopOutcome
  <2> QED
    BY <1>11, <1>12, <2>1, TakeGone DEF gone
<1>13. CASE gone # {}
  <2>1. Loop(list, new, 0, TRUE) = [list |-> end.out, did |-> "deleted"]
    BY <1>6, <1>9, <1>13 DEF LoopOutcome
  <2>2. Take(list, new) = [list |-> Without(list, gone), did |-> "deleted"]
    BY <1>13, TakeGone DEF gone
  <2> QED
    BY <1>10, <1>11, <2>1, <2>2
<1> QED
  BY <1>12, <1>13

\* The one pass that setRuleEngine makes, with its sliding position and its
\* flags, computes what SetRule defines, for every list, rule and position.
THEOREM LoopIsSetRule == Spec => []LoopAgrees
<1>1. TypeOK => LoopAgrees
  <2> SUFFICES ASSUME TypeOK, NEW c \in Commands, NEW list \in {rules4, rules6}
               PROVE  LET new == RuleOf(c, c.item) IN
                      /\ Loop(list, new, 0, TRUE) = SetRule(list, new, 0, TRUE)
                      /\ \A pos \in 0 .. Len(list) :
                           Loop(list, new, pos, FALSE) = SetRule(list, new, pos, FALSE)
    BY DEF LoopAgrees
  <2>1. list \in Seq(Rule)
    BY DEF TypeOK
  <2>2. RuleOf(c, c.item) \in Rule
    <3>1. c.item \in Items
      BY CommandsAssumption DEF CommandsAssumption
    <3> QED
      BY <3>1, RuleOfType
  <2> QED
    BY <2>1, <2>2, LoopTakes, LoopStores
<1> QED
  BY <1>1, RulesTyped, PTL

\* No application rule is in the list.
Plain(list) == \A i \in 1 .. Len(list) : ~IsApp(list[i])

\* Without application rules every rule is shown.
LEMMA PlainShown ==
  ASSUME NEW list \in Seq(Rule), Plain(list)
  PROVE  Shown(list) = 1 .. Len(list) /\ Deduped(list) = Len(list)
<1>1. Shown(list) = 1 .. Len(list)
  BY DEF Shown, Plain
<1>2. Len(list) \in Nat
  OBVIOUS
<1> DEFINE n == Len(list)
<1> HIDE DEF n
<1>3. Cardinality(1 .. n) = IF 1 > n THEN 0 ELSE n - 1 + 1
  BY <1>2, FS_Interval DEF n
<1>4. Cardinality(1 .. n) = n
  BY <1>2, <1>3 DEF n
<1> QED
  BY <1>1, <1>4 DEF Deduped, n

\* Inserting a new rule into such a list puts it where it was asked for.
LEMMA PlainInsert ==
  ASSUME NEW list \in Seq(Rule), Plain(list), NEW new \in Rule, NEW pos \in 1 .. Len(list),
         \A i \in 1 .. Len(list) : ~SameKey(list[i], new)
  PROVE  ApplyHalf(list, new, pos, FALSE) = [list |-> InsertAt(list, pos, new), did |-> "inserted"]
<1>1. pos \in Nat /\ Len(list) \in Nat /\ pos # 0 /\ pos \in 0 .. Len(list)
  OBVIOUS
<1>2. Slots(list, pos) = pos .. Len(list)
  BY <1>1 DEF Slots, Glued, Plain
<1>3. Slots(list, pos) # {}
  BY <1>1, <1>2
<1>4. Slot(list, pos) = pos
  <2>1. Slot(list, pos) \in pos .. Len(list) /\ \A i \in pos .. Len(list) : Slot(list, pos) <= i
    BY <1>1, <1>2, <1>3, SlotExists
  <2>2. pos \in pos .. Len(list)
    BY <1>1
  <2>3. Slot(list, pos) <= pos
    BY <2>1, <2>2
  <2> QED
    BY <1>1, <2>1, <2>3
<1>5. Stored(list, new) = {}
  BY DEF Stored
<1>6. SetRule(list, new, pos, FALSE) = Insert(list, new, pos)
  BY <1>3 DEF SetRule
<1>7. ApplyHalf(list, new, pos, FALSE) = SetRule(list, new, pos, FALSE)
  BY <1>1 DEF ApplyHalf
<1> QED
  BY <1>4, <1>5, <1>6, <1>7 DEF Insert

\* Storing one there, at any place, makes the list longer by one.
LEMMA PlainStored ==
  ASSUME NEW list \in Seq(Rule), Plain(list), NEW new \in Rule, ~IsApp(new),
         NEW pos \in 0 .. Len(list), \A i \in 1 .. Len(list) : ~SameKey(list[i], new)
  PROVE  LET half == ApplyHalf(list, new, pos, FALSE) IN
         /\ half.did # "error" /\ half.list \in Seq(Rule) /\ Plain(half.list)
         /\ Len(half.list) = Len(list) + 1
<1>1. Len(list) \in Nat /\ pos \in Nat
  OBVIOUS
<1>2. CASE pos = 0
  <2>1. Slots(list, pos) = {} /\ Stored(list, new) = {}
    BY <1>2 DEF Slots, Stored
  <2>2. ApplyHalf(list, new, pos, FALSE) = SetRule(list, new, pos, FALSE)
    BY <1>1 DEF ApplyHalf
  <2>3. SetRule(list, new, pos, FALSE) = Put(list, new)
    BY <2>1 DEF SetRule
  <2>4. Put(list, new) = [list |-> Append(list, new), did |-> "added"]
    BY <2>1 DEF Put
  <2> DEFINE out == Append(list, new)
  <2>5. /\ out \in Seq(Rule) /\ Len(out) = Len(list) + 1
        /\ \A i \in 1 .. Len(list) : out[i] = list[i]
        /\ out[Len(list) + 1] = new
    OBVIOUS
  <2>6. ApplyHalf(list, new, pos, FALSE) = [list |-> out, did |-> "added"]
    BY <2>2, <2>3, <2>4
  <2>7. \A i \in 1 .. Len(list) + 1 : i \in 1 .. Len(list) \/ i = Len(list) + 1
    BY <1>1
  <2> HIDE DEF out
  <2>8. Plain(out)
    BY <2>5, <2>7 DEF Plain
  <2> DEFINE half == ApplyHalf(list, new, pos, FALSE)
  <2>81. half = [list |-> out, did |-> "added"]
    BY <2>6, Zenon
  <2> HIDE DEF half
  <2>9. half.list = out /\ half.did # "error"
    BY <2>81
  <2>10. half.list \in Seq(Rule) /\ Plain(half.list) /\ Len(half.list) = Len(list) + 1
    BY <2>5, <2>8, <2>9
  <2> QED
    BY <2>9, <2>10 DEF half
<1>3. CASE pos # 0
  <2>1. pos \in 1 .. Len(list)
    BY <1>1, <1>3
  <2> DEFINE out == InsertAt(list, pos, new)
  <2>2. ApplyHalf(list, new, pos, FALSE) = [list |-> out, did |-> "inserted"]
    BY <2>1, PlainInsert
  <2>3. /\ out \in Seq(Rule) /\ Len(out) = Len(list) + 1 /\ out[pos] = new
        /\ \A i \in 1 .. pos - 1 : out[i] = list[i]
        /\ \A i \in pos .. Len(list) : out[i + 1] = list[i]
    BY <2>1, Inserted
  <2> HIDE DEF out
  <2>4. Plain(out)
    <3> SUFFICES ASSUME NEW k \in 1 .. Len(list) + 1 PROVE ~IsApp(out[k])
      BY <2>3 DEF Plain
    <3>1. CASE k < pos
      <4>1. k \in 1 .. pos - 1 /\ k \in 1 .. Len(list)
        BY <1>1, <2>1, <3>1
      <4> QED
        BY <2>3, <4>1 DEF Plain
    <3>2. CASE k = pos
      BY <2>3, <3>2
    <3>3. CASE k > pos
      <4>1. k - 1 \in pos .. Len(list) /\ k - 1 \in 1 .. Len(list) /\ (k - 1) + 1 = k
        BY <1>1, <2>1, <3>3
      <4>2. out[(k - 1) + 1] = list[k - 1]
        BY <2>3, <4>1
      <4> QED
        BY <4>1, <4>2 DEF Plain
    <3> QED
      BY <1>1, <2>1, <3>1, <3>2, <3>3
  <2> DEFINE half == ApplyHalf(list, new, pos, FALSE)
  <2>81. half = [list |-> out, did |-> "inserted"]
    BY <2>2, Zenon
  <2> HIDE DEF half
  <2>9. half.list = out /\ half.did # "error"
    BY <2>81
  <2>10. half.list \in Seq(Rule) /\ Plain(half.list) /\ Len(half.list) = Len(list) + 1
    BY <2>3, <2>4, <2>9
  <2> QED
    BY <2>9, <2>10 DEF half
<1> QED
  BY <1>2, <1>3

\* The place of a twin is one in the other list.
LEMMA OtherPositionIs ==
  ASSUME NEW list, NEW other \in Seq(Rule), NEW position
  PROVE  OtherPosition(list, other, position) \in 0 .. Len(other)
<1> DEFINE index == position + Cardinality((1 .. position) \ Shown(list))
           twins == {i \in DOMAIN other : Exact(other[i], list[index])}
<1>1. DOMAIN other = 1 .. Len(other) /\ Len(other) \in Nat
  OBVIOUS
<1>2. OtherPosition(list, other, position) =
        IF position \notin DOMAIN list \/ index > Len(list) \/ twins = {} THEN 0 ELSE Min(twins)
  BY DEF OtherPosition
<1>3. twins \subseteq 1 .. Len(other)
  BY <1>1
<1> HIDE DEF index, twins
<1>4. ASSUME twins # {} PROVE Min(twins) \in twins
  <2>1. twins \in SUBSET Nat
    BY <1>1, <1>3
  <2>2. \E m \in twins : \A k \in twins : m <= k
    BY <1>4, <2>1, Smallest
  <2> QED
    BY <2>2 DEF Min
<1>5. 0 \in 0 .. Len(other) /\ 1 .. Len(other) \subseteq 0 .. Len(other)
  BY <1>1
<1> QED
  BY <1>2, <1>3, <1>4, <1>5

\* A command of one rule.
LEMMA EditedOnce ==
  ASSUME TypeOK, NEW c \in Commands, Expanded(c) = <<RuleOf(c, c.item)>>
  PROVE  Edited(c) = ApplyNext(c, Deduped(rules6), Start, 1)
<1>1. Len(Expanded(c)) = 1
  OBVIOUS
<1> DEFINE n6 == Deduped(rules6)
<1> HIDE DEF n6
<1>2. PICK t \in [0 .. 1 -> Edit] :
        /\ t[0] = Start
        /\ \A i \in 1 .. 1 : t[i] = ApplyNext(c, n6, t[i - 1], i)
        /\ Edited(c) = t[1]
  BY <1>1, EditTrace DEF n6
<1>3. t[1] = ApplyNext(c, n6, t[1 - 1], 1)
  BY <1>2
<1>4. t[1 - 1] = Start
  BY <1>2
<1> QED
  BY <1>2, <1>3, <1>4 DEF n6

\* While no application rule is stored, a new rule is inserted where its number
\* says, in the family in which that lies.
LEMMA InsertsThere ==
  ASSUME TypeOK, NEW c \in Commands, c.num > 0, App[c.of] = NoApp, Edited(c).ok,
         Plain(rules4), Plain(rules6),
         \A i \in 1 .. Len(rules4) : ~SameKey(rules4[i], RuleOf(c, c.item)),
         \A i \in 1 .. Len(rules6) : ~SameKey(rules6[i], RuleOf(c, c.item))
  PROVE  /\ c.num <= Len(rules4) =>
              Edited(c).r4 = InsertAt(rules4, c.num, RuleOf(c, c.item))
         /\ c.num > Len(rules4) =>
              Edited(c).r6 = InsertAt(rules6, c.num - Len(rules4), RuleOf(c, c.item))
<1> DEFINE new == RuleOf(c, c.item)
           num == c.num
           n4 == Len(rules4)
           n6 == Len(rules6)
           done == Edited(c)
<1>1. /\ c.kind = "insert" /\ c.fam \in {"v4", "v6", "both"} /\ num \in Nat /\ num > 0
      /\ c.item \in Items /\ num # -1
  BY CommandsAssumption DEF CommandsAssumption
<1>2. /\ rules4 \in Seq(Rule) /\ rules6 \in Seq(Rule) /\ n4 \in Nat /\ n6 \in Nat
      /\ Deduped(rules4) = n4 /\ Deduped(rules6) = n6
  BY PlainShown DEF TypeOK
<1>3. new \in Rule /\ ~IsApp(new)
  <2>1. new.of = c.of
    BY DEF RuleOf
  <2> QED
    BY <1>1, <2>1, RuleOfType DEF IsApp
<1>4. Expanded(c) = <<new>>
  BY DEF Expanded
<1>5. done = ApplyNext(c, n6, Start, 1) /\ Expanded(c)[1] = new
  BY <1>2, <1>4, EditedOnce
<1>6. /\ Start.r4 = rules4 /\ Start.r6 = rules6 /\ Start.n4 = n4 /\ Start.ok = TRUE
      /\ Start \in Edit
  BY <1>2, StartType DEF Start
<1>7. done.ok
  OBVIOUS
<1>8. /\ \A i \in 1 .. n4 : ~SameKey(rules4[i], new)
      /\ \A i \in 1 .. n6 : ~SameKey(rules6[i], new)
  OBVIOUS
<1> SUFFICES /\ num <= n4 => done.r4 = InsertAt(rules4, num, new)
             /\ num > n4 => done.r6 = InsertAt(rules6, num - n4, new)
  OBVIOUS
<1> HIDE DEF new, num, n4, n6, done
<1>9. num <= n4 + n6
  <2> SUFFICES ASSUME num > n4 + n6 PROVE FALSE
    BY <1>1, <1>2
  <2>1. done = [Start EXCEPT !.ok = FALSE]
    BY <1>1, <1>5, <1>6 DEF ApplyNext, num
  <2>2. done.ok = FALSE
    BY <1>6, <2>1 DEF Edit
  <2> QED
    BY <1>7, <2>2
<1>10. done = CASE c.fam = "both" -> ApplyDual(Start, new, num, 1 - 1, n6, FALSE)
                [] c.fam = "v4" ->
                     WithV4(Start, ApplyHalf(rules4, new, V4Position(num, 1 - 1, n4), FALSE))
                [] c.fam = "v6" ->
                     WithV6(Start, ApplyHalf(rules6, new, V6Position(num, 1 - 1, n4, n6), FALSE))
  <2>1. ~(~Start.ok \/ num > Start.n4 + n6)
    BY <1>1, <1>2, <1>6, <1>9
  <2>2. (IF c.kind = "prepend" THEN -1 ELSE c.num) = num /\ (c.kind = "delete") = FALSE
    BY <1>1 DEF num
  <2> QED
    BY <1>5, <1>6, <2>1, <2>2 DEF ApplyNext
<1>11. ASSUME num <= n4
       PROVE  ApplyHalf(rules4, new, num, FALSE) =
                [list |-> InsertAt(rules4, num, new), did |-> "inserted"]
  <2>1. num \in 1 .. Len(rules4)
    BY <1>1, <1>2, <1>11 DEF n4
  <2> QED
    BY <1>2, <1>3, <1>8, <2>1, PlainInsert DEF n4
<1>12. ASSUME num > n4
       PROVE  /\ num - n4 \in 1 .. Len(rules6)
              /\ ApplyHalf(rules6, new, num - n4, FALSE) =
                   [list |-> InsertAt(rules6, num - n4, new), did |-> "inserted"]
  <2>1. num - n4 \in 1 .. Len(rules6)
    BY <1>1, <1>2, <1>9, <1>12 DEF n6
  <2> DEFINE p == num - n4
  <2>2. p \in 1 .. Len(rules6)
    BY <2>1
  <2> HIDE DEF p
  <2>3. ApplyHalf(rules6, new, p, FALSE) =
          [list |-> InsertAt(rules6, p, new), did |-> "inserted"]
    BY <1>2, <1>3, <1>8, <2>2, PlainInsert DEF n6
  <2> QED
    BY <2>1, <2>3 DEF p
<1>13. \A half : half.did = "error" => ~WithV4(Start, half).ok /\ ~WithV6(Start, half).ok
  BY <1>6 DEF WithV4, WithV6, Edit
<1>14. \A half : half.did # "error" =>
         /\ WithV4(Start, half).r4 = half.list /\ WithV4(Start, half).r6 = rules6
         /\ WithV4(Start, half).ok = TRUE /\ WithV6(Start, half).r6 = half.list
  BY <1>6 DEF WithV4, WithV6, Edit
<1>15. CASE c.fam = "v4"
  <2>1. done = WithV4(Start, ApplyHalf(rules4, new, V4Position(num, 1 - 1, n4), FALSE))
    BY <1>10, <1>15
  <2>2. num <= n4
    <3> SUFFICES ASSUME num > n4 PROVE FALSE
      BY <1>1, <1>2
    <3>1. V4Position(num, 1 - 1, n4) = -1
      BY <1>1 DEF V4Position
    <3>2. ApplyHalf(rules4, new, -1, FALSE).did = "error"
      BY DEF ApplyHalf, Failed
    <3> QED
      BY <1>7, <1>13, <2>1, <3>1, <3>2
  <2>3. V4Position(num, 1 - 1, n4) = num
    BY <1>1, <1>2, <2>2 DEF V4Position
  <2>4. done = WithV4(Start, [list |-> InsertAt(rules4, num, new), did |-> "inserted"])
    BY <1>11, <2>1, <2>2, <2>3
  <2>5. done.r4 = InsertAt(rules4, num, new)
    BY <1>14, <2>4
  <2> QED
    BY <1>1, <1>2, <2>2, <2>5
<1>16. CASE c.fam = "v6"
  <2>1. done = WithV6(Start, ApplyHalf(rules6, new, V6Position(num, 1 - 1, n4, n6), FALSE))
    BY <1>10, <1>16
  <2>2. num > n4
    <3> SUFFICES ASSUME num <= n4 PROVE FALSE
      BY <1>1, <1>2
    <3>1. V6Position(num, 1 - 1, n4, n6) = -1
      BY <1>1, <1>2 DEF V6Position
    <3>2. ApplyHalf(rules6, new, -1, FALSE).did = "error"
      BY DEF ApplyHalf, Failed
    <3> QED
      BY <1>7, <1>13, <2>1, <3>1, <3>2
  <2>3. V6Position(num, 1 - 1, n4, n6) = num - n4
    BY <1>1, <1>2, <2>2 DEF V6Position
  <2>4. done = WithV6(Start, [list |-> InsertAt(rules6, num - n4, new), did |-> "inserted"])
    BY <1>12, <2>1, <2>2, <2>3
  <2>5. done.r6 = InsertAt(rules6, num - n4, new)
    BY <1>14, <2>4
  <2> QED
    BY <1>1, <1>2, <2>2, <2>5
<1>17. CASE c.fam = "both"
  <2> DEFINE pos4 == DualV4Position(Start, num, 0, FALSE)
             half == ApplyHalf(rules4, new, pos4, FALSE)
             mid == WithV4(Start, half)
             next == [mid EXCEPT !.n4 = Deduped(mid.r4)]
             pos6 == DualV6Position(next, num, num + 1, 0, n6, FALSE)
             half6 == ApplyHalf(next.r6, new, pos6, FALSE)
  <2>1. done = ApplyDual(Start, new, num, 0, n6, FALSE)
    <3>1. 1 - 1 = 0
      OBVIOUS
    <3> QED
      BY <1>10, <1>17, <3>1
  <2>2. done = IF mid.ok THEN WithV6(next, half6) ELSE mid
    <3>1. num > 0 /\ Start.r4 = rules4
      BY <1>1, <1>6
    <3> QED
      BY <2>1, <3>1 DEF ApplyDual
  <2> HIDE DEF pos4, half, half6, pos6
  <2>3. half.did # "error" /\ mid.ok = TRUE
    <3>1. mid.ok
      <4> HIDE DEF mid, next
      <4> QED
        BY <1>7, <2>2
    <3>2. half.did # "error"
      BY <1>13, <3>1
    <3> QED
      BY <1>14, <3>2
  <2>4. mid.r4 = half.list /\ mid.r6 = rules6 /\ mid = [Start EXCEPT !.r4 = half.list]
    BY <1>14, <2>3 DEF WithV4
  <2>5. /\ next.r4 = half.list /\ next.r6 = rules6 /\ next.n4 = Deduped(half.list)
        /\ next.ok = TRUE
    BY <1>6, <2>4 DEF Edit
  <2>6. done = WithV6(next, half6)
    <3> HIDE DEF mid, next
    <3> QED
      BY <2>2, <2>3
  <2>7. done.r4 = half.list /\ (half6.did # "error" => done.r6 = half6.list)
    <3>1. DOMAIN next = {"r4", "r6", "n4", "ok"}
      BY <1>6, <2>4 DEF Edit
    <3> HIDE DEF next
    <3> QED
      BY <2>5, <2>6, <3>1 DEF WithV6
  <2> HIDE DEF mid, next
  <2>8. CASE num <= n4
    <3>1. pos4 = num
      BY <1>1, <1>2, <1>6, <2>8 DEF DualV4Position, pos4
    <3>2. half = [list |-> InsertAt(rules4, num, new), did |-> "inserted"]
      BY <1>11, <2>8, <3>1 DEF half
    <3>3. half.list = InsertAt(rules4, num, new)
      BY <3>2
    <3> QED
      BY <1>1, <1>2, <2>7, <2>8, <3>3
  <2>9. CASE num > n4
    <3>1. pos4 = OtherPosition(rules6, rules4, num - n4 + 0)
      BY <1>1, <1>2, <1>6, <2>9 DEF DualV4Position, pos4
    <3>2. pos4 \in 0 .. Len(rules4)
      BY <1>2, <3>1, OtherPositionIs
    <3>3. half.list \in Seq(Rule) /\ Plain(half.list) /\ Len(half.list) = n4 + 1
      BY <1>2, <1>3, <1>8, <3>2, PlainStored DEF half, n4
    <3>4. next.n4 = n4 + 1
      BY <2>5, <3>3, PlainShown
    <3>5. pos6 = num - n4
      <4> DEFINE near == CASE num = -1 -> IF 0 = 0 /\ n6 = 0 THEN 0 ELSE 1
                           [] ~FALSE /\ num + 1 \in 1 .. next.n4 /\ num # -1 ->
                                IF OtherPosition(next.r4, next.r6, num + 1) > 0
                                THEN OtherPosition(next.r4, next.r6, num + 1) - 0 ELSE 0
                           [] OTHER -> num + 1
      <4>1. near = num + 1
        <5>1. num # -1 /\ num + 1 \notin 1 .. next.n4
          BY <1>1, <1>2, <2>9, <3>4
        <5> QED
          BY <5>1
      <4>2. pos6 = IF ~FALSE /\ near > next.n4 /\ num # -1 THEN near - next.n4 ELSE near
        BY DEF pos6, DualV6Position
      <4> HIDE DEF near
      <4> QED
        BY <1>1, <1>2, <2>9, <3>4, <4>1, <4>2
    <3>6. half6 = [list |-> InsertAt(rules6, num - n4, new), did |-> "inserted"]
      BY <1>12, <2>5, <2>9, <3>5 DEF half6
    <3>7. half6.list = InsertAt(rules6, num - n4, new) /\ half6.did # "error"
      BY <3>6
    <3> QED
      BY <1>1, <1>2, <2>7, <2>9, <3>7
  <2> QED
    BY <1>1, <1>2, <2>8, <2>9
<1> QED
  BY <1>1, <1>15, <1>16, <1>17

\* An insertion goes where it is asked for, whatever is stored in the other
\* family.
THEOREM InsertsThereAlways == Spec => []InsertsWhereAsked
<1>1. TypeOK => InsertsWhereAsked
  <2> SUFFICES ASSUME TypeOK, NEW done \in Done, done.cmd.num > 0, App[done.cmd.of] = NoApp,
                      \A r \in Range(rules4 \o rules6) : ~IsApp(r) /\ ~Names(done.cmd, r)
               PROVE  LET c == done.cmd
                          new == RuleOf(c, c.item)
                      IN /\ c.num <= Len(rules4) => done.edit.r4 = InsertAt(rules4, c.num, new)
                         /\ c.num > Len(rules4) =>
                              done.edit.r6 = InsertAt(rules6, c.num - Len(rules4), new)
    BY DEF InsertsWhereAsked
  <2>1. PICK c \in Commands : done = [cmd |-> c, edit |-> Edited(c)]
    BY DEF Done
  <2>2. done.cmd = c /\ done.edit = Edited(c) /\ Edited(c).ok
    <3>1. done.edit.ok
      BY DEF Done
    <3> QED
      BY <2>1, <3>1
  <2>3. rules4 \in Seq(Rule) /\ rules6 \in Seq(Rule)
    BY DEF TypeOK
  <2>4. \A i \in 1 .. Len(rules4) : rules4[i] \in Range(rules4 \o rules6)
    <3> SUFFICES ASSUME NEW i \in 1 .. Len(rules4) PROVE rules4[i] \in Range(rules4 \o rules6)
      OBVIOUS
    <3>1. i \in DOMAIN (rules4 \o rules6) /\ (rules4 \o rules6)[i] = rules4[i]
      BY <2>3
    <3> QED
      BY <3>1 DEF Range
  <2>5. \A i \in 1 .. Len(rules6) : rules6[i] \in Range(rules4 \o rules6)
    <3> SUFFICES ASSUME NEW i \in 1 .. Len(rules6) PROVE rules6[i] \in Range(rules4 \o rules6)
      OBVIOUS
    <3> DEFINE k == Len(rules4) + i
    <3>1. k \in DOMAIN (rules4 \o rules6) /\ (rules4 \o rules6)[k] = rules6[i]
      BY <2>3
    <3> HIDE DEF k
    <3> QED
      BY <3>1 DEF Range
  <2>6. \A r : ~Names(c, r) => ~SameKey(r, RuleOf(c, c.item))
    BY <2>2 DEF Names, SameKey, RuleOf
  <2>7. /\ Plain(rules4) /\ Plain(rules6)
        /\ \A i \in 1 .. Len(rules4) : ~SameKey(rules4[i], RuleOf(c, c.item))
        /\ \A i \in 1 .. Len(rules6) : ~SameKey(rules6[i], RuleOf(c, c.item))
    BY <2>2, <2>4, <2>5, <2>6 DEF Plain
  <2>8. c.num > 0 /\ App[c.of] = NoApp
    BY <2>2
  <2> QED
    BY <2>2, <2>7, <2>8, InsertsThere
<1> QED
  BY <1>1, RulesTyped, PTL

\* The rules of a template are those of g, one after the other from f on.
Settled(out, f, g, t) ==
  /\ f + Len(g) - 1 <= Len(out)
  /\ \A k \in 1 .. Len(out) : out[k].of = t <=> k \in f .. f + Len(g) - 1
  /\ \A k \in 1 .. Len(g) : out[f + k - 1] = g[k]

\* They are what is left without the others.
LEMMA SettledPicks ==
  ASSUME NEW out \in Seq(Rule), NEW g \in Seq(Rule), NEW f \in 1 .. Len(out), NEW t, NEW gone,
         Settled(out, f, g, t), \A k \in 1 .. Len(out) : k \in gone <=> out[k].of # t
  PROVE  Without(out, gone) = g
<1> DEFINE n == Len(g)
           q == [k \in 1 .. n |-> f + k - 1]
           w == Without(out, gone)
<1>1. n \in Nat /\ f \in Nat /\ Len(out) \in Nat /\ f + n - 1 <= Len(out) /\ f >= 1
  BY DEF Settled
<1>2. /\ \A k \in 1 .. Len(out) : out[k].of = t <=> k \in f .. f + n - 1
      /\ \A k \in 1 .. n : out[f + k - 1] = g[k]
  BY DEF Settled
<1> HIDE DEF n
<1>3. \A k \in 1 .. n : q[k] = f + k - 1 /\ q[k] \in 1 .. Len(out) /\ q[k] \in f .. f + n - 1
  BY <1>1
<1>4. q \in [1 .. n -> 1 .. Len(out)]
  BY <1>3
<1>5. \A j \in f .. f + n - 1 : j - f + 1 \in 1 .. n /\ q[j - f + 1] = j
  BY <1>1
<1>6. \A k, l \in 1 .. n : k < l => q[k] < q[l]
  BY <1>1
<1> HIDE DEF q
<1>7. \A k \in 1 .. n : q[k] \notin gone /\ g[k] = out[q[k]]
  BY <1>2, <1>3
<1>8. \A j \in 1 .. Len(out) : j \notin gone => \E k \in 1 .. n : q[k] = j
  BY <1>2, <1>5
<1>9. Picks(q, g, out, gone)
  BY <1>4, <1>6, <1>7, <1>8 DEF Picks, n
<1>10. w \in Seq(Rule) /\ \E p : Picks(p, w, out, gone)
  BY WithoutIs
<1> HIDE DEF w
<1>11. w = g
  BY <1>9, <1>10, SamePicks
<1> QED
  BY <1>11 DEF w

\* What replaces a group, by the items of its profile.
MadeOf(g, list, r, items) ==
  /\ g \in Seq(Rule) /\ items \in Seq(Items)
  /\ items # <<>> =>
       /\ Len(g) = Len(items)
       /\ \A i \in 1 .. Len(items) : g[i] = [r EXCEPT !.item = items[i]]
  /\ items = <<>> => g = Group(list, r)

\* That is what an update generates.
LEMMA GeneratedMade ==
  ASSUME TypeOK, NEW list \in Seq(Rule), NEW r \in Rule, NEW app \in Apps, App[r.of] = app
  PROVE  MadeOf(Generated(list, r), list, r, profile[app])
<1>1. App[r.of] \in Apps
  OBVIOUS
<1>2. MadeOf(Generated(list, r), list, r, profile[App[r.of]])
  BY <1>1, GeneratedIs DEF MadeOf
<1> QED
  BY <1>2

\* The first rule of an application in a list, and what replaces its rules.
LEMMA GeneratedGroup ==
  ASSUME TypeOK, OneTemplate, GroupsAreApps, NEW list \in Seq(Rule), NEW app \in Apps,
         NEW f \in 1 .. Len(list), App[list[f].of] = app
  PROVE  /\ Generated(list, list[f]) \in Seq(Rule) /\ Len(Generated(list, list[f])) >= 1
         /\ \A k \in 1 .. Len(Generated(list, list[f])) : Generated(list, list[f])[k].of = list[f].of
<1> DEFINE r == list[f]
           g == Generated(list, r)
           items == profile[app]
<1>0. r \in Rule /\ App[r.of] = app /\ App[r.of] \in Apps /\ r.of \in Templates /\ app # NoApp
  <2>1. r \in Rule /\ App[r.of] = app
    OBVIOUS
  <2> HIDE DEF r
  <2>2. r.of \in Templates
    BY <2>1 DEF Rule
  <2> QED
    BY <2>1, <2>2, TemplatesAssumption DEF TemplatesAssumption
<1> HIDE DEF r
<1>1. /\ g \in Seq(Rule) /\ items \in Seq(Items)
      /\ items # <<>> => Len(g) = Len(items)
      /\ items = <<>> => g = Group(list, r)
  BY <1>0, GeneratedMade DEF MadeOf
<1> HIDE DEF items
<1>2. Len(g) >= 1
  <2>1. CASE items # <<>>
    BY <1>1, <2>1
  <2>2. CASE items = <<>>
    <3>1. g = Group(list, r)
      BY <1>1, <2>2
    <3>2. IsApp(list[f]) /\ Tuple[list[f].of] = Tuple[r.of]
      BY <1>0 DEF IsApp, r
    <3>3. \E k \in 1 .. Len(Group(list, r)) : Group(list, r)[k] = list[f]
      BY <3>2, GroupIs
    <3>4. \E k \in 1 .. Len(g) : g[k] = list[f]
      BY <3>1, <3>3
    <3> HIDE DEF g
    <3> QED
      BY <1>1, <3>4
  <2> QED
    BY <2>1, <2>2
<1>3. ASSUME NEW k \in 1 .. Len(g)
      PROVE  g[k].of = r.of
  <2>1. App[g[k].of] = App[r.of]
    BY <1>0, GeneratedApp
  <2>2. g[k] \in Rule
    BY <1>1
  <2>3. g[k].of \in Templates
    BY <2>2 DEF Rule
  <2> HIDE DEF g, r
  <2> QED
    BY <1>0, <2>1, <2>3 DEF OneTemplate
<1> QED
  BY <1>1, <1>2, <1>3 DEF r

\* A group that is what it would be replaced by is generated again as it is.
LEMMA GeneratedAgain ==
  ASSUME TypeOK, OneTemplate, GroupsAreApps, NEW list \in Seq(Rule), NEW app \in Apps,
         NEW f \in 1 .. Len(list), App[list[f].of] = app,
         NEW out \in Seq(Rule), f \in 1 .. Len(out),
         Settled(out, f, Generated(list, list[f]), list[f].of)
  PROVE  out[f].of = list[f].of /\ Generated(out, out[f]) = Generated(list, list[f])
<1> DEFINE r == list[f]
           t == r.of
           g == Generated(list, r)
           items == profile[app]
           s == out[f]
           h == Generated(out, s)
<1>0. r \in Rule /\ App[r.of] = app /\ t \in Templates /\ app # NoApp /\ Len(g) >= 1 /\ g \in Seq(Rule)
  <2>1. r \in Rule /\ App[r.of] = app /\ Len(g) >= 1 /\ g \in Seq(Rule)
    BY GeneratedGroup
  <2> HIDE DEF r, g
  <2>2. r.of \in Templates
    BY <2>1 DEF Rule
  <2> QED
    BY <2>1, <2>2, TemplatesAssumption DEF TemplatesAssumption
<1>1. s \in Rule /\ s = g[1] /\ s.of = t
  <2>1. 1 \in 1 .. Len(g) /\ f + 1 - 1 = f /\ f \in f .. f + Len(g) - 1
    BY <1>0
  <2>2. out[f + 1 - 1] = g[1]
    BY <2>1 DEF Settled
  <2>3. out[f].of = t
    BY <2>1 DEF Settled
  <2> QED
    BY <2>1, <2>2, <2>3
<1> HIDE DEF r
<1>2. MadeOf(g, list, r, items)
  BY <1>0, GeneratedMade
<1> HIDE DEF t, g
<1>3. MadeOf(h, out, s, items)
  <2>1. App[s.of] = app
    BY <1>0, <1>1 DEF t
  <2> QED
    BY <1>1, <2>1, GeneratedMade
<1> HIDE DEF s, h, items
<1>4. CASE items # <<>>
  <2>1. s = [r EXCEPT !.item = items[1]]
    <3>1. 1 \in 1 .. Len(items)
      BY <1>2, <1>4 DEF MadeOf
    <3> QED
      BY <1>1, <1>2, <1>4, <3>1 DEF MadeOf
  <2>2. \A i \in 1 .. Len(items) : h[i] = g[i]
    <3> SUFFICES ASSUME NEW i \in 1 .. Len(items) PROVE h[i] = g[i]
      OBVIOUS
    <3>1. h[i] = [s EXCEPT !.item = items[i]] /\ g[i] = [r EXCEPT !.item = items[i]]
      BY <1>2, <1>3, <1>4 DEF MadeOf
    <3>2. \A x, y : [[r EXCEPT !.item = x] EXCEPT !.item = y] = [r EXCEPT !.item = y]
      BY <1>0 DEF Rule
    <3> QED
      BY <2>1, <3>1, <3>2
  <2>3. h = g
    BY <1>0, <1>2, <1>3, <1>4, <2>2, SeqEqual DEF MadeOf
  <2> QED
    BY <1>1, <2>3 DEF s, h, g, r, t
<1>5. CASE items = <<>>
  <2> DEFINE gone == {i \in DOMAIN out : ~(IsApp(out[i]) /\ Tuple[out[i].of] = Tuple[s.of])}
  <2>1. h = Without(out, gone)
    BY <1>3, <1>5 DEF Group, MadeOf
  <2>2. \A k \in 1 .. Len(out) : k \in gone <=> out[k].of # t
    <3> SUFFICES ASSUME NEW k \in 1 .. Len(out)
                 PROVE  IsApp(out[k]) /\ Tuple[out[k].of] = Tuple[s.of] <=> out[k].of = t
      OBVIOUS
    <3>1. out[k] \in Rule
      OBVIOUS
    <3>2. out[k].of \in Templates
      BY <3>1 DEF Rule
    <3>3. App[t] = app /\ s.of = t
      BY <1>0, <1>1 DEF t
    <3> QED
      BY <1>0, <3>2, <3>3 DEF IsApp, GroupsAreApps, OneTemplate
  <2>3. Settled(out, f, g, t)
    BY DEF g, t, r
  <2> HIDE DEF gone
  <2>4. Without(out, gone) = g
    BY <1>0, <2>2, <2>3, SettledPicks
  <2>5. h = g
    BY <2>1, <2>4
  <2> QED
    BY <1>1, <2>5 DEF s, h, g, r, t
<1> QED
  BY <1>4, <1>5

\* An update has replaced the group of a template once it has met its first rule.
Settling(acc, list, f, g, t, i) ==
  /\ i < f => /\ acc.last = {} /\ Len(acc.out) = i
              /\ \A k \in 1 .. i : acc.out[k] = list[k]
  /\ i >= f => acc.last = {Tuple[t]} /\ Settled(acc.out, f, g, t)

\* An update copies what comes before the group, replaces its first rule by the
\* new group and leaves the others out.
LEMMA SettlingNext ==
  ASSUME TypeOK, OneTemplate, NEW list \in Seq(Rule), NEW app \in Apps,
         NEW f \in 1 .. Len(list), App[list[f].of] = app,
         \A k \in 1 .. f - 1 : App[list[k].of] # app,
         NEW g \in Seq(Rule), g = Generated(list, list[f]), Len(g) >= 1,
         \A k \in 1 .. Len(g) : g[k].of = list[f].of,
         NEW acc \in Update, NEW i \in 1 .. Len(list),
         Settling(acc, list, f, g, list[f].of, i - 1)
  PROVE  Settling(RegenerateNext(list, app, acc, list[i]), list, f, g, list[f].of, i)
<1> DEFINE r == list[i]
           t == list[f].of
           out == acc.out
           next == RegenerateNext(list, app, acc, r)
<1>1. /\ r \in Rule /\ i \in Nat /\ f \in Nat /\ f >= 1 /\ Len(g) \in Nat /\ out \in Seq(Rule)
      /\ i - 1 \in Nat /\ Len(out) \in Nat
  BY DEF Update
<1>2. r.of \in Templates /\ t \in Templates /\ App[t] = app /\ app # NoApp
  <2>1. list[f] \in Rule
    OBVIOUS
  <2> HIDE DEF r
  <2>2. list[f].of \in Templates /\ r.of \in Templates
    BY <1>1, <2>1 DEF Rule
  <2> QED
    BY <2>2, TemplatesAssumption DEF TemplatesAssumption
<1>3. App[r.of] = app <=> r.of = t
  <2> HIDE DEF r, t
  <2> QED
    BY <1>2 DEF OneTemplate
<1> HIDE DEF r, t, out, next
<1>4. \A k \in 1 .. Len(Append(out, r)) : k = Len(out) + 1 \/ k \in 1 .. Len(out)
  BY <1>1
<1>5. /\ Len(Append(out, r)) = Len(out) + 1 /\ Append(out, r)[Len(out) + 1] = r
      /\ \A k \in 1 .. Len(out) : Append(out, r)[k] = out[k]
  BY <1>1
<1>6. ASSUME App[r.of] # app
      PROVE  next.out = Append(out, r) /\ next.last = acc.last
  <2>1. next = [acc EXCEPT !.out = Append(@, r)]
    BY <1>6 DEF RegenerateNext, next
  <2> QED
    BY <2>1 DEF Update, out
<1>7. CASE i < f
  <2>1. App[r.of] # app
    <3>1. i \in 1 .. f - 1
      BY <1>1, <1>7
    <3> QED
      BY <3>1 DEF r
  <2>2. acc.last = {} /\ Len(out) = i - 1 /\ \A k \in 1 .. i - 1 : out[k] = list[k]
    BY <1>1, <1>7 DEF Settling, out
  <2>3. Len(next.out) = i /\ \A k \in 1 .. i : next.out[k] = list[k]
    <3>1. Len(next.out) = i
      BY <1>1, <1>5, <1>6, <2>1, <2>2
    <3>2. ASSUME NEW k \in 1 .. i PROVE next.out[k] = list[k]
      <4>1. CASE k = i
        BY <1>1, <1>5, <1>6, <2>1, <2>2, <4>1 DEF r
      <4>2. CASE k # i
        <5>1. k \in 1 .. i - 1
          BY <1>1, <4>2
        <5> QED
          BY <1>5, <1>6, <2>1, <2>2, <5>1
      <4> QED
        BY <4>1, <4>2
    <3> QED
      BY <3>1, <3>2
  <2>4. ~(i >= f)
    BY <1>1, <1>7
  <2> QED
    BY <1>6, <2>1, <2>2, <2>3, <2>4 DEF Settling, next, r
<1>8. CASE i = f
  <2>1. acc.last = {} /\ Len(out) = f - 1 /\ \A k \in 1 .. f - 1 : out[k] = list[k]
    BY <1>1, <1>8 DEF Settling, out
  <2>2. App[r.of] = app /\ r.of = t /\ acc.last # {Tuple[r.of]} /\ Generated(list, r) = g
    BY <1>2, <1>8, <2>1 DEF r, t
  <2>3. next = [out |-> out \o g, last |-> {Tuple[t]}]
    BY <2>2 DEF RegenerateNext, next, out
  <2> DEFINE all == out \o g
  <2>4. /\ Len(all) = f - 1 + Len(g)
        /\ \A k \in 1 .. f - 1 : all[k] = out[k]
        /\ \A k \in 1 .. Len(g) : all[f + k - 1] = g[k]
    <3>1. Len(all) = Len(out) + Len(g)
      BY <1>1
    <3>2. \A k \in 1 .. Len(out) : all[k] = out[k]
      BY <1>1
    <3>3. \A k \in 1 .. Len(g) : all[Len(out) + k] = g[k]
      BY <1>1
    <3> HIDE DEF all
    <3>4. \A k \in 1 .. Len(g) : f + k - 1 = Len(out) + k
      BY <1>1, <2>1
    <3> QED
      BY <1>1, <2>1, <3>1, <3>2, <3>3, <3>4
  <2> HIDE DEF all
  <2>5. \A k \in 1 .. Len(all) : all[k].of = t <=> k \in f .. f + Len(g) - 1
    <3> SUFFICES ASSUME NEW k \in 1 .. Len(all)
                 PROVE  all[k].of = t <=> k \in f .. f + Len(g) - 1
      OBVIOUS
    <3>1. CASE k < f
      <4>1. k \in 1 .. f - 1
        BY <1>1, <3>1
      <4>2. all[k] = list[k] /\ App[list[k].of] # app
        BY <2>1, <2>4, <4>1
      <4>3. k \notin f .. f + Len(g) - 1
        BY <1>1, <3>1
      <4> QED
        BY <1>2, <4>2, <4>3
    <3>2. CASE ~(k < f)
      <4> DEFINE j == k - f + 1
      <4>1. j \in 1 .. Len(g) /\ f + j - 1 = k /\ k \in f .. f + Len(g) - 1
        BY <1>1, <2>4, <3>2
      <4>2. all[k] = g[j]
        <5> HIDE DEF j
        <5> QED
          BY <2>4, <4>1
      <4>3. g[j].of = t
        <5> HIDE DEF j
        <5> QED
          BY <4>1 DEF t
      <4> QED
        BY <4>1, <4>2, <4>3
    <3> QED
      BY <3>1, <3>2
  <2>6. Settled(all, f, g, t)
    <3>1. f + Len(g) - 1 <= Len(all)
      BY <1>1, <2>4
    <3> QED
      BY <2>4, <2>5, <3>1 DEF Settled
  <2>7. next.out = all /\ next.last = {Tuple[t]}
    BY <2>3 DEF all
  <2>8. ~(i < f)
    BY <1>1, <1>8
  <2> QED
    BY <2>6, <2>7, <2>8 DEF Settling, next, r, t
<1>9. CASE i > f
  <2>1. acc.last = {Tuple[t]} /\ Settled(out, f, g, t)
    <3>1. i - 1 >= f
      BY <1>1, <1>9
    <3> QED
      BY <3>1 DEF Settling, out, t
  <2>2. ~(i < f)
    BY <1>1, <1>9
  <2>3. CASE App[r.of] = app
    <3>1. next = acc
      BY <1>3, <2>1, <2>3 DEF RegenerateNext, next
    <3> QED
      BY <2>1, <2>2, <3>1 DEF Settling, next, r, t, out
  <2>4. CASE App[r.of] # app
    <3>1. /\ f + Len(g) - 1 <= Len(out)
          /\ \A k \in 1 .. Len(out) : out[k].of = t <=> k \in f .. f + Len(g) - 1
          /\ \A k \in 1 .. Len(g) : out[f + k - 1] = g[k]
      BY <2>1 DEF Settled
    <3> DEFINE all == Append(out, r)
    <3>2. /\ Len(all) = Len(out) + 1 /\ all[Len(out) + 1] = r
          /\ \A k \in 1 .. Len(out) : all[k] = out[k]
      BY <1>5
    <3> HIDE DEF all
    <3>3. \A k \in 1 .. Len(all) : all[k].of = t <=> k \in f .. f + Len(g) - 1
      <4> SUFFICES ASSUME NEW k \in 1 .. Len(all)
                   PROVE  all[k].of = t <=> k \in f .. f + Len(g) - 1
        OBVIOUS
      <4>1. CASE k = Len(out) + 1
        <5>1. k \notin f .. f + Len(g) - 1
          BY <1>1, <3>1, <4>1
        <5> QED
          BY <1>3, <2>4, <3>2, <4>1, <5>1
      <4>2. CASE k # Len(out) + 1
        <5>1. k \in 1 .. Len(out)
          BY <1>1, <3>2, <4>2
        <5> QED
          BY <3>1, <3>2, <5>1
      <4> QED
        BY <4>1, <4>2
    <3>4. \A k \in 1 .. Len(g) : all[f + k - 1] = g[k]
      <4> SUFFICES ASSUME NEW k \in 1 .. Len(g) PROVE all[f + k - 1] = g[k]
        OBVIOUS
      <4>1. f + k - 1 \in 1 .. Len(out)
        BY <1>1, <3>1
      <4> QED
        BY <3>1, <3>2, <4>1
    <3>5. f + Len(g) - 1 <= Len(all)
      BY <1>1, <3>1, <3>2
    <3>6. Settled(all, f, g, t)
      BY <3>3, <3>4, <3>5 DEF Settled
    <3>7. next.out = all /\ next.last = acc.last
      BY <1>6, <2>4 DEF all
    <3> QED
      BY <2>1, <2>2, <3>6, <3>7 DEF Settling, next, r, t
  <2> QED
    BY <2>3, <2>4
<1> QED
  BY <1>1, <1>7, <1>8, <1>9

\* An update leaves what replaces the group where its first rule was, and no
\* other rule of it.
LEMMA RegeneratedSettles ==
  ASSUME TypeOK, OneTemplate, GroupsAreApps, NEW list \in Seq(Rule), NEW app \in Apps,
         NEW f \in 1 .. Len(list), App[list[f].of] = app,
         \A k \in 1 .. f - 1 : App[list[k].of] # app
  PROVE  Settled(Regenerated(list, app), f, Generated(list, list[f]), list[f].of)
<1> DEFINE n == Len(list)
           g == Generated(list, list[f])
           of == list[f].of
<1>1. PICK t \in [0 .. n -> Update] :
        /\ t[0] = [out |-> <<>>, last |-> {}]
        /\ \A i \in 1 .. n : t[i] = RegenerateNext(list, app, t[i - 1], list[i])
        /\ Regenerated(list, app) = t[n].out
  BY UpdateTrace
<1>2. n \in Nat /\ f \in Nat /\ f >= 1 /\ f <= n
  OBVIOUS
<1>3. g \in Seq(Rule) /\ Len(g) >= 1 /\ \A k \in 1 .. Len(g) : g[k].of = list[f].of
  BY GeneratedGroup
<1>4. g = Generated(list, list[f])
  OBVIOUS
<1> HIDE DEF g, n
<1> DEFINE U == {i \in 0 .. n : ~Settling(t[i], list, f, g, list[f].of, i)}
<1>5. U = {}
  <2> SUFFICES ASSUME U # {} PROVE FALSE
    OBVIOUS
  <2>1. PICK i \in U : \A k \in U : i <= k
    <3>1. U \in SUBSET Nat
      BY <1>2
    <3> HIDE DEF U
    <3> QED
      BY <3>1, Smallest
  <2>2. i \in 0 .. n /\ ~Settling(t[i], list, f, g, list[f].of, i)
    OBVIOUS
  <2>3. i # 0
    <3>1. t[0].last = {} /\ t[0].out = <<>>
      BY <1>1
    <3>2. Len(t[0].out) = 0 /\ 1 .. 0 = {} /\ ~(0 >= f)
      BY <1>2, <3>1
    <3>3. Settling(t[0], list, f, g, list[f].of, 0)
      BY <3>1, <3>2 DEF Settling
    <3> QED
      BY <2>2, <3>3
  <2>4. i \in 1 .. n /\ i - 1 \in 0 .. n /\ ~(i <= i - 1)
    BY <1>2, <2>2, <2>3
  <2>5. Settling(t[i - 1], list, f, g, list[f].of, i - 1) /\ t[i - 1] \in Update
    BY <2>1, <2>4
  <2>6. t[i] = RegenerateNext(list, app, t[i - 1], list[i]) /\ i \in 1 .. Len(list)
    BY <1>1, <2>4 DEF n
  <2> HIDE DEF U
  <2>7. Settling(t[i], list, f, g, list[f].of, i)
    BY <1>3, <1>4, <2>5, <2>6, SettlingNext
  <2> QED
    BY <2>2, <2>7
<1>6. Settling(t[n], list, f, g, list[f].of, n)
  <2>1. n \in 0 .. n
    BY <1>2
  <2> QED
    BY <1>5, <2>1
<1> HIDE DEF U
<1>7. Settled(t[n].out, f, g, list[f].of)
  BY <1>2, <1>6 DEF Settling
<1> QED
  BY <1>1, <1>7 DEF g

\* An update that replaces a group by what it is, or meets no rule of the
\* application (f is then past the end): the first rules of the list, and the
\* whole group once its first rule is met.
Standing(acc, list, f, e, i) ==
  /\ i < f => acc.last = {} /\ Len(acc.out) = i
  /\ i >= f => /\ acc.last = {Tuple[list[f].of]}
               /\ Len(acc.out) = IF i < e THEN e ELSE i
  /\ \A k \in 1 .. Len(acc.out) : acc.out[k] = list[k]

\* The group of the application that starts at f is what it would be replaced by.
Settles(list, app, f, e) ==
  /\ e \in f .. Len(list) /\ App[list[f].of] = app
  /\ e = f + Len(Generated(list, list[f])) - 1
  /\ Settled(list, f, Generated(list, list[f]), list[f].of)

\* An update copies the entries of a list that is what it makes.
LEMMA StandingNext ==
  ASSUME TypeOK, OneTemplate, NEW list \in Seq(Rule), NEW app \in Apps,
         NEW f \in 1 .. Len(list) + 1, NEW e \in Nat,
         \A k \in 1 .. f - 1 : App[list[k].of] # app,
         f <= Len(list) => Settles(list, app, f, e),
         NEW acc \in Update, NEW i \in 1 .. Len(list), Standing(acc, list, f, e, i - 1)
  PROVE  Standing(RegenerateNext(list, app, acc, list[i]), list, f, e, i)
<1> DEFINE r == list[i]
           out == acc.out
           next == RegenerateNext(list, app, acc, r)
<1>1. /\ r \in Rule /\ i \in Nat /\ f \in Nat /\ f >= 1 /\ out \in Seq(Rule)
      /\ i - 1 \in Nat /\ Len(out) \in Nat /\ Len(list) \in Nat
  BY DEF Update
<1> HIDE DEF r, out, next
<1>2. ASSUME App[r.of] # app
      PROVE  next.out = Append(out, r) /\ next.last = acc.last
  <2>1. next = [acc EXCEPT !.out = Append(@, r)]
    BY <1>2 DEF RegenerateNext, next
  <2> QED
    BY <2>1 DEF Update, out
<1>3. /\ Len(Append(out, r)) = Len(out) + 1 /\ Append(out, r)[Len(out) + 1] = r
      /\ \A k \in 1 .. Len(out) : Append(out, r)[k] = out[k]
  BY <1>1
<1>4. \A k \in 1 .. Len(out) : out[k] = list[k]
  BY DEF Standing, out
<1>5. ASSUME App[r.of] # app, Len(out) = i - 1
      PROVE  Len(next.out) = i /\ \A k \in 1 .. i : next.out[k] = list[k]
  <2>1. Len(next.out) = i
    BY <1>1, <1>2, <1>3, <1>5
  <2>2. ASSUME NEW k \in 1 .. i PROVE next.out[k] = list[k]
    <3>1. CASE k = i
      BY <1>1, <1>2, <1>3, <1>5, <3>1 DEF r
    <3>2. CASE k # i
      <4>1. k \in 1 .. Len(out)
        BY <1>1, <1>5, <3>2
      <4> QED
        BY <1>2, <1>3, <1>4, <1>5, <4>1
    <3> QED
      BY <3>1, <3>2
  <2> QED
    BY <2>1, <2>2
<1>6. CASE i < f
  <2>1. i \in 1 .. f - 1 /\ ~(i >= f) /\ i - 1 < f
    BY <1>1, <1>6
  <2>2. App[r.of] # app
    BY <2>1 DEF r
  <2>3. acc.last = {} /\ Len(out) = i - 1
    BY <2>1 DEF Standing, out
  <2>4. Standing(next, list, f, e, i)
    BY <1>2, <1>5, <2>1, <2>2, <2>3 DEF Standing
  <2> QED
    BY <2>4 DEF next, r
<1>7. CASE i >= f
  <2> DEFINE t == list[f].of
             g == Generated(list, list[f])
  <2>0. f <= Len(list) /\ f \in 1 .. Len(list) /\ ~(i < f)
    BY <1>1, <1>7
  <2>1. /\ e \in f .. Len(list) /\ App[t] = app /\ e = f + Len(g) - 1
        /\ \A k \in 1 .. Len(list) : list[k].of = t <=> k \in f .. e
        /\ \A k \in 1 .. Len(g) : list[f + k - 1] = g[k]
    BY <2>0 DEF Settles, Settled
  <2>2. App[r.of] = app <=> i \in f .. e
    <3>1. r.of \in Templates /\ t \in Templates /\ app # NoApp
      <4>1. list[f] \in Rule
        BY <2>0
      <4> HIDE DEF t
      <4>2. r.of \in Templates /\ list[f].of \in Templates
        BY <1>1, <4>1 DEF Rule
      <4> QED
        BY <4>2, TemplatesAssumption DEF TemplatesAssumption, t
    <3> HIDE DEF t, g
    <3>2. App[r.of] = app <=> r.of = t
      BY <2>1, <3>1 DEF OneTemplate
    <3> QED
      BY <2>1, <3>2 DEF r
  <2>3. CASE i = f
    <3>1. acc.last = {} /\ Len(out) = f - 1
      <4>1. i - 1 < f /\ i - 1 = f - 1
        BY <1>1, <2>3
      <4> QED
        BY <4>1 DEF Standing, out
    <3>2. App[r.of] = app /\ acc.last # {Tuple[r.of]} /\ Generated(list, r) = g /\ r.of = t
      BY <2>1, <2>3, <3>1 DEF r
    <3>3. next = [out |-> out \o g, last |-> {Tuple[t]}]
      BY <3>2 DEF RegenerateNext, next, out
    <3> DEFINE all == out \o g
    <3>4. g \in Seq(Rule) /\ Len(g) \in Nat
      <4>1. list[f] \in Rule /\ App[list[f].of] \in Apps
        BY <2>0, <2>1
      <4> QED
        BY <4>1, GeneratedIs
    <3> HIDE DEF g, t
    <3>5. /\ Len(all) = e
          /\ \A k \in 1 .. f - 1 : all[k] = out[k]
          /\ \A k \in 1 .. Len(g) : all[f - 1 + k] = g[k]
      <4>1. Len(all) = Len(out) + Len(g)
        BY <1>1, <3>4
      <4>2. \A k \in 1 .. Len(out) : all[k] = out[k]
        BY <1>1, <3>4
      <4>3. \A k \in 1 .. Len(g) : all[Len(out) + k] = g[k]
        BY <1>1, <3>4
      <4> HIDE DEF all
      <4> QED
        BY <1>1, <2>1, <3>1, <3>4, <4>1, <4>2, <4>3
    <3> HIDE DEF all
    <3>6. \A k \in 1 .. e : all[k] = list[k]
      <4> SUFFICES ASSUME NEW k \in 1 .. e PROVE all[k] = list[k]
        OBVIOUS
      <4>1. CASE k < f
        <5>1. k \in 1 .. f - 1
          BY <1>1, <4>1
        <5> QED
          BY <1>4, <3>1, <3>5, <5>1
      <4>2. CASE ~(k < f)
        <5> DEFINE j == k - f + 1
        <5>1. j \in 1 .. Len(g) /\ f + j - 1 = k /\ f - 1 + j = k
          BY <1>1, <2>1, <3>4, <4>2
        <5> HIDE DEF j
        <5>2. list[f + j - 1] = g[j]
          BY <2>1, <5>1
        <5>3. all[f - 1 + j] = g[j]
          <6>1. \A x \in 1 .. Len(g) : all[f - 1 + x] = g[x]
            BY <3>5
          <6> QED
            BY <5>1, <6>1, Zenon
        <5> QED
          BY <5>1, <5>2, <5>3
      <4> QED
        BY <4>1, <4>2
    <3>7. next.out = all /\ next.last = {Tuple[list[f].of]}
      BY <3>3 DEF all, t
    <3>8. Len(all) = IF i < e THEN e ELSE i
      BY <1>1, <2>1, <2>3, <3>5
    <3>9. Standing(next, list, f, e, i)
      BY <2>0, <3>5, <3>6, <3>7, <3>8 DEF Standing
    <3> QED
      BY <3>9 DEF next, r
  <2>4. CASE i > f
    <3>0. i - 1 >= f
      BY <1>1, <2>4
    <3>1. acc.last = {Tuple[list[f].of]} /\ Len(out) = IF i - 1 < e THEN e ELSE i - 1
      BY <3>0 DEF Standing, out
    <3>2. CASE i <= e
      <4>1. App[r.of] = app
        BY <1>1, <2>1, <2>2, <2>4, <3>2
      <4>2. r.of = list[f].of
        BY <1>1, <2>1, <2>4, <3>2 DEF r
      <4>3. next = acc
        BY <3>1, <4>1, <4>2 DEF RegenerateNext, next
      <4>4. Len(out) = IF i < e THEN e ELSE i
        <5>1. e \in Nat /\ i - 1 < e
          BY <1>1, <3>2
        <5>2. Len(out) = e
          BY <3>1, <5>1
        <5> QED
          BY <1>1, <3>2, <5>1, <5>2
      <4>5. Standing(next, list, f, e, i)
        BY <1>4, <2>0, <3>1, <4>3, <4>4 DEF Standing, out
      <4> QED
        BY <4>5 DEF next, r
    <3>3. CASE i > e
      <4>1. App[r.of] # app
        BY <1>1, <2>1, <2>2, <3>3
      <4>0. e \in Nat /\ ~(i - 1 < e) /\ ~(i < e)
        BY <1>1, <3>3
      <4>2. Len(out) = i - 1
        BY <3>1, <4>0
      <4>3. Len(next.out) = IF i < e THEN e ELSE i
        BY <1>1, <1>5, <4>0, <4>1, <4>2
      <4>4. \A k \in 1 .. Len(next.out) : next.out[k] = list[k]
        BY <1>5, <4>1, <4>2
      <4>5. Standing(next, list, f, e, i)
        BY <1>2, <2>0, <3>1, <4>1, <4>3, <4>4 DEF Standing
      <4> QED
        BY <4>5 DEF next, r
    <3> QED
      BY <1>1, <2>1, <3>2, <3>3
  <2> QED
    BY <1>1, <1>7, <2>3, <2>4
<1> QED
  BY <1>1, <1>6, <1>7

\* Then nothing changes.
LEMMA RegeneratedStands ==
  ASSUME TypeOK, OneTemplate, NEW list \in Seq(Rule), NEW app \in Apps,
         NEW f \in 1 .. Len(list) + 1, NEW e \in Nat,
         \A k \in 1 .. f - 1 : App[list[k].of] # app,
         f <= Len(list) => Settles(list, app, f, e)
  PROVE  Regenerated(list, app) = list
<1> DEFINE n == Len(list)
<1>1. PICK t \in [0 .. n -> Update] :
        /\ t[0] = [out |-> <<>>, last |-> {}]
        /\ \A i \in 1 .. n : t[i] = RegenerateNext(list, app, t[i - 1], list[i])
        /\ Regenerated(list, app) = t[n].out
  BY UpdateTrace
<1>2. n \in Nat /\ f \in Nat /\ f >= 1 /\ f <= n + 1
  OBVIOUS
<1> HIDE DEF n
<1> DEFINE U == {i \in 0 .. n : ~Standing(t[i], list, f, e, i)}
<1>5. U = {}
  <2> SUFFICES ASSUME U # {} PROVE FALSE
    OBVIOUS
  <2>1. PICK i \in U : \A k \in U : i <= k
    <3>1. U \in SUBSET Nat
      BY <1>2
    <3> HIDE DEF U
    <3> QED
      BY <3>1, Smallest
  <2>2. i \in 0 .. n /\ ~Standing(t[i], list, f, e, i)
    OBVIOUS
  <2>3. i # 0
    <3>1. t[0].last = {} /\ t[0].out = <<>>
      BY <1>1
    <3>2. Len(t[0].out) = 0 /\ 1 .. 0 = {} /\ ~(0 >= f)
      BY <1>2, <3>1
    <3>3. Standing(t[0], list, f, e, 0)
      BY <3>1, <3>2 DEF Standing
    <3> QED
      BY <2>2, <3>3
  <2>4. i \in 1 .. n /\ i - 1 \in 0 .. n /\ ~(i <= i - 1)
    BY <1>2, <2>2, <2>3
  <2>5. Standing(t[i - 1], list, f, e, i - 1) /\ t[i - 1] \in Update
    BY <2>1, <2>4
  <2>6. t[i] = RegenerateNext(list, app, t[i - 1], list[i]) /\ i \in 1 .. Len(list)
    BY <1>1, <2>4 DEF n
  <2> HIDE DEF U
  <2>7. Standing(t[i], list, f, e, i)
    BY <2>5, <2>6, StandingNext
  <2> QED
    BY <2>2, <2>7
<1>6. Standing(t[n], list, f, e, n) /\ t[n] \in Update
  <2>1. n \in 0 .. n
    BY <1>2
  <2> QED
    BY <1>5, <2>1
<1> HIDE DEF U
<1>7. Len(t[n].out) = n
  <2>1. CASE n < f
    BY <1>6, <2>1 DEF Standing
  <2>2. CASE ~(n < f)
    <3>1. e \in f .. n
      BY <1>2, <2>2 DEF Settles, n
    <3>2. n >= f /\ ~(n < e)
      BY <1>2, <2>2, <3>1
    <3> QED
      BY <1>6, <3>2 DEF Standing
  <2> QED
    BY <2>1, <2>2
<1>8. \A k \in 1 .. n : t[n].out[k] = list[k]
  BY <1>6, <1>7 DEF Standing
<1>9. t[n].out \in Seq(Rule)
  BY <1>6 DEF Update
<1>10. t[n].out = list
  BY <1>7, <1>8, <1>9, SeqEqual DEF n
<1> QED
  BY <1>1, <1>10

\* An update of a list once is as good as twice.
LEMMA RegeneratedTwice ==
  ASSUME TypeOK, OneTemplate, GroupsAreApps, NEW list \in Seq(Rule), NEW app \in Apps
  PROVE  Regenerated(Regenerated(list, app), app) = Regenerated(list, app)
<1> DEFINE new == Regenerated(list, app)
           n == Len(list)
           T == {i \in 1 .. n : App[list[i].of] = app}
<1>1. n \in Nat /\ new \in Seq(Rule)
  BY RegeneratedType
<1>2. CASE T = {}
  <2>1. \A k \in 1 .. (n + 1) - 1 : App[list[k].of] # app
    BY <1>1, <1>2
  <2>2. n + 1 \in 1 .. Len(list) + 1 /\ ~(n + 1 <= Len(list)) /\ 0 \in Nat
    BY <1>1
  <2> HIDE DEF new, n, T
  <2>3. Regenerated(list, app) = list
    BY <2>1, <2>2, RegeneratedStands
  <2> QED
    BY <2>3 DEF new
<1>3. CASE T # {}
  <2>1. PICK f \in T : \A k \in T : f <= k
    <3>1. T \in SUBSET Nat
      OBVIOUS
    <3> HIDE DEF T
    <3> QED
      BY <1>3, <3>1, Smallest
  <2>2. f \in 1 .. Len(list) /\ App[list[f].of] = app
    OBVIOUS
  <2>3. \A k \in 1 .. f - 1 : App[list[k].of] # app
    <3> SUFFICES ASSUME NEW k \in 1 .. f - 1, App[list[k].of] = app PROVE FALSE
      OBVIOUS
    <3>1. k \in T /\ ~(f <= k)
      BY <1>1, <2>2
    <3> QED
      BY <2>1, <3>1
  <2> HIDE DEF T, n, new
  <2> DEFINE g == Generated(list, list[f])
             of == list[f].of
             e == f + Len(g) - 1
  <2>4. Settled(new, f, g, of)
    BY <2>2, <2>3, RegeneratedSettles DEF new
  <2>5. g \in Seq(Rule) /\ Len(g) >= 1 /\ Len(g) \in Nat /\ f \in Nat /\ f >= 1
    BY <2>2, GeneratedGroup
  <2> HIDE DEF g, of
  <2>6. /\ f + Len(g) - 1 <= Len(new)
        /\ \A k \in 1 .. Len(new) : new[k].of = of <=> k \in f .. f + Len(g) - 1
    BY <2>4 DEF Settled
  <2>7. f \in 1 .. Len(new) /\ f \in 1 .. Len(new) + 1 /\ e \in f .. Len(new) /\ e \in Nat
    BY <1>1, <2>5, <2>6
  <2>8. new[f].of = of /\ Generated(new, new[f]) = g
    BY <1>1, <2>2, <2>4, <2>7, GeneratedAgain DEF g, of
  <2>9. App[of] = app
    BY <2>2 DEF of
  <2>10. Settles(new, app, f, e)
    BY <2>4, <2>7, <2>8, <2>9 DEF Settles
  <2>11. \A k \in 1 .. f - 1 : App[new[k].of] # app
    <3> SUFFICES ASSUME NEW k \in 1 .. f - 1, App[new[k].of] = app PROVE FALSE
      OBVIOUS
    <3>1. k \in 1 .. Len(new) /\ k \notin f .. f + Len(g) - 1
      BY <1>1, <2>5, <2>7
    <3>2. new[k].of # of
      BY <2>6, <3>1
    <3>3. new[k] \in Rule /\ list[f] \in Rule
      BY <1>1, <2>2, <3>1
    <3>4. new[k].of \in Templates /\ of \in Templates
      BY <3>3 DEF Rule, of
    <3>5. app # NoApp
      BY TemplatesAssumption DEF TemplatesAssumption
    <3> QED
      BY <2>9, <3>2, <3>4, <3>5 DEF OneTemplate
  <2> HIDE DEF e
  <2>12. Regenerated(new, app) = new
    BY <1>1, <2>7, <2>10, <2>11, RegeneratedStands
  <2> QED
    BY <2>12 DEF new
<1> QED
  BY <1>2, <1>3

\* An update of a group with a profile leaves its rules, in its order.
LEMMA RegeneratedItems ==
  ASSUME TypeOK, OneTemplate, GroupsAreApps, NEW list \in Seq(Rule), NEW app \in Apps,
         profile[app] # <<>>, NEW t \in Templates, App[t] = app,
         NEW m \in 1 .. Len(list), list[m].of = t
  PROVE  LET new == Regenerated(list, app)
             of == Without(new, {i \in DOMAIN new : new[i].of # t})
         IN /\ [i \in DOMAIN of |-> of[i].item] = profile[app]
            /\ \A i, j \in DOMAIN new, k \in DOMAIN new :
                 i < k /\ k < j /\ new[i].of = t /\ new[j].of = t => new[k].of = t
<1> DEFINE new == Regenerated(list, app)
           gone == {i \in DOMAIN new : new[i].of # t}
           n == Len(list)
           T == {i \in 1 .. n : App[list[i].of] = app}
           items == profile[app]
<1>1. n \in Nat /\ new \in Seq(Rule) /\ DOMAIN new = 1 .. Len(new)
  BY RegeneratedType
<1>2. PICK f \in T : \A k \in T : f <= k
  <2>1. T \in SUBSET Nat /\ m \in T
    OBVIOUS
  <2> HIDE DEF T
  <2> QED
    BY <2>1, Smallest
<1>3. f \in 1 .. Len(list) /\ App[list[f].of] = app
  OBVIOUS
<1>4. \A k \in 1 .. f - 1 : App[list[k].of] # app
  <2> SUFFICES ASSUME NEW k \in 1 .. f - 1, App[list[k].of] = app PROVE FALSE
    OBVIOUS
  <2>1. k \in T /\ ~(f <= k)
    BY <1>1, <1>3
  <2> QED
    BY <1>2, <2>1
<1> HIDE DEF T, n, new
<1> DEFINE r == list[f]
           g == Generated(list, r)
<1>5. r \in Rule /\ App[r.of] = app
  BY <1>3
<1>6. r.of = t
  <2> HIDE DEF r
  <2>1. r.of \in Templates
    BY <1>5 DEF Rule
  <2>2. app # NoApp
    BY TemplatesAssumption DEF TemplatesAssumption
  <2> QED
    BY <1>5, <2>1, <2>2 DEF OneTemplate
<1>7. Settled(new, f, g, r.of)
  BY <1>3, <1>4, RegeneratedSettles DEF new
<1>8. g \in Seq(Rule) /\ Len(g) >= 1 /\ Len(g) \in Nat /\ f \in Nat /\ f >= 1
  BY <1>3, GeneratedGroup
<1>9. MadeOf(g, list, r, items)
  BY <1>5, GeneratedMade
<1> HIDE DEF r, g, items, gone
<1>10. /\ items \in Seq(Items) /\ Len(g) = Len(items)
       /\ \A i \in 1 .. Len(items) : g[i] = [r EXCEPT !.item = items[i]]
  BY <1>9 DEF MadeOf, items
<1>11. Settled(new, f, g, t)
  BY <1>6, <1>7
<1>12. /\ f + Len(g) - 1 <= Len(new)
       /\ \A k \in 1 .. Len(new) : new[k].of = t <=> k \in f .. f + Len(g) - 1
  BY <1>11 DEF Settled
<1>13. f \in 1 .. Len(new)
  BY <1>1, <1>8, <1>12
<1>14. Without(new, gone) = g
  <2>1. \A k \in 1 .. Len(new) : k \in gone <=> new[k].of # t
    BY <1>1 DEF gone
  <2> QED
    BY <1>1, <1>8, <1>11, <1>13, <2>1, SettledPicks
<1>15. [i \in DOMAIN g |-> g[i].item] = items
  <2>1. DOMAIN g = 1 .. Len(items) /\ DOMAIN items = 1 .. Len(items)
    BY <1>8, <1>10
  <2>2. \A i \in 1 .. Len(items) : g[i].item = items[i]
    <3> SUFFICES ASSUME NEW i \in 1 .. Len(items) PROVE g[i].item = items[i]
      OBVIOUS
    <3>1. g[i] = [r EXCEPT !.item = items[i]]
      BY <1>10
    <3> QED
      BY <1>5, <3>1 DEF Rule
  <2>3. items = [i \in 1 .. Len(items) |-> items[i]]
    BY <1>10, <2>1
  <2> QED
    BY <2>1, <2>2, <2>3
<1>16. \A i, j \in DOMAIN new, k \in DOMAIN new :
         i < k /\ k < j /\ new[i].of = t /\ new[j].of = t => new[k].of = t
  <2> SUFFICES ASSUME NEW i \in 1 .. Len(new), NEW j \in 1 .. Len(new), NEW k \in 1 .. Len(new),
                      i < k, k < j, new[i].of = t, new[j].of = t
               PROVE  new[k].of = t
    BY <1>1
  <2>1. i \in f .. f + Len(g) - 1 /\ j \in f .. f + Len(g) - 1
    BY <1>12
  <2>2. k \in f .. f + Len(g) - 1
    BY <1>8, <2>1
  <2> QED
    BY <1>12, <2>2
<1>17. [i \in DOMAIN Without(new, gone) |-> Without(new, gone)[i].item] = items
  BY <1>14, <1>15
<1> QED
  BY <1>16, <1>17 DEF new, gone, items

\* app update leaves of each group exactly the rules of the profile, in its
\* order and together, and a second one changes nothing, when each application
\* is used with one template.
THEOREM UpdatesSettle ==
  ASSUME OneTemplate, GroupsAreApps
  PROVE  Spec => []UpdateSettles
<1>1. TypeOK => UpdateSettles
  <2> SUFFICES ASSUME TypeOK, NEW app \in Apps, NEW list \in {rules4, rules6}
               PROVE  LET new == Regenerated(list, app)
                          items(t) == LET of == Without(new, {i \in DOMAIN new : new[i].of # t}) IN
                                      [i \in DOMAIN of |-> of[i].item]
                      IN
                      /\ Regenerated(new, app) = new
                      /\ profile[app] # <<>> =>
                           \A t \in Templates :
                             App[t] = app /\ (\E r \in Range(list) : r.of = t) =>
                               /\ items(t) = profile[app]
                               /\ \A i, j \in DOMAIN new, k \in DOMAIN new :
                                    i < k /\ k < j /\ new[i].of = t /\ new[j].of = t => new[k].of = t
    BY DEF UpdateSettles
  <2>1. list \in Seq(Rule)
    BY DEF TypeOK
  <2>2. Regenerated(Regenerated(list, app), app) = Regenerated(list, app)
    BY <2>1, RegeneratedTwice
  <2>3. ASSUME profile[app] # <<>>, NEW t \in Templates, App[t] = app, \E r \in Range(list) : r.of = t
        PROVE  LET new == Regenerated(list, app)
                   of == Without(new, {i \in DOMAIN new : new[i].of # t})
               IN /\ [i \in DOMAIN of |-> of[i].item] = profile[app]
                  /\ \A i, j \in DOMAIN new, k \in DOMAIN new :
                       i < k /\ k < j /\ new[i].of = t /\ new[j].of = t => new[k].of = t
    <3>1. PICK m \in 1 .. Len(list) : list[m].of = t
      BY <2>1, <2>3 DEF Range
    <3> QED
      BY <2>1, <2>3, <3>1, RegeneratedItems
  <2> QED
    BY <2>2, <2>3
<1> QED
  BY <1>1, RulesTyped, PTL
=============================================================================
