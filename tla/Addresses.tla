------------------------------ MODULE Addresses ------------------------------
(***************************************************************************)
(* Networks, and the interval sets that better-firewall makes of them for  *)
(* its named sets and its threat bans.  A family has the addresses         *)
(* 0 .. Top - 1; a network is the block of "size" addresses from "lo" on.  *)
(***************************************************************************)
EXTENDS Integers, Sequences, SequencesExt

CONSTANTS Top,  \* how many addresses a family has: 2^32 or 2^128
          Nets  \* networks and single addresses that rules and sets name

\* A network lies within its family.
NetsAssumption ==
    /\ Top \in Nat \ {0}
    /\ \A n \in Nets : /\ n.v6 \in BOOLEAN
                       /\ n.lo \in 0 .. Top - 1
                       /\ n.size \in 1 .. Top - n.lo
ASSUME NetsAssumption

Block(n) == n.lo .. n.lo + n.size - 1

\* Two networks of a family are nested or apart, as CIDR blocks are.
BlocksNest ==
    \A a, b \in Nets : a.v6 = b.v6 => \/ Block(a) \subseteq Block(b)
                                      \/ Block(b) \subseteq Block(a)
                                      \/ Block(a) \cap Block(b) = {}
ASSUME BlocksNest

(* Whether b covers all of a: its first address, and no longer a prefix. *)
PrefixContains(a, b) ==
    /\ a.v6 = b.v6
    /\ a.lo \in Block(b)
    /\ a.size <= b.size

-----------------------------------------------------------------------------
(* Interval sets.  An interval ends before "end"; the address after the    *)
(* last one of a network is computed in the width of an address, so a      *)
(* network that reaches the top of its family ends at 0.                   *)

Interval(n) == [start |-> n.lo, end |-> (n.lo + n.size) % Top]

\* Mutant of MergeStep that leaves overlapping intervals as they are.
MergeStepNever(out, iv) == Append(out, iv)

\* One round of the merging loop: the next interval, in the order of starts.
MergeStep(out, iv) ==
    IF out = <<>> THEN <<iv>>
    ELSE LET last == out[Len(out)] IN
         IF iv.start <= last.end
         THEN [out EXCEPT ![Len(out)] =
                 IF iv.end > last.end THEN [last EXCEPT !.end = iv.end] ELSE last]
         ELSE Append(out, iv)

\* sort.Slice: by their starts, those of one start in whatever order.
SortedIntervals(ivs) ==
    CHOOSE s \in SetToSeqs(ivs) : \A i, j \in DOMAIN s : i < j => s[i].start <= s[j].start

MergeIntervals(ivs) == FoldLeft(MergeStep, <<>>, SortedIntervals(ivs))

\* The elements of one family's set.
Elements(nets, v6) ==
    MergeIntervals({Interval(n) : n \in {m \in nets : m.v6 = v6}})

\* A network that reaches the top of its family touches no other one.
TopApart(nets) ==
    \A a, b \in nets :
        a.v6 = b.v6 /\ a.lo + a.size = Top =>
            (b.lo = a.lo /\ b.size = a.size) \/ b.lo + b.size < a.lo

\* The addresses an interval holds for the kernel, where an end of 0 is open.
Held(iv) == {a \in 0 .. Top - 1 : iv.start <= a /\ (a < iv.end \/ iv.end = 0)}

InSet(a, ivs) == \E i \in DOMAIN ivs : a \in Held(ivs[i])

\* The kernel takes a set whose intervals do not overlap, and no other.
Loadable(ivs) ==
    \A i, j \in DOMAIN ivs : i # j => Held(ivs[i]) \cap Held(ivs[j]) = {}
=============================================================================
