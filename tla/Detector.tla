------------------------------ MODULE Detector ------------------------------
(***************************************************************************)
(* The failure detector of bfw protect: per jail and address the failures  *)
(* within find_time, trimmed when a new one arrives, deleted when they     *)
(* reach max_retries, and pruned for all addresses at most once a minute,  *)
(* so that addresses that stopped failing take no memory.                  *)
(***************************************************************************)
EXTENDS Jails

CONSTANT PruneEvery    \* the minute between two prunings, in ticks

ASSUME DetectorAssumption == PruneEvery \in Nat \ {0}

VARIABLES clock,       \* the time
          seen,        \* how many messages have counted
          failures,    \* Detector.failures; {} when the key is absent
          nextPrune,   \* Detector.nextPrune; 0 is the zero time
          bans         \* the bans Observe returned last

dvars == <<clock, seen, failures, nextPrune, bans>>

DTypeOK ==
  /\ clock \in 0 .. MaxTime
  /\ seen \in 0 .. MaxEvents
  /\ failures \in [Key -> SUBSET [n : 0 .. MaxEvents, at : 0 .. MaxTime]]
  /\ nextPrune \in 0 .. MaxTime + PruneEvery
  /\ bans \subseteq Key

DInit ==
  /\ clock = 0
  /\ seen = 0
  /\ failures = [k \in Key |-> {}]
  /\ nextPrune = 0
  /\ bans = {}

PruneDue == clock >= nextPrune

(* Mutants of Pruned: one jail's find_time is used for all; none is pruned.*)
PrunedByShortest ==
  IF PruneDue
  THEN [k \in Key |-> {f \in failures[k] :
                         \A j \in Jail : f \in Within({f}, j, clock)}]
  ELSE failures

NeverPruned == failures

Pruned ==
  IF PruneDue THEN [k \in Key |-> Within(failures[k], k[1], clock)]
  ELSE failures

(* Observe.  Jails do not share keys, so their order does not matter. *)
Observe(msg) ==
  LET known(k) == Within(Pruned[k], k[1], clock)
                    \cup {[n |-> seen, at |-> clock]}
      reached == {k \in Hit(msg) : Cardinality(known(k)) >= MaxRetries[k[1]]}
  IN
  /\ Hit(msg) # {} => seen < MaxEvents
  /\ seen' = IF Hit(msg) = {} THEN seen ELSE seen + 1
  /\ bans' = reached
  /\ failures' = [k \in Key |-> IF k \in reached THEN {}
                                ELSE IF k \in Hit(msg) THEN known(k)
                                ELSE Pruned[k]]
  /\ nextPrune' = IF PruneDue THEN clock + PruneEvery ELSE nextPrune
  /\ UNCHANGED clock

Tick ==
  /\ clock < MaxTime
  /\ clock' = clock + 1
  /\ UNCHANGED <<seen, failures, nextPrune, bans>>

DNext == Tick \/ \E msg \in Message : Observe(msg)

DSpec == DInit /\ [][DNext]_dvars

(* What the latest prune left: nothing older than find_time at that time. *)
Fresh ==
  /\ nextPrune <= clock + PruneEvery
  /\ \A k \in Key : \A f \in failures[k] :
       f.at >= nextPrune - PruneEvery - FindTime[k[1]]

(* A failure is not held for longer than its jail's find_time and the      *)
(* minute between two prunings, as long as messages arrive.                *)
MemoryFreed ==
  [][(\E msg \in Message : Observe(msg)) =>
       \A k \in Key : \A f \in failures'[k] :
         f.at > clock - FindTime[k[1]] - PruneEvery]_dvars
=============================================================================
