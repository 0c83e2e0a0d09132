--------------------------- MODULE DetectorHistory ---------------------------
(***************************************************************************)
(* Detector with a history variable: the failures Windows would remember.  *)
(***************************************************************************)
EXTENDS Detector

VARIABLE history

hvars == <<clock, seen, failures, nextPrune, bans, history>>

HInit == DInit /\ history = [k \in Key |-> {}]

HObserve(msg) ==
  /\ Observe(msg)
  /\ history' =
       [k \in Key |->
          IF k \in bans' THEN {}
          ELSE IF k \in Hit(msg)
          THEN history[k] \cup {[n |-> seen, at |-> clock]}
          ELSE history[k]]

HTick == Tick /\ UNCHANGED history

HNext == HTick \/ \E msg \in Message : HObserve(msg)

HSpec == HInit /\ [][HNext]_hvars

(* The detector bans exactly the addresses with max_retries failures       *)
(* within find_time (README: 5 failed logins within 10 minutes), whatever  *)
(* it has trimmed and pruned in between.                                   *)
Promise == INSTANCE Windows
BansExactly == Promise!WSpec

(* What the windows may and must hold: nothing but failures since the      *)
(* latest ban, and all of those still within find_time.                    *)
HType ==
  /\ clock \in Nat
  /\ seen \in Nat
  /\ history \in [Key -> SUBSET Failure]
  /\ failures \in [Key -> SUBSET Failure]

Kept ==
  \A k \in Key :
    /\ failures[k] \subseteq history[k]
    /\ Within(history[k], k[1], clock) \subseteq failures[k]

HInv == HType /\ Kept
=============================================================================
