-------------------------------- MODULE Jails --------------------------------
(***************************************************************************)
(* The jails of protect.json and the journal messages they read.           *)
(***************************************************************************)
EXTENDS Integers, FiniteSets

CONSTANTS Jail, IP,
          MaxRetries,  \* max_retries of each jail
          FindTime,    \* find_time of each jail, in ticks
          MaxTime,     \* bound on the clock
          MaxEvents    \* bound on the number of messages that count

ASSUME JailsAssumption ==
  /\ MaxRetries \in [Jail -> Nat \ {0}]
  /\ FindTime \in [Jail -> Nat \ {0}]
  /\ MaxTime \in Nat
  /\ MaxEvents \in Nat

Key == Jail \X IP

(* A failed login; its number keeps two of one instant apart. *)
Failure == [n : Nat, at : Nat]

Within(fails, j, now) == {f \in fails : f.at >= now - FindTime[j]}

(* A message counts for the jails that read an address from it, and each   *)
(* reads one; a message no jail is interested in counts for none.          *)
Message == UNION {[hits -> IP] : hits \in SUBSET Jail}
Hit(msg) == {<<j, msg[j]>> : j \in DOMAIN msg}
=============================================================================
