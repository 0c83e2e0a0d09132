------------------------------- MODULE Windows -------------------------------
(***************************************************************************)
(* What the detector promises: an address is banned by a jail exactly when *)
(* a failed login makes max_retries failures within find_time, counted     *)
(* since the jail last banned it.  Nothing else is ever forgotten here.    *)
(***************************************************************************)
EXTENDS Jails

VARIABLES clock,       \* the time, in ticks
          seen,        \* how many messages have counted
          bans,        \* the keys the latest message got banned
          history      \* of each key the failures since its latest ban

wvars == <<clock, seen, bans, history>>

WInit ==
  /\ clock = 0
  /\ seen = 0
  /\ bans = {}
  /\ history = [k \in Key |-> {}]

Log(msg) ==
  LET known(k) == history[k] \cup {[n |-> seen, at |-> clock]}
      due == {k \in Hit(msg) : Cardinality(Within(known(k), k[1], clock))
                                 >= MaxRetries[k[1]]}
  IN
  /\ seen' = IF Hit(msg) = {} THEN seen ELSE seen + 1
  /\ bans' = due
  /\ history' = [k \in Key |-> IF k \in due THEN {}
                               ELSE IF k \in Hit(msg) THEN known(k)
                               ELSE history[k]]
  /\ UNCHANGED clock

Tick ==
  /\ clock' = clock + 1
  /\ UNCHANGED <<seen, bans, history>>

WNext == Tick \/ \E msg \in Message : Log(msg)

WSpec == WInit /\ [][WNext]_wvars
=============================================================================
