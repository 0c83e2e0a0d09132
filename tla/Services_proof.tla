--------------------------- MODULE Services_proof ---------------------------
(***************************************************************************)
(* Proofs about bfw's dealings with what else runs on the host.  Protect:  *)
(* its types, and that the bookkeeping of the poller neither loses a       *)
(* decision nor keeps a revoked one, for any decisions, any of them        *)
(* rejected, and any of the faults.  The detector, whose definitions begin *)
(* with D or H: below.  Migrate, whose definitions begin with M or T where *)
(* Protect has the name too: a takeover hands the host over or puts it     *)
(* back, for every set of managers and whatever fails, is killed, rebooted *)
(* or started by others.                                                   *)
(***************************************************************************)
EXTENDS Protect, DetectorHistory, MigrateProps, TLAPS

(* Whoever holds the flock has something to apply.                         *)
Held ==
  /\ holder = "poller" => pending # None
  /\ holder = "journal" => due # None

(* What LAPI has yet to deliver, and what the pending batch holds, agree   *)
(* with the decisions in force.                                            *)
LapiInv ==
  /\ fresh \subseteq active /\ active \subseteq created
  /\ gone \subseteq created \ active
  /\ over \subseteq created /\ active \cap over = {}

PendingInv ==
  pending # None =>
    /\ pending.snapshot = startup
    /\ pending.add \subseteq active \cup gone
    /\ pending.del \subseteq created \ active
    /\ pending.snapshot => active \subseteq pending.add \cup fresh

BooksInv == LapiInv /\ PendingInv /\ NoneLost /\ NoneStale

-----------------------------------------------------------------------------
(* The batch LAPI sends is an update, and is not None.                     *)
LEMMA BatchType ==
  ASSUME TypeOK PROVE Batch \in Update
  BY DEF TypeOK, Batch, Update

(* The pending batch, when there is one, is an update (pollCrowdSec).      *)
LEMMA PendingType ==
  ASSUME TypeOK, pending # None PROVE pending \in Update
  BY DEF TypeOK

(* Every variable keeps its type, and whoever holds the flock has a batch  *)
(* or a ban to apply (applyThreatUpdate).                                  *)
LEMMA HeldType == Spec => [](TypeOK /\ Held)
<1>1. Init => TypeOK /\ Held
  BY DEF Init, TypeOK, Held
<1>2. ASSUME TypeOK, Held, [Next]_vars PROVE TypeOK' /\ Held'
  <2> USE <1>2
  <2>1. CASE Decide
    BY <2>1 DEF Decide, TypeOK, Held, poller, journal, stored
  <2>2. CASE Revoke
    BY <2>2 DEF Revoke, TypeOK, Held, poller, journal, stored
  <2>3. CASE Lapse
    BY <2>3 DEF Lapse, TypeOK, Held, poller, journal, stored
  <2>4. CASE Stream
    BY <2>4, BatchType DEF Stream, Delivered, TypeOK, Held, journal, stored
  <2>5. CASE StreamLost
    BY <2>5 DEF StreamLost, Delivered, TypeOK, Held, poller, journal, stored
  <2>6. CASE PollerLock
    BY <2>6 DEF PollerLock, TypeOK, Held, lapi, poller, journal, stored
  <2>7. CASE PollerApply
    BY <2>7, PendingType
    DEF PollerApply, TypeOK, Held, Updated, Update, lapi, journal
  <2>8. CASE PollerFails
    BY <2>8 DEF PollerFails, TypeOK, Held, lapi, poller, journal, stored
  <2>9. CASE Scan
    BY <2>9 DEF Scan, TypeOK, Held, lapi, poller, stored
  <2>10. CASE JournalLock
    BY <2>10 DEF JournalLock, TypeOK, Held, lapi, poller, journal, stored
  <2>11. CASE JournalApply
    BY <2>11 DEF JournalApply, TypeOK, Held, lapi, poller
  <2>12. CASE JournalSkips
    BY <2>12 DEF JournalSkips, TypeOK, Held, lapi, poller, stored
  <2>13. CASE ScanFails
    BY <2>13 DEF ScanFails, TypeOK, Held, lapi, poller, stored
  <2>14. CASE JournalctlExits
    BY <2>14 DEF JournalctlExits, TypeOK, Held, lapi, poller, stored
  <2>15. CASE Report \/ Killed
    BY <2>15 DEF Report, Killed, Exit, TypeOK, Held, lapi, stored
  <2>16. CASE Restart
    BY <2>16 DEF Restart, TypeOK, Held, lapi, poller, journal, stored
  <2>17. CASE OtherLocks
    BY <2>17 DEF OtherLocks, TypeOK, Held, lapi, poller, journal, stored
  <2>18. CASE OtherUnlocks
    BY <2>18 DEF OtherUnlocks, TypeOK, Held, lapi, poller, journal
  <2>19. CASE UNCHANGED vars
    BY <2>19 DEF vars, TypeOK, Held
  <2> QED
    BY <2>1, <2>2, <2>3, <2>4, <2>5, <2>6, <2>7, <2>8, <2>9, <2>10, <2>11,
       <2>12, <2>13, <2>14, <2>15, <2>16, <2>17, <2>18, <2>19
    DEF Next, Polling, Reading
<1> QED BY <1>1, <1>2, PTL DEF Spec

(* Every variable keeps its type (cmdProtect and all it starts).           *)
THEOREM ProtectType == Spec => []TypeOK
BY HeldType, PTL

-----------------------------------------------------------------------------
(* The batch the poller is going to apply: what it adds is in force or     *)
(* already revoked, and is not over when it is applied.                    *)
LEMMA ApplyKeepsBooks ==
  ASSUME TypeOK, Held, BooksInv, PollerApply PROVE BooksInv'
<1>1. /\ pending # None /\ pending \in Update /\ pending' = None
      /\ UNCHANGED <<created, active, over, fresh, gone, missed>>
      /\ crowdsec' \subseteq Updated(crowdsec, pending)
      /\ Updated(crowdsec, pending) \ over \subseteq crowdsec'
  BY PendingType DEF Held, PollerApply, lapi
<1>2. /\ pending.add \subseteq active \cup gone
      /\ pending.del \cap active = {}
      /\ pending.snapshot => active \subseteq pending.add \cup fresh
  BY <1>1 DEF BooksInv, PendingInv
<1>3. LapiInv' /\ PendingInv'
  BY <1>1 DEF BooksInv, LapiInv, PendingInv
<1>4. NoneLost'
  <2> SUFFICES ASSUME NEW d \in active \ missed, d \notin fresh
               PROVE d \in crowdsec'
    BY <1>1 DEF NoneLost
  <2>1. d \in crowdsec \/ d \in pending.add
    BY <1>1 DEF BooksInv, NoneLost, NeedsSnapshot
  <2>2. d \in Updated(crowdsec, pending)
    BY <1>2, <2>1 DEF Updated
  <2>3. d \notin over
    BY DEF BooksInv, LapiInv
  <2> QED BY <1>1, <2>2, <2>3
<1>5. NoneStale'
  <2> SUFFICES ASSUME NEW d \in crowdsec' \ (active \cup over \cup missed)
               PROVE d \in gone
    BY <1>1 DEF NoneStale
  <2>1. d \in Updated(crowdsec, pending)
    BY <1>1
  <2>2. CASE d \in pending.add
    BY <1>2, <2>2
  <2>3. CASE d \notin pending.add
    <3>1. ~pending.snapshot /\ d \in crowdsec /\ d \notin pending.del
      BY <2>1, <2>3 DEF Updated
    <3> QED BY <1>1, <3>1 DEF BooksInv, NoneStale, NeedsSnapshot
  <2> QED BY <2>2, <2>3
<1> QED BY <1>3, <1>4, <1>5 DEF BooksInv

(* A batch that LAPI sends takes over what it had to deliver; one that is  *)
(* rejected leaves it to the next snapshot (pollCrowdSec).                 *)
LEMMA StreamKeepsBooks ==
  ASSUME TypeOK, BooksInv, Stream PROVE BooksInv'
<1>1. /\ pending = None /\ fresh' = {} /\ gone' = {}
      /\ UNCHANGED <<created, active, over, crowdsec>>
      /\ missed' = IF startup THEN {} ELSE missed
  BY DEF Stream, Delivered, stored
<1>2. LapiInv'
  BY <1>1 DEF BooksInv, LapiInv
<1>3. CASE pending' = None
  <2>1. startup'
    BY <1>3, BatchType, ProtectAssumption DEF Stream, Update
  <2> QED
    BY <1>1, <1>2, <1>3, <2>1
    DEF BooksInv, PendingInv, NoneLost, NoneStale, NeedsSnapshot
<1>4. CASE pending' # None
  <2>1. pending' = Batch /\ startup' = startup
    BY <1>1, <1>4 DEF Stream
  <2>2. /\ pending'.snapshot = startup
        /\ pending'.add = IF startup THEN active ELSE fresh
        /\ pending'.del = IF startup THEN {} ELSE gone
    BY <2>1 DEF Batch
  <2>3. PendingInv'
    BY <1>1, <2>1, <2>2 DEF BooksInv, LapiInv, PendingInv
  <2>4. NoneLost'
    BY <1>1, <1>4, <2>1, <2>2 DEF BooksInv, NoneLost, NeedsSnapshot
  <2>5. NoneStale'
    BY <1>1, <1>4, <2>1, <2>2 DEF BooksInv, NoneStale, NeedsSnapshot
  <2> QED BY <1>2, <2>3, <2>4, <2>5 DEF BooksInv
<1> QED BY <1>3, <1>4

(* Every step keeps the books: what LAPI does moves a decision between     *)
(* them, the other commands drop only what is over, and a process that is  *)
(* gone starts again with a snapshot.                                      *)
LEMMA StepKeepsBooks ==
  ASSUME TypeOK, Held, BooksInv, [Next]_vars PROVE BooksInv'
<1> USE DEF BooksInv, LapiInv, PendingInv, NoneLost, NoneStale, NeedsSnapshot
<1>1. CASE Decide
  BY <1>1 DEF Decide, poller, stored
<1>2. CASE Revoke
  BY <1>2 DEF Revoke, poller, stored
<1>3. CASE Lapse
  BY <1>3 DEF Lapse, poller, stored
<1>4. CASE Stream
  BY <1>4, StreamKeepsBooks
<1>5. CASE StreamLost
  BY <1>5 DEF StreamLost, Delivered, poller, stored
<1>6. CASE PollerApply
  BY <1>6, ApplyKeepsBooks
<1>7. CASE JournalApply \/ OtherUnlocks
  BY <1>7 DEF JournalApply, OtherUnlocks, lapi, poller
<1>8. CASE Report \/ Killed
  BY <1>8 DEF Report, Killed, Exit, lapi, stored
<1>9. CASE \/ PollerLock \/ PollerFails \/ Scan \/ JournalLock
           \/ JournalSkips \/ ScanFails \/ JournalctlExits \/ Restart
           \/ OtherLocks \/ UNCHANGED vars
  <2>1. UNCHANGED <<created, active, over, fresh, gone, missed, startup,
                    pending, crowdsec>>
    BY <1>9
    DEF PollerLock, PollerFails, Scan, JournalLock, JournalSkips,
        ScanFails, JournalctlExits, Restart, OtherLocks, vars, lapi,
        poller, stored
  <2> QED BY <2>1
<1> QED
  BY <1>1, <1>2, <1>3, <1>4, <1>5, <1>6, <1>7, <1>8, <1>9
  DEF Next, Polling, Reading

(* The books are right at all times.                                       *)
LEMMA BooksAreKept == Spec => []BooksInv
<1>1. Init => BooksInv
  BY DEF Init, BooksInv, LapiInv, PendingInv, NoneLost, NoneStale
<1>2. TypeOK /\ Held /\ BooksInv /\ [Next]_vars => BooksInv'
  BY StepKeepsBooks
<1> QED BY <1>1, <1>2, HeldType, PTL DEF Spec

(* No decision in force is lost between LAPI and rules.json (pollCrowdSec).*)
THEOREM NoDecisionIsLost == Spec => []NoneLost
BY BooksAreKept, PTL DEF BooksInv

(* No ban stays in rules.json that CrowdSec revoked and the poller will    *)
(* not remove (pollCrowdSec, applyThreatUpdateToState).                    *)
THEOREM NoBanIsStale == Spec => []NoneStale
BY BooksAreKept, PTL DEF BooksInv

-----------------------------------------------------------------------------
(* The detector: for any jails, addresses and windows it bans exactly what *)
(* Windows bans, and frees the memory of those that stopped failing.       *)

(* What the assumptions say of one key's jail. *)
LEMMA Settings ==
  ASSUME NEW k \in Key
  PROVE  k[1] \in Jail /\ FindTime[k[1]] \in Nat /\ MaxRetries[k[1]] \in Nat
BY JailsAssumption DEF Key

(* The keys a message hits are keys. *)
LEMMA HitIsKey ==
  ASSUME NEW msg \in Message
  PROVE  Hit(msg) \subseteq Key
<1>1. PICK hits \in SUBSET Jail : msg \in [hits -> IP]
  BY DEF Message
<1>2. DOMAIN msg = hits /\ \A j \in hits : msg[j] \in IP
  BY <1>1
<1> QED
  BY <1>2 DEF Hit, Key

(* What the window of a key holds after a prune, trimmed, is what of its   *)
(* history is within find_time.                                            *)
LEMMA PrunedWindow ==
  ASSUME HInv, NEW k \in Key
  PROVE  /\ Within(Pruned[k], k[1], clock) = Within(history[k], k[1], clock)
         /\ Pruned[k] \subseteq history[k]
         /\ Within(history[k], k[1], clock) \subseteq Pruned[k]
<1>1. Pruned[k] = IF PruneDue THEN Within(failures[k], k[1], clock)
                  ELSE failures[k]
  BY DEF Pruned
<1>2. /\ failures[k] \subseteq history[k]
      /\ Within(history[k], k[1], clock) \subseteq failures[k]
  BY DEF HInv, Kept
<1> QED
  BY <1>1, <1>2 DEF Within

(* The detector begins with empty windows. *)
LEMMA HistoryInit == HInit => HInv /\ Promise!WInit
<1> SUFFICES ASSUME HInit
             PROVE  HInv /\ Promise!WInit
  OBVIOUS
<1>1. HType
  BY DEF HInit, DInit, HType
<1>2. Kept
  BY DEF HInit, DInit, Kept, Within
<1>3. Promise!WInit
  BY DEF HInit, DInit, Promise!WInit, Promise!Key, Key
<1> QED
  BY <1>1, <1>2, <1>3 DEF HInv

(* Time passing takes failures out of find_time, never into it. *)
LEMMA WindowShrinks ==
  ASSUME NEW k \in Key, NEW fails \in SUBSET Failure, NEW now \in Nat
  PROVE  Within(fails, k[1], now + 1) \subseteq Within(fails, k[1], now)
<1>1. ASSUME NEW f \in fails, f.at >= (now + 1) - FindTime[k[1]]
      PROVE  f.at >= now - FindTime[k[1]]
  <2>1. f.at \in Nat
    BY DEF Failure
  <2> QED
    BY <1>1, <2>1, Settings
<1> QED
  BY <1>1, Zenon DEF Within

(* A tick keeps the windows right. *)
LEMMA TickKeeps ==
  ASSUME HInv, HTick
  PROVE  HInv' /\ Promise!Tick
<1>1. /\ clock' = clock + 1
      /\ UNCHANGED <<seen, failures, bans, history>>
  BY DEF HTick, Tick
<1>2. HType'
  BY <1>1 DEF HInv, HType
<1>3. Kept'
  <2> SUFFICES ASSUME NEW k \in Key
               PROVE  /\ failures[k] \subseteq history[k]
                      /\ Within(history[k], k[1], clock + 1)
                           \subseteq failures[k]
    BY <1>1 DEF Kept
  <2>1. /\ failures[k] \subseteq history[k]
        /\ Within(history[k], k[1], clock) \subseteq failures[k]
    BY DEF HInv, Kept
  <2>2. history[k] \in SUBSET Failure /\ clock \in Nat
    BY DEF HInv, HType
  <2> QED
    BY <2>1, <2>2, WindowShrinks
<1> QED
  BY <1>1, <1>2, <1>3 DEF HInv, Promise!Tick

(* An observed message bans what Windows bans. *)
LEMMA ObserveKeeps ==
  ASSUME HInv, NEW msg \in Message, HObserve(msg)
  PROVE  HInv' /\ Promise!Log(msg)
<1> DEFINE new == [n |-> seen, at |-> clock]
           known(k) == Within(Pruned[k], k[1], clock) \cup {new}
           logged(k) == history[k] \cup {new}
           reached == {k \in Hit(msg) :
                         Cardinality(known(k)) >= MaxRetries[k[1]]}
           banned == {k \in Hit(msg) :
                     Cardinality(Within(logged(k), k[1], clock))
                       >= MaxRetries[k[1]]}
<1>1. seen \in Nat /\ clock \in Nat /\ new \in Failure /\ new.at = clock
  BY DEF HInv, HType, Failure
<1>2. ASSUME NEW k \in Key
      PROVE  known(k) = Within(logged(k), k[1], clock)
  <2>1. clock >= clock - FindTime[k[1]]
    BY <1>1, Settings
  <2>2. Within(logged(k), k[1], clock)
          = Within(history[k], k[1], clock) \cup {new}
    BY <1>1, <2>1 DEF Within
  <2> QED
    BY <2>2, PrunedWindow
<1>3. reached = banned
  <2> HIDE DEF known, logged
  <2> QED
    BY <1>2, HitIsKey
<1>4. /\ bans' = reached
      /\ failures' = [k \in Key |-> IF k \in reached THEN {}
                                    ELSE IF k \in Hit(msg) THEN known(k)
                                    ELSE Pruned[k]]
      /\ history' = [k \in Key |-> IF k \in reached THEN {}
                                   ELSE IF k \in Hit(msg) THEN logged(k)
                                   ELSE history[k]]
      /\ seen' = IF Hit(msg) = {} THEN seen ELSE seen + 1
      /\ clock' = clock
  BY DEF HObserve, Observe
<1>5. Promise!Log(msg)
  <2>1. \A S : Promise!Cardinality(S) = Cardinality(S)
    BY DEF Promise!Cardinality, Cardinality
  <2>2. /\ Promise!Key = Key /\ Promise!Hit(msg) = Hit(msg)
        /\ \A S, j, t : Promise!Within(S, j, t) = Within(S, j, t)
    BY DEF Promise!Key, Key, Promise!Hit, Hit, Promise!Within, Within
  <2>3. history' = [k \in Key |-> IF k \in banned THEN {}
                                   ELSE IF k \in Hit(msg) THEN logged(k)
                                   ELSE history[k]]
    BY <1>3, <1>4
  <2> DEFINE pbanned ==
        {k \in Promise!Hit(msg) :
           Promise!Cardinality(Promise!Within(logged(k), k[1], clock))
             >= MaxRetries[k[1]]}
  <2>4. pbanned = banned
    BY <2>1, <2>2
  <2>5. bans' = pbanned
    BY <1>3, <1>4, <2>4
  <2>6. history' = [k \in Promise!Key |->
                      IF k \in pbanned THEN {}
                      ELSE IF k \in Promise!Hit(msg) THEN logged(k)
                      ELSE history[k]]
    <3> HIDE DEF banned, pbanned, logged
    <3> QED
      BY <2>2, <2>3, <2>4
  <2>7. /\ seen' = IF Promise!Hit(msg) = {} THEN seen ELSE seen + 1
        /\ clock' = clock
    BY <1>4, <2>2
  <2> QED
    BY <2>5, <2>6, <2>7 DEF Promise!Log
<1> HIDE DEF reached, banned
<1>6. ASSUME NEW k \in Key
      PROVE  /\ failures'[k] \subseteq history'[k]
             /\ history'[k] \subseteq Failure
             /\ Within(history'[k], k[1], clock) \subseteq failures'[k]
  <2>1. /\ Within(Pruned[k], k[1], clock) \subseteq Pruned[k]
        /\ Pruned[k] \subseteq history[k]
        /\ Within(history[k], k[1], clock) \subseteq Pruned[k]
        /\ history[k] \subseteq Failure
    BY PrunedWindow DEF Within, HInv, HType
  <2>2. CASE k \in reached
    BY <2>2, <1>4 DEF Within
  <2>3. CASE k \notin reached /\ k \in Hit(msg)
    BY <2>1, <2>3, <1>1, <1>2, <1>4
  <2>4. CASE k \notin reached /\ k \notin Hit(msg)
    BY <2>1, <2>4, <1>4
  <2> QED
    BY <2>2, <2>3, <2>4
<1>7. HType'
  <2>1. /\ failures' = [k \in Key |-> failures'[k]]
        /\ history' = [k \in Key |-> history'[k]]
    BY <1>4
  <2>2. \A k \in Key : failures'[k] \subseteq Failure
                       /\ history'[k] \subseteq Failure
    BY <1>6
  <2>3. failures' \in [Key -> SUBSET Failure]
        /\ history' \in [Key -> SUBSET Failure]
    BY <2>1, <2>2
  <2> QED
    BY <1>1, <1>4, <2>3 DEF HType
<1>8. Kept'
  BY <1>4, <1>6 DEF Kept
<1> QED
  BY <1>5, <1>7, <1>8 DEF HInv

(* The trimmed and pruned windows of Detector lose nothing that counts:    *)
(* for any jails, addresses, find_time and max_retries it bans exactly     *)
(* when Windows, which forgets nothing, does.                              *)
THEOREM DetectorBansExactly == HSpec => BansExactly
<1>1. HInit => HInv /\ Promise!WInit
  BY HistoryInit
<1>2. HInv /\ [HNext]_hvars => HInv' /\ [Promise!WNext]_(Promise!wvars)
  <2> SUFFICES ASSUME HInv, [HNext]_hvars
               PROVE  HInv' /\ [Promise!WNext]_(Promise!wvars)
    OBVIOUS
  <2>1. CASE HTick
    BY <2>1, TickKeeps DEF Promise!WNext
  <2>2. CASE \E msg \in Message : HObserve(msg)
    BY <2>2, ObserveKeeps DEF Promise!WNext, Promise!Message, Message
  <2>3. CASE UNCHANGED hvars
    BY <2>3 DEF hvars, HInv, HType, Kept, Within, Promise!wvars
  <2> QED
    BY <2>1, <2>2, <2>3 DEF HNext
<1> QED
  BY <1>1, <1>2, PTL DEF HSpec, BansExactly, Promise!WSpec

-----------------------------------------------------------------------------
(* The detector's state keeps its types. *)
THEOREM DetectorType == DSpec => []DTypeOK
<1> USE JailsAssumption, DetectorAssumption
<1>1. DInit => DTypeOK
  BY DEF DInit, DTypeOK
<1>2. DTypeOK /\ [DNext]_dvars => DTypeOK'
  <2> SUFFICES ASSUME DTypeOK, [DNext]_dvars
               PROVE  DTypeOK'
    OBVIOUS
  <2>1. CASE Tick
    BY <2>1 DEF DTypeOK, Tick
  <2>2. ASSUME NEW msg \in Message, Observe(msg)
        PROVE  DTypeOK'
    <3> DEFINE F == [n : 0 .. MaxEvents, at : 0 .. MaxTime]
               new == [n |-> seen, at |-> clock]
               reached == {k \in Hit(msg) :
                             Cardinality(Within(Pruned[k], k[1], clock)
                                           \cup {new}) >= MaxRetries[k[1]]}
    <3>1. /\ clock' = clock
          /\ Hit(msg) # {} => seen < MaxEvents
          /\ seen' = IF Hit(msg) = {} THEN seen ELSE seen + 1
          /\ nextPrune' = IF PruneDue THEN clock + PruneEvery ELSE nextPrune
          /\ bans' = reached
          /\ failures' =
               [k \in Key |-> IF k \in reached THEN {}
                              ELSE IF k \in Hit(msg)
                              THEN Within(Pruned[k], k[1], clock) \cup {new}
                              ELSE Pruned[k]]
      BY <2>2 DEF Observe
    <3>2. clock' \in 0 .. MaxTime /\ seen' \in 0 .. MaxEvents
      BY <3>1 DEF DTypeOK
    <3>3. nextPrune' \in 0 .. MaxTime + PruneEvery
      BY <3>1 DEF DTypeOK
    <3>4. bans' \subseteq Key
      BY <3>1, HitIsKey
    <3>5. new \in F
      BY DEF DTypeOK
    <3>6. \A k \in Key : Pruned[k] \in SUBSET F
      BY DEF DTypeOK, Pruned, Within
    <3>7. \A k \in Key : Within(Pruned[k], k[1], clock) \in SUBSET F
      BY <3>6 DEF Within
    <3>8. failures' \in [Key -> SUBSET F]
      <4> HIDE DEF F, new, reached
      <4> QED
        BY <3>1, <3>5, <3>6, <3>7
    <3> QED
      BY <3>2, <3>3, <3>4, <3>8 DEF DTypeOK
  <2>3. CASE UNCHANGED dvars
    BY <2>3 DEF dvars, DTypeOK
  <2> QED
    BY <2>1, <2>2, <2>3 DEF DNext
<1> QED
  BY <1>1, <1>2, PTL DEF DSpec

(* An observed message leaves nothing older than find_time and a minute,   *)
(* and nothing older than the next prune will ask for.                     *)
LEMMA ObserveFrees ==
  ASSUME DTypeOK, Fresh, NEW msg \in Message, Observe(msg)
  PROVE  /\ Fresh'
         /\ \A k \in Key : \A f \in failures'[k] :
              f.at > clock - FindTime[k[1]] - PruneEvery
<1>1. /\ clock \in Nat /\ nextPrune \in Nat
      /\ PruneEvery \in Nat \ {0}
  BY JailsAssumption, DetectorAssumption DEF DTypeOK
<1>2. /\ clock' = clock
      /\ nextPrune' = IF PruneDue THEN clock + PruneEvery ELSE nextPrune
  BY DEF Observe
<1>3. ASSUME NEW k \in Key, NEW f \in failures'[k]
      PROVE  \/ f.at = clock
             \/ f \in Pruned[k]
  <2> DEFINE new == [n |-> seen, at |-> clock]
  <2>1. failures'[k] \subseteq Pruned[k] \cup {new}
    BY DEF Observe, Within
  <2> QED
    BY <2>1
<1>4. ASSUME NEW k \in Key, NEW f \in Pruned[k]
      PROVE  /\ f.at \in Nat
             /\ PruneDue => f.at >= clock - FindTime[k[1]]
             /\ ~PruneDue =>
                  f.at >= nextPrune - PruneEvery - FindTime[k[1]]
  <2>1. /\ f \in failures[k]
        /\ PruneDue => f.at >= clock - FindTime[k[1]]
    BY DEF Pruned, Within
  <2>2. f.at \in 0 .. MaxTime
    BY <2>1 DEF DTypeOK
  <2> QED
    BY <2>1, <2>2, JailsAssumption DEF Fresh
<1>5. ASSUME NEW k \in Key, NEW f \in failures'[k]
      PROVE  /\ f.at >= nextPrune' - PruneEvery - FindTime[k[1]]
             /\ f.at > clock - FindTime[k[1]] - PruneEvery
  <2>1. FindTime[k[1]] \in Nat
    BY Settings
  <2>2. CASE f.at = clock
    BY <1>1, <1>2, <2>1, <2>2 DEF Fresh, PruneDue
  <2>3. CASE f \in Pruned[k]
    BY <1>1, <1>2, <1>4, <2>1, <2>3 DEF PruneDue
  <2> QED
    BY <1>3, <2>2, <2>3
<1>6. nextPrune' <= clock' + PruneEvery
  BY <1>1, <1>2 DEF Fresh
<1> QED
  BY <1>5, <1>6 DEF Fresh

(* For any windows, no failure is held for longer than its jail's          *)
(* find_time and the time between two prunings while messages arrive.      *)
THEOREM DetectorFreesMemory == DSpec => MemoryFreed
<1>1. DInit => Fresh
  BY DetectorAssumption DEF DInit, Fresh
<1>2. DTypeOK /\ Fresh /\ [DNext]_dvars => Fresh'
  <2> SUFFICES ASSUME DTypeOK, Fresh, [DNext]_dvars
               PROVE  Fresh'
    OBVIOUS
  <2>1. CASE Tick
    BY <2>1, DetectorAssumption DEF Tick, Fresh, DTypeOK
  <2>2. CASE \E msg \in Message : Observe(msg)
    BY <2>2, ObserveFrees
  <2>3. CASE UNCHANGED dvars
    BY <2>3 DEF dvars, Fresh
  <2> QED
    BY <2>1, <2>2, <2>3 DEF DNext
<1>3. DTypeOK /\ Fresh /\ [DNext]_dvars =>
        [(\E msg \in Message : Observe(msg)) =>
           \A k \in Key : \A f \in failures'[k] :
             f.at > clock - FindTime[k[1]] - PruneEvery]_dvars
  BY ObserveFrees
<1>4. DSpec => []DTypeOK
  BY DetectorType
<1> QED
  BY <1>1, <1>2, <1>3, <1>4, PTL DEF DSpec, MemoryFreed

-----------------------------------------------------------------------------
(* The takeover.                                                           *)

USE DEF Absent

Host == [serving : SUBSET Managers, boot : SUBSET Managers, file : Docs \cup {Absent},
         kernel : Docs \cup {Absent}, enabled : BOOLEAN, unit : BOOLEAN]

Found == IF existed THEN previous ELSE Absent

\* What a takeover that nobody has meddled with knows of the host at each step.
Untouched ==
    /\ file = start.file /\ kernel = start.kernel
    /\ serving = start.serving /\ boot = start.boot
Stopped == serving = {} /\ boot = start.boot \ {opts.source}

Tracks ==
    /\ pc \in Handoff \cup {"load", "prompt", "save"} /\ opts.takeover
    /\ ~crossed
    /\ start.serving = {opts.source}
    /\ "conf" \in failed \/ enabled = start.enabled
    /\ unit = start.unit
    /\ pc \in {"load", "prompt", "save"} => Untouched
    /\ pc \notin {"load"} => start.file = Found
    /\ pc = "stop" => serving = start.serving /\ boot = start.boot /\ kernel = start.kernel
    /\ pc \in {"start", "persist", "flush"} => Stopped
    /\ pc = "start" => kernel \in {start.kernel, Absent}
    /\ pc = "persist" => kernel = merged
    /\ pc = "restart" => /\ serving \in {start.serving, {}}
                         /\ boot \in {start.boot, start.boot \ {opts.source}}
    /\ pc \in {"restart", "restore"} => "rules" \in failed \/ kernel \in {start.kernel, Absent}
    /\ pc = "restore" => \/ "source" \in failed
                         \/ /\ serving = start.serving
                            /\ boot \in {start.boot, start.boot \cup {opts.source}}

IInv ==
    /\ MTypeOK
    /\ NothingOverwritten
    /\ start \in Host
    /\ start # Forgotten => Tracks

-----------------------------------------------------------------------------
LEMMA LoadType == ASSUME NEW f \in Docs \cup {Absent} PROVE Load(f) \in Docs
BY MigrateAssumption DEF Docs, Load

LEMMA NoneIsNoState == Absent \notin Docs
BY MigrateAssumption DEF Docs

LEMMA ForgottenType == Forgotten \in Host
BY DEF Forgotten, Host

LEMMA SnapshotType == MTypeOK => Snapshot \in Host
BY DEF MTypeOK, Snapshot, Host

(* At the start nothing is known of a takeover.                            *)
LEMMA InitIInv == TInit => IInv
BY ForgottenType DEF TInit, MInit, IInv, MTypeOK, NothingOverwritten, Docs, Over, Handoff, Rollbacks, Warnings, Steps

(* Every step leaves the variables in their types.                         *)
LEMMA MTypeStep == MTypeOK /\ [TNext]_tvars => MTypeOK'
<1> SUFFICES ASSUME MTypeOK, TNext PROVE MTypeOK'
  BY DEF MTypeOK, tvars, mvars, host, copies
<1>0. crossed' \in BOOLEAN
  BY DEF TNext, MTypeOK
<1>e. {} \in Docs
  BY DEF Docs
<1> USE LoadType, <1>0, <1>e DEF MTypeOK, Goto, Over, Handoff, Steps, host, copies, Rollbacks, Warnings
<1>1. ASSUME NEW o \in Options, NEW auto \in BOOLEAN, Begin(o, auto) PROVE MTypeOK'
  BY <1>1 DEF Begin, Docs
<1>2. CASE AcquireLock BY <1>2 DEF AcquireLock
<1>3. CASE Recheck BY <1>3 DEF Recheck
<1>4. CASE LoadAndImport BY <1>4 DEF LoadAndImport, Docs, Options
<1>5. CASE Prompt BY <1>5 DEF Prompt
<1>6. CASE Save BY <1>6 DEF Save
<1>7. CASE StopSource BY <1>7 DEF StopSource, Disable, DisableFails
<1>8. CASE Start BY <1>8 DEF Start, ApplyRuleset
<1>9. CASE PersistEnabled BY <1>9 DEF PersistEnabled, TornConf
<1>10. CASE StopFirewall BY <1>10 DEF StopFirewall
<1>11. CASE RestoreSource BY <1>11 DEF RestoreSource, Enable, EnableFails, Options
<1>12. CASE RestoreState BY <1>12 DEF RestoreState
<1>13. CASE ApplyImported BY <1>13 DEF ApplyImported, ApplyRuleset
<1>14. CASE Kill BY <1>14 DEF Kill, Gone, CutShort, TornConf, Docs
<1>15. CASE Reboot BY <1>15 DEF Reboot, Gone, CutShort, TornConf, Docs
<1>16. CASE OtherCommand BY <1>16 DEF OtherCommand, Docs
<1>17. ASSUME NEW m \in Managers, Outside(m) PROVE MTypeOK'
  BY <1>17 DEF Outside
<1>18. ASSUME NEW read \in Copies, Unlocked(read) PROVE MTypeOK'
  BY <1>18, MigrateAssumption DEF Unlocked
<1>19. QED
  BY <1>1, <1>2, <1>3, <1>4, <1>5, <1>6, <1>7, <1>8, <1>9, <1>10, <1>11, <1>12, <1>13,
     <1>14, <1>15, <1>16, <1>17, <1>18 DEF TNext, Orderly, Step

(* While the flock is held the only others to write rules.json are app     *)
(* update and app default, and that is recorded; otherwise the state that  *)
(* was read stays the one that is there (cmdMigrate).                      *)
LEMMA OverwriteStep ==
  MTypeOK /\ NothingOverwritten /\ [TNext]_tvars => NothingOverwritten'
<1> SUFFICES ASSUME MTypeOK, NothingOverwritten, TNext PROVE NothingOverwritten'
  BY DEF NothingOverwritten, tvars, mvars, host, copies
<1> USE DEF NothingOverwritten, Holding, Goto, Over, Handoff, Steps, host, copies
<1>1. ASSUME Orderly, crossed' = (crossed /\ pc' \in Holding /\ ~Save) PROVE NothingOverwritten'
  <2>a. crossed' \/ ~crossed \/ pc' \notin Holding \/ Save
    BY <1>1
  <2> USE <2>a DEF Save
  <2>1. ASSUME NEW o \in Options, NEW auto \in BOOLEAN, Begin(o, auto) PROVE NothingOverwritten'
    BY <2>1 DEF Begin
  <2>2. CASE AcquireLock BY <2>2 DEF AcquireLock
  <2>3. CASE Recheck BY <2>3 DEF Recheck
  <2>4. CASE LoadAndImport BY <2>4 DEF LoadAndImport
  <2>5. CASE Prompt BY <2>5 DEF Prompt
  <2>6. CASE Save BY <2>6 DEF Save
  <2>7. CASE StopSource BY <2>7 DEF StopSource
  <2>8. CASE Start BY <2>8 DEF Start, ApplyRuleset
  <2>9. CASE PersistEnabled BY <2>9 DEF PersistEnabled
  <2>10. CASE StopFirewall BY <2>10 DEF StopFirewall
  <2>11. CASE RestoreSource BY <2>11 DEF RestoreSource
  <2>12. CASE RestoreState BY <2>12 DEF RestoreState
  <2>13. CASE ApplyImported BY <2>13 DEF ApplyImported, ApplyRuleset
  <2>14. CASE Kill BY <2>14 DEF Kill, Gone
  <2>15. CASE Reboot BY <2>15 DEF Reboot, Gone
  <2>16. CASE OtherCommand BY <2>16 DEF OtherCommand, LockFree
  <2>17. ASSUME NEW m \in Managers, Outside(m) PROVE NothingOverwritten'
    BY <2>17 DEF Outside
  <2>18. QED
    BY <1>1, <2>1, <2>2, <2>3, <2>4, <2>5, <2>6, <2>7, <2>8, <2>9, <2>10, <2>11, <2>12, <2>13,
       <2>14, <2>15, <2>16, <2>17 DEF Orderly, Step
<1>2. ASSUME NEW read \in Copies, Unlocked(read), crossed' = (crossed \/ (pc \in Holding /\ file' # file))
      PROVE  NothingOverwritten'
  BY <1>2 DEF Unlocked
<1>3. QED
  BY <1>1, <1>2 DEF TNext

(* What is known of a takeover is so after each of its steps, and is given *)
(* up when others act on the host.                                         *)
LEMMA TrackStep ==
  ASSUME IInv, TNext PROVE start' # Forgotten => Tracks'
<1> USE DEF IInv
<1>a. ASSUME pc = "recheck", pc' = "load", start' = Snapshot, start' # Forgotten PROVE Tracks'
  <2>1. Recheck
    BY <1>a DEF TNext, Orderly, Step, Begin, AcquireLock, Recheck, LoadAndImport, Prompt, Save, StopSource,
      Start, PersistEnabled, StopFirewall, RestoreSource, RestoreState, ApplyImported, Kill, Gone, Reboot,
      OtherCommand, Outside, Unlocked, Goto, Over
  <2>2. ~crossed'
    BY <1>a DEF TNext, Unlocked, Holding, Handoff
  <2>3. opts.takeover /\ Detected(opts.source) /\ UNCHANGED <<host, copies, failed>>
    BY <1>a, <2>1 DEF MTypeOK, Recheck, Goto, Over
  <2>4. QED
    BY <1>a, <2>2, <2>3 DEF Tracks, Untouched, Snapshot, Detected, host, copies, Handoff, Found
<1>b. ASSUME start' = start, start # Forgotten, pc' \notin Over, ~(pc' = pc /\ host' # host) PROVE Tracks'
  <2> DEFINE src == opts.source
  <2>0. Tracks /\ MTypeOK /\ NothingOverwritten
    BY <1>b
  <2>c. ~crossed'
    BY <1>b, <2>0 DEF TNext, Tracks, Unlocked, host
  <2> USE <1>b, <2>0, <2>c DEF Goto, Over, Handoff, Steps, Tracks, Untouched, Stopped, Found, host, copies
  <2>1. ASSUME NEW o \in Options, NEW auto \in BOOLEAN, Begin(o, auto) PROVE Tracks'
    BY <2>1 DEF Begin
  <2>2. CASE AcquireLock BY <2>2 DEF AcquireLock
  <2>3. CASE Recheck BY <2>3 DEF Recheck
  <2>4. CASE LoadAndImport BY <2>4 DEF LoadAndImport, Load
  <2>5. CASE Prompt BY <2>5 DEF Prompt
  <2>6. CASE Save BY <2>6 DEF Save
  <2>7. CASE StopSource BY <2>7 DEF StopSource, Disable, DisableFails
  <2>8. CASE Start
    <3>1. Load(file) = merged
      BY <2>8, NoneIsNoState DEF Start, NothingOverwritten, MTypeOK, Load
    <3>2. QED
      BY <2>8, <3>1 DEF Start, ApplyRuleset
  <2>9. CASE PersistEnabled
    <3>1. failed' = failed \cup {"conf"} /\ pc' = "flush"
      BY <2>9 DEF PersistEnabled
    <3>2. UNCHANGED <<serving, boot, file, kernel, unit, copies>>
      BY <2>9, <3>1 DEF PersistEnabled
    <3>3. QED
      BY <2>9, <3>1, <3>2 DEF PersistEnabled
  <2>10. CASE StopFirewall BY <2>10 DEF StopFirewall
  <2>11. CASE RestoreSource BY <2>11 DEF RestoreSource, Enable, EnableFails
  <2>12. CASE RestoreState BY <2>12 DEF RestoreState
  <2>13. CASE ApplyImported BY <2>13 DEF ApplyImported
  <2>14. CASE Kill BY <2>14 DEF Kill, Gone
  <2>15. CASE Reboot BY <2>15 DEF Reboot, Gone
  <2>16. CASE OtherCommand BY <2>16 DEF OtherCommand, LockFree
  <2>17. ASSUME NEW m \in Managers, Outside(m) PROVE Tracks'
    BY <2>17 DEF Outside
  <2>18. ASSUME NEW read \in Copies, Unlocked(read) PROVE Tracks'
    BY <2>18 DEF Unlocked
  <2>19. QED
    BY <2>1, <2>2, <2>3, <2>4, <2>5, <2>6, <2>7, <2>8, <2>9, <2>10, <2>11, <2>12, <2>13,
       <2>14, <2>15, <2>16, <2>17, <2>18 DEF TNext, Orderly, Step
<1>c. QED
  BY <1>a, <1>b DEF TNext, Record

(* What is recorded of the host has the types of the host.                 *)
LEMMA StartStep == MTypeOK /\ start \in Host /\ TNext => start' \in Host
BY ForgottenType, SnapshotType DEF TNext, Record

(* The invariant holds in every state of every migration.                  *)
THEOREM MigrateInvariance == TSpec => []IInv
<1>1. TInit => IInv
  BY InitIInv
<1>2. IInv /\ [TNext]_tvars => IInv'
  <2> SUFFICES ASSUME IInv, [TNext]_tvars PROVE IInv'
    OBVIOUS
  <2>1. MTypeOK' /\ NothingOverwritten'
    BY MTypeStep, OverwriteStep DEF IInv
  <2>2. CASE TNext
    BY <2>1, <2>2, StartStep, TrackStep DEF IInv
  <2>3. CASE UNCHANGED tvars
    <3>1. UNCHANGED <<serving, boot, file, kernel, enabled, unit, pc, opts, previous, existed, merged, failed, start, crossed>>
      BY <2>3 DEF tvars, mvars, host, copies
    <3>2. (start # Forgotten => Tracks)'
      BY <3>1 DEF IInv, Forgotten, Tracks, Untouched, Stopped, Found
    <3>3. QED
      BY <2>1, <3>1, <3>2 DEF IInv
  <2>4. QED
    BY <2>2, <2>3
<1>3. QED
  BY <1>1, <1>2, PTL DEF TSpec

(* The variables of a migration have their types, and nothing of the       *)
(* handoff happens without --takeover (cmdMigrate).                        *)
THEOREM MigrateType == TSpec => []MTypeOK
BY MigrateInvariance, PTL DEF IInv

(* Between the load and the save, and between the save and its undoing,    *)
(* nobody writes rules.json but app update and app default, whose work is  *)
(* what a migration may write over (acquireLock, appUpdate, appDefault).   *)
THEOREM NothingIsOverwritten == TSpec => []NothingOverwritten
BY MigrateInvariance, PTL DEF IInv

(* A takeover ends with bfw in the place of the manager, or with           *)
(* everything put back but what a failing call was to put back, and but    *)
(* ENABLED when it could not be written (persistEnabled).                  *)
THEOREM HandsOverOrPutsBack == TSpec => AllOrNothing
<1> DEFINE A == opts.takeover /\ start # Forgotten /\ pc' \in {"done", "failed"} =>
                   IF pc' = "done" /\ pc # "prompt" THEN TakenOver ELSE PutBack
<1>1. ASSUME IInv, TNext PROVE A
  <2> SUFFICES ASSUME start # Forgotten, pc' \in {"done", "failed"}
               PROVE IF pc' = "done" /\ pc # "prompt" THEN TakenOver ELSE PutBack
    OBVIOUS
  <2>0. Tracks /\ MTypeOK /\ NothingOverwritten
    BY <1>1 DEF IInv
  <2> USE <1>1, <2>0 DEF Goto, Over, Handoff, Steps, Tracks, host
  <2>1. CASE LoadAndImport
    BY <2>1 DEF LoadAndImport, PutBack, Untouched
  <2>2. CASE Prompt
    BY <2>2 DEF Prompt, PutBack, Untouched
  <2>3. CASE Save
    BY <2>3 DEF Save, PutBack, Untouched
  <2>4. CASE PersistEnabled
    <3>1. pc' = "done" /\ pc = "persist"
      BY <2>4 DEF PersistEnabled
    <3>2. opts.source \notin serving \cup boot
      BY <3>1 DEF Stopped
    <3>3. file = merged /\ kernel = merged
      BY <3>1 DEF NothingOverwritten
    <3>4. QED
      BY <2>4, <3>1, <3>2, <3>3 DEF PersistEnabled, TakenOver
  <2>5. CASE RestoreState
    BY <2>5 DEF RestoreState, PutBack, Found
  <2>6. CASE \/ OtherCommand \/ \E m \in Managers : Outside(m)
             \/ \E read \in Copies : Unlocked(read)
    BY <2>6 DEF OtherCommand, Outside, Unlocked
  <2>7. QED
    BY <2>1, <2>2, <2>3, <2>4, <2>5, <2>6 DEF TNext, Orderly, Step, Begin, AcquireLock, Recheck,
       StopSource, Start, ApplyRuleset, StopFirewall, RestoreSource, ApplyImported, Kill, Gone, Reboot
<1>2. ASSUME IInv, UNCHANGED tvars PROVE [A]_tvars
  BY <1>2
<1>3. IInv /\ [TNext]_tvars => [A]_tvars
  BY <1>1, <1>2
<1>4. QED
  BY <1>3, MigrateInvariance, PTL DEF TSpec, AllOrNothing
=============================================================================
