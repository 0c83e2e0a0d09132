------------------------------- MODULE Protect -------------------------------
(***************************************************************************)
(* bfw protect: the goroutine that reads the journal and the one that      *)
(* polls CrowdSec, writing threat bans to rules.json under the flock that  *)
(* the other commands use too, and systemd, which restarts the service     *)
(* when it exits with an error.  The CrowdSec Local API is external: its   *)
(* decisions, and what it has yet to deliver to this bouncer, as           *)
(* docs/crowdsec-lapi-research.md describes them.                          *)
(***************************************************************************)
EXTENDS Integers, FiniteSets

CONSTANTS Decision,  \* CrowdSec ban decisions, by id
          Bad,       \* those crowdSecUpdate rejects, e.g. for their scope
          Addr,      \* addresses the journal jails may ban
          Faults,    \* which of the failures below happen
          None

Fault == {"lost", "commit", "scan", "exit"}

ASSUME ProtectAssumption ==
  /\ Bad \subseteq Decision
  /\ Faults \subseteq Fault
  /\ None \notin Addr \cup [snapshot : BOOLEAN, add : SUBSET Decision,
                            del : SUBSET Decision]

Update == [snapshot : BOOLEAN, add : SUBSET Decision, del : SUBSET Decision]

VARIABLES
  created,     \* the decisions LAPI ever had
  active,      \* those in force
  over,        \* those whose time has passed
  fresh,       \* in force, not yet delivered to this bouncer
  gone,        \* deleted or over, not yet delivered to this bouncer
  missed,      \* what a lost answer delivered, until the next snapshot
  startup,     \* poller: the next request asks for a snapshot
  pending,     \* poller: the batch to apply, or None
  due,         \* journal reader: the address to ban, or None
  reader,      \* journal reader: "scanning" or "failed"
  journalctl,  \* whether the journalctl child runs
  running,     \* whether the service runs
  holder,      \* who holds the flock
  crowdsec,    \* rules.json: the CrowdSec bans, by decision
  local        \* rules.json: the bans of the jails, by address

lapi    == <<created, active, over, fresh, gone, missed>>
poller  == <<startup, pending>>
journal == <<due, reader, journalctl>>
stored  == <<crowdsec, local>>
vars    == <<created, active, over, fresh, gone, missed, startup, pending, due,
             reader, journalctl, running, holder, crowdsec, local>>

TypeOK ==
  /\ created \subseteq Decision /\ active \subseteq Decision
  /\ over \subseteq Decision
  /\ fresh \subseteq Decision /\ gone \subseteq Decision
  /\ missed \subseteq Decision
  /\ startup \in BOOLEAN
  /\ pending \in Update \cup {None}
  /\ due \in Addr \cup {None}
  /\ reader \in {"scanning", "failed"}
  /\ journalctl \in BOOLEAN
  /\ running \in BOOLEAN
  /\ holder \in {"nobody", "poller", "journal", "other"}
  /\ crowdsec \subseteq Decision
  /\ local \subseteq Addr

Init ==
  /\ created = {} /\ active = {} /\ over = {} /\ fresh = {} /\ gone = {}
  /\ missed = {}
  /\ startup = TRUE
  /\ pending = None
  /\ due = None
  /\ reader = "scanning"
  /\ journalctl = TRUE
  /\ running = TRUE
  /\ holder = "nobody"
  /\ crowdsec = {}
  /\ local = {}

-----------------------------------------------------------------------------
(* CrowdSec's Local API. *)

Decide == \E d \in Decision \ created :
  /\ created' = created \cup {d}
  /\ active' = active \cup {d}
  /\ fresh' = fresh \cup {d}
  /\ UNCHANGED <<over, gone, missed, poller, journal, running, holder, stored>>

(* A decision is deleted, or its time passes: LAPI reports both alike. *)
Revoke == \E d \in active :
  /\ active' = active \ {d}
  /\ fresh' = fresh \ {d}
  /\ gone' = gone \cup {d}
  /\ UNCHANGED <<created, over, missed>>
  /\ UNCHANGED <<poller, journal, running, holder, stored>>

Lapse == \E d \in created \ over :
  /\ over' = over \cup {d}
  /\ active' = active \ {d}
  /\ fresh' = fresh \ {d}
  /\ gone' = IF d \in active THEN gone \cup {d} ELSE gone
  /\ UNCHANGED <<created, missed, poller, journal, running, holder, stored>>

-----------------------------------------------------------------------------
(* The poller, pollCrowdSec. *)

(* The batch LAPI sends; crowdSecUpdate leaves the deletions out of a      *)
(* snapshot.                                                               *)
Batch == [snapshot |-> startup,
          add |-> IF startup THEN active ELSE fresh,
          del |-> IF startup THEN {} ELSE gone]

Delivered == fresh' = {} /\ gone' = {} /\ UNCHANGED <<created, active, over>>

(* A mutant of Stream: a bad batch is dropped and forgotten. *)
StreamDropsBad ==
  /\ running
  /\ pending = None
  /\ Delivered
  /\ missed' = IF startup THEN {} ELSE missed
  /\ UNCHANGED startup
  /\ pending' = IF Batch.add \cap Bad # {} THEN None ELSE Batch
  /\ UNCHANGED <<journal, running, holder, stored>>

(* A request is answered.  A batch that has a bad decision is dropped      *)
(* whole and a snapshot is asked for next.                                 *)
Stream ==
  /\ running
  /\ pending = None
  /\ Delivered
  /\ missed' = IF startup THEN {} ELSE missed
  /\ IF Batch.add \cap Bad # {}
     THEN startup' = TRUE /\ UNCHANGED pending
     ELSE pending' = Batch /\ UNCHANGED startup
  /\ UNCHANGED <<journal, running, holder, stored>>

(* A request that LAPI has answered fails at the client, in a timeout or   *)
(* when the body is read or decoded; one that LAPI has not answered        *)
(* changes nothing and is not shown.                                       *)
StreamLost ==
  /\ "lost" \in Faults
  /\ running
  /\ pending = None
  /\ Delivered
  /\ missed' = IF startup THEN missed ELSE missed \cup fresh \cup gone
  /\ UNCHANGED <<poller, journal, running, holder, stored>>

(* applyThreatUpdate gets the flock.  When it does not, it tries again at  *)
(* the next tick.                                                          *)
PollerLock ==
  /\ running
  /\ pending # None
  /\ holder = "nobody"
  /\ holder' = "poller"
  /\ UNCHANGED <<lapi, poller, journal, running, stored>>

(* A mutant of Updated: a snapshot does not replace what was there. *)
SnapshotAdds(bans, update) == (bans \cup update.add) \ update.del

(* A snapshot replaces the bans from CrowdSec, a delta adds and deletes. *)
Updated(bans, update) ==
  IF update.snapshot THEN update.add
  ELSE (bans \cup update.add) \ update.del

(* applyThreatUpdateToState and commitState, which drops what is over; a   *)
(* state that the batch does not change is left alone.                     *)
PollerApply ==
  /\ holder = "poller"
  /\ pending.add \cap over = {}
  /\ \/ crowdsec' = Updated(crowdsec, pending) \ over
     \/ Updated(crowdsec, pending) = crowdsec /\ UNCHANGED crowdsec
  /\ startup' = FALSE
  /\ pending' = None
  /\ holder' = "nobody"
  /\ UNCHANGED <<lapi, journal, running, local>>

(* A mutant of PollerFails: the batch is given up. *)
PollerGivesUp ==
  /\ holder = "poller"
  /\ pending.add \cap over # {} \/ "commit" \in Faults
  /\ holder' = "nobody"
  /\ pending' = None
  /\ UNCHANGED <<lapi, startup, journal, running, stored>>

(* A batch with a ban that is over is rejected, and a commit may fail: the *)
(* poller keeps the batch and applies it again.                            *)
PollerFails ==
  /\ holder = "poller"
  /\ pending.add \cap over # {} \/ "commit" \in Faults
  /\ holder' = "nobody"
  /\ UNCHANGED <<lapi, poller, journal, running, stored>>

-----------------------------------------------------------------------------
(* The journal reader, ScanJournal. *)

(* The detector returns a ban; it has already deleted the failures. *)
Scan == \E a \in Addr :
  /\ running
  /\ reader = "scanning"
  /\ journalctl
  /\ due = None
  /\ due' = a
  /\ UNCHANGED <<lapi, poller, reader, journalctl, running, holder, stored>>

JournalLock ==
  /\ running
  /\ due # None
  /\ holder = "nobody"
  /\ holder' = "journal"
  /\ UNCHANGED <<lapi, poller, journal, running, stored>>

JournalApply ==
  /\ holder = "journal"
  /\ local' = local \cup {due}
  /\ crowdsec' = crowdsec \ over
  /\ due' = None
  /\ holder' = "nobody"
  /\ UNCHANGED <<lapi, poller, reader, journalctl, running>>

(* When the flock is taken or the commit fails the ban is skipped. *)
JournalSkips ==
  /\ \/ running /\ due # None /\ holder \in {"poller", "other"}
        /\ UNCHANGED holder
     \/ holder = "journal" /\ "commit" \in Faults /\ holder' = "nobody"
  /\ due' = None
  /\ UNCHANGED <<lapi, poller, reader, journalctl, running, stored>>

(* The scanner stops at an error, e.g. a record of more than a megabyte,   *)
(* and the goroutine goes on to wait for journalctl to exit.               *)
ScanFails ==
  /\ "scan" \in Faults
  /\ running
  /\ reader = "scanning"
  /\ due = None
  /\ reader' = "failed"
  /\ UNCHANGED <<lapi, poller, due, journalctl, running, holder, stored>>

JournalctlExits ==
  /\ "exit" \in Faults
  /\ running
  /\ journalctl
  /\ journalctl' = FALSE
  /\ UNCHANGED <<lapi, poller, due, reader, running, holder, stored>>

-----------------------------------------------------------------------------
(* The service, and the other commands. *)

(* The process is gone, and with it its flock and all it knew. *)
Exit ==
  /\ running' = FALSE
  /\ startup' = TRUE
  /\ pending' = None
  /\ due' = None
  /\ reader' = "scanning"
  /\ journalctl' = TRUE
  /\ holder' = IF holder = "other" THEN holder ELSE "nobody"
  /\ UNCHANGED <<lapi, stored>>

(* cmdProtect returns an error once journalctl has exited and the reader   *)
(* is done with it.                                                        *)
Report == running /\ ~journalctl /\ due = None /\ Exit

(* The process is killed. *)
Killed == "exit" \in Faults /\ running /\ Exit

Restart ==
  /\ ~running
  /\ running' = TRUE
  /\ UNCHANGED <<lapi, poller, journal, holder, stored>>

(* Another command holds the flock for a while; the sweep, for one, drops  *)
(* what is over.                                                           *)
OtherLocks ==
  /\ holder = "nobody"
  /\ holder' = "other"
  /\ UNCHANGED <<lapi, poller, journal, running, stored>>

OtherUnlocks ==
  /\ holder = "other"
  /\ holder' = "nobody"
  /\ crowdsec' \in {crowdsec, crowdsec \ over}
  /\ local' \in SUBSET local
  /\ UNCHANGED <<lapi, poller, journal, running>>

Polling == Stream \/ StreamLost \/ PollerLock \/ PollerApply \/ PollerFails

Reading == Scan \/ JournalLock \/ JournalApply \/ JournalSkips \/ ScanFails

Next ==
  \/ Decide \/ Revoke \/ Lapse
  \/ Polling \/ Reading
  \/ JournalctlExits \/ Report \/ Killed \/ Restart
  \/ OtherLocks \/ OtherUnlocks

Spec == Init /\ [][Next]_vars

(* The ticker ticks and the requests time out, systemd restarts the        *)
(* service, commands let go of the flock, and the poller's attempts do not *)
(* miss it for ever.  Nothing makes journalctl exit.                       *)
Fairness ==
  /\ WF_vars(Stream) /\ SF_vars(PollerLock)
  /\ SF_vars(PollerApply) /\ WF_vars(PollerFails)
  /\ WF_vars(JournalLock \/ JournalApply \/ JournalSkips)
  /\ WF_vars(Report) /\ WF_vars(Restart) /\ WF_vars(OtherUnlocks)

FairSpec == Spec /\ Fairness

-----------------------------------------------------------------------------
NeedsSnapshot == startup /\ pending = None

(* No decision in force gets lost between LAPI and rules.json: what is not *)
(* stored yet is still to be delivered, waits in the pending batch, or is  *)
(* going to be in the next snapshot, whatever batch was rejected and       *)
(* whenever a commit failed or the service exited; unless the answer with  *)
(* it was lost after the last snapshot.                                    *)
NoneLost ==
  \A d \in active \ missed :
    \/ d \in crowdsec \cup fresh
    \/ pending # None /\ d \in pending.add
    \/ NeedsSnapshot

(* No ban outlives its decision: one that was revoked is on its way out,   *)
(* with the same exception (pollCrowdSec, applyThreatUpdateToState).       *)
NoneStale ==
  \A d \in crowdsec \ (active \cup over \cup missed) :
    \/ d \in gone
    \/ /\ pending # None
       /\ d \in pending.del \/ (pending.snapshot /\ d \notin pending.add)
    \/ NeedsSnapshot

(* CrowdSec and the outside world leave the service alone. *)
Quiet == ~(Decide \/ Revoke \/ Lapse \/ JournalctlExits \/ Killed \/ ScanFails)

Mirrors == crowdsec \ (over \cup missed) = active \ missed

(* Once CrowdSec's decisions stop changing, rules.json mirrors them, unless*)
(* a decision that is rejected is in force, one of the pending batch was   *)
(* over before the batch was applied, or the answer with it was lost.      *)
Converges ==
  <>[][Quiet]_vars =>
    <>[](\/ Mirrors
         \/ active \cap Bad # {}
         \/ pending # None /\ pending.add \cap over # {})
=============================================================================
