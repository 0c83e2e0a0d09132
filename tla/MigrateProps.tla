---------------------------- MODULE MigrateProps ----------------------------
(***************************************************************************)
(* What a migration leaves behind.                                         *)
(***************************************************************************)
EXTENDS Migrate

VARIABLES start,   \* the host as a takeover found it when it looked for the
                   \* second time, under the flock; forgotten when others have
                   \* worked on it since
          crossed  \* app update or app default saved since the migration last
                   \* read or wrote rules.json

tvars == <<mvars, start, crossed>>

Snapshot == [serving |-> serving, boot |-> boot, file |-> file, kernel |-> kernel,
             enabled |-> enabled, unit |-> unit]

Forgotten == [serving |-> {}, boot |-> {}, file |-> Absent, kernel |-> Absent,
              enabled |-> FALSE, unit |-> FALSE]

\* The steps between the load of rules.json and the end.
Holding == {"prompt", "save", "apply"} \cup Handoff

TInit == MInit /\ start = Forgotten /\ crossed = FALSE

Record ==
    start' = IF pc = "recheck" /\ pc' = "load" THEN Snapshot
             ELSE IF pc' \in Over \/ (pc' = pc /\ host' # host) THEN Forgotten
             ELSE start

TNext ==
    /\ \/ /\ Orderly
          /\ crossed' = (crossed /\ pc' \in Holding /\ ~Save)
       \/ \E read \in Copies :
             /\ Unlocked(read)
             /\ crossed' = (crossed \/ (pc \in Holding /\ file' # file))
    /\ Record

TSpec == TInit /\ [][TNext]_tvars

\* A command that has begun runs on; nobody has to answer its question.
TFairSpec == TSpec /\ WF_tvars(TNext /\ Step /\ pc # "prompt")

MTypeOK ==
    /\ serving \in SUBSET Managers /\ boot \in SUBSET Managers
    /\ file \in Docs \cup {Absent} /\ kernel \in Docs \cup {Absent}
    /\ enabled \in BOOLEAN /\ unit \in BOOLEAN
    /\ pc \in Steps \cup Over
    /\ IF pc \in Steps THEN opts \in Options ELSE opts = NoOptions
    /\ previous \in Docs /\ existed \in BOOLEAN /\ merged \in Docs
    /\ failed \in SUBSET (Rollbacks \cup Warnings)
    /\ pc \in Handoff \cup {"recheck", "prompt"} => opts.takeover
    /\ crossed \in BOOLEAN

(* What a migration writes over is what it knows of: the state it saves    *)
(* was made from what is there, and what it loads, and what it puts back   *)
(* when it fails, takes the place of what it saved (cmdMigrate's flock).   *)
(* The exception is what app update and app default, which take no flock,  *)
(* have saved meanwhile: that is lost.                                     *)
NothingOverwritten ==
    \/ crossed
    \/ /\ pc \in {"prompt", "save"} => previous = Load(file) /\ existed = (file # Absent)
       /\ pc \in Handoff \cup {"apply"} => file = merged

TakenOver ==
    /\ file' = merged /\ kernel' = merged /\ enabled'
    /\ opts.source \notin serving' \cup boot'
    /\ "unit" \in failed' \/ unit'

PutBack ==
    /\ "state" \in failed' \/ file' = start.file
    /\ "source" \in failed' \/ serving' = start.serving
    /\ "source" \in failed' \/ boot' \in {start.boot, start.boot \cup {opts.source}}
    /\ "rules" \in failed' \/ kernel' \in {start.kernel, Absent}
    /\ "conf" \in failed' \/ enabled' = start.enabled
    /\ unit' = start.unit

(* A takeover on which nobody else works, and that says it has worked, has *)
(* put bfw with the imported rules in the place of the manager, now and at *)
(* the next boot; one that says it has not, or that was declined, has put  *)
(* back rules.json (or its absence) and the manager, has left the unit as  *)
(* it was, and no imported rules are loaded: all but what a call that      *)
(* failed while putting things back was to do.  ENABLED is as it was too,  *)
(* unless its own write failed ("conf" in failed): nothing puts it back,   *)
(* so that it may say yes of a firewall that is off, or no of one that was *)
(* on (persistEnabled, SaveConf).                                          *)
AllOrNothing ==
    [][opts.takeover /\ start # Forgotten /\ pc' \in {"done", "failed"} =>
           IF pc' = "done" /\ pc # "prompt" THEN TakenOver ELSE PutBack]_tvars

(* Once the manager is being stopped, the command comes to an end, and     *)
(* then a manager or bfw filters, unless the command was killed, a call    *)
(* that restores failed, or others worked on the host meanwhile.           *)
NeverLeftBare ==
    pc = "stop" ~> \/ pc = "killed"
                   \/ /\ pc \in Over
                      /\ serving # {} \/ kernel # Absent \/ failed \cap Rollbacks # {}
                   \/ start = Forgotten /\ pc \in Steps
=============================================================================
