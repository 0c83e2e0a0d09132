------------------------------ MODULE Migrate ------------------------------
(***************************************************************************)
(* bfw migrate: the rules of another firewall manager are imported, and    *)
(* with --takeover that manager is stopped and bfw started in its place.   *)
(* Any call may fail, the command may be killed between any two, the host  *)
(* may be rebooted, managers are started and stopped by others, other bfw  *)
(* commands run whenever the flock is free, and the two that never take it *)
(* at any time.                                                            *)
(***************************************************************************)
EXTENDS FiniteSets

CONSTANTS Managers,  \* ufw, firewalld, netfilter-persistent and nftables
          Own,       \* the rules that other bfw commands store
          Nothing,   \* no rules at all
          Copies     \* the states that an app command may have read

\* A state is told by where its rules come from.
Docs == SUBSET (Managers \cup {Own})

ASSUME MigrateAssumption ==
    Nothing \notin Managers \cup {Own} /\ Copies \subseteq Docs

\* No file, no tables: not the same as a state without rules.
Absent == {Nothing}

VARIABLES serving,   \* the managers that are active
          boot,      \* the managers that are started at boot
          file,      \* rules.json
          kernel,    \* the tables of bfw
          enabled,   \* ENABLED of better-firewall.conf
          unit,      \* better-firewall.service is enabled
          pc,        \* what the command does next
          opts,      \* its source, --takeover and --replace
          previous,  \* the state it read
          existed,   \* rules.json was there
          merged,    \* the state it imports
          failed     \* which of its calls have failed, of those that leave something behind

host == <<serving, boot, file, kernel, enabled, unit>>
copies == <<opts, previous, existed, merged>>
mvars == <<host, pc, copies, failed>>

Rollbacks == {"source", "state", "rules"}
Warnings == {"unit", "conf"}
Options == [source : Managers, takeover : BOOLEAN, replace : BOOLEAN]
NoOptions == [source |-> Nothing, takeover |-> FALSE, replace |-> FALSE]

\* The same, had the flock been given back while the user is asked.
LockFreeAtPrompt == pc \in {"done", "failed", "killed", "lock", "prompt"}

\* The flock is taken after "lock" and given back at the end.
Over == {"done", "failed", "killed"}
LockFree == pc \in Over \cup {"lock"}

\* The steps from the stop of the source on, which only --takeover reaches.
Handoff == {"stop", "start", "persist", "flush", "restart", "restore"}
Steps == {"lock", "recheck", "load", "prompt", "save", "apply"} \cup Handoff

\* What a load makes of rules.json: the defaults when there is none.
Load(f) == IF f = Absent THEN {} ELSE f

MInit ==
    /\ serving \in SUBSET Managers /\ boot \in SUBSET Managers
    /\ file \in {Absent, {Own}}
    /\ kernel = Absent /\ enabled = FALSE /\ unit = FALSE
    /\ pc = "done"
    /\ opts = NoOptions
    /\ previous = {} /\ existed = FALSE /\ merged = {} /\ failed = {}

-----------------------------------------------------------------------------
(* The command, call by call.                                              *)

\* The command goes on, or ends, and what it had read is gone.
Goto(l) ==
    /\ pc' = l
    /\ IF l \notin Over THEN UNCHANGED copies
       ELSE opts' = NoOptions /\ previous' = {} /\ existed' = FALSE /\ merged' = {}

\* The only manager that is active; more or none of them end the command.
Detected(m) == serving = {m}

\* The source is named or detected; a takeover of a named one needs it to be
\* the one detected.
Begin(o, auto) ==
    /\ pc \in Over
    /\ auto \/ o.takeover => Detected(o.source)
    /\ pc' = "lock" /\ opts' = o /\ failed' = {}
    /\ UNCHANGED <<host, previous, existed, merged>>

AcquireLock ==
    /\ pc = "lock"
    /\ \/ Goto(IF opts.takeover THEN "recheck" ELSE "load")
       \/ Goto("failed")
    /\ UNCHANGED <<host, failed>>

Recheck ==
    /\ pc = "recheck"
    /\ Goto(IF Detected(opts.source) THEN "load" ELSE "failed")
    /\ UNCHANGED <<host, failed>>

\* The same, had the import worked on the state itself.
LoadAndImportInPlace ==
    /\ pc = "load"
    /\ \/ /\ merged' = (IF opts.replace THEN {} ELSE Load(file)) \cup {opts.source}
          /\ previous' = IF opts.replace THEN Load(file) ELSE merged'
          /\ existed' = (file # Absent)
          /\ pc' = (IF opts.takeover THEN "prompt" ELSE "save")
          /\ UNCHANGED opts
       \/ Goto("failed")
    /\ UNCHANGED <<host, failed>>

\* The import works on a copy of the state, or on the defaults; a source that
\* cannot be read or says what bfw cannot is refused.
LoadAndImport ==
    /\ pc = "load"
    /\ \/ /\ previous' = Load(file)
          /\ existed' = (file # Absent)
          /\ merged' = (IF opts.replace THEN {} ELSE Load(file)) \cup {opts.source}
          /\ pc' = (IF opts.takeover THEN "prompt" ELSE "save")
          /\ UNCHANGED opts
       \/ Goto("failed")
    /\ UNCHANGED <<host, failed>>

\* The user may say no, which is no error.
Prompt ==
    /\ pc = "prompt"
    /\ Goto("save") \/ Goto("done")
    /\ UNCHANGED <<host, failed>>

\* The same, had every migration gone on to the handoff.
SaveThenStop ==
    /\ pc = "save"
    /\ \/ file' = merged /\ Goto("stop")
       \/ UNCHANGED file /\ Goto("failed")
    /\ UNCHANGED <<serving, boot, kernel, enabled, unit, failed>>

Save ==
    /\ pc = "save"
    /\ \/ file' = merged /\ Goto(IF opts.takeover THEN "stop" ELSE "apply")
       \/ UNCHANGED file /\ Goto("failed")
    /\ UNCHANGED <<serving, boot, kernel, enabled, unit, failed>>

\* A call that fails has done nothing, all or a part.  The tables of bfw go
\* with those of a manager that flushes the whole ruleset.
Disable(m) == serving' = serving \ {m} /\ boot' = boot \ {m}
DisableFails(m) == serving' \in {serving, serving \ {m}} /\ boot' \in {boot, boot \ {m}}
Enable(m) == serving' = serving \cup {m} /\ boot' = boot \cup {m}
EnableFails(m) == serving' \in {serving, serving \cup {m}} /\ boot' \in {boot, boot \cup {m}}

StopSource ==
    /\ pc = "stop"
    /\ \/ Disable(opts.source) /\ Goto("start")
       \/ DisableFails(opts.source) /\ Goto("restart")
    /\ kernel' \in {kernel, Absent}
    /\ UNCHANGED <<file, enabled, unit, failed>>

\* The tables are replaced in one transaction.  Fragments come in a second
\* one, and when that fails all is flushed; nobody looks if the flush fails.
ApplyRuleset(doc, loaded, broken) ==
    \/ kernel' = doc /\ Goto(loaded) /\ UNCHANGED failed
    \/ UNCHANGED kernel /\ Goto(broken) /\ UNCHANGED failed
    \/ kernel' = Absent /\ Goto(broken) /\ UNCHANGED failed
    \/ kernel' = doc /\ Goto(broken) /\ failed' = failed \cup {"rules"}

Start ==
    /\ pc = "start"
    /\ ApplyRuleset(Load(file), "persist", "restart")
    /\ UNCHANGED <<serving, boot, file, enabled, unit>>

\* better-firewall.conf is written in place: a write that fails, or that a
\* kill cuts short, leaves the old file, an empty one, which reads as no, or
\* the new one.
TornConf == {enabled, FALSE, TRUE}

\* ENABLED is what a takeover needs; for the unit there is a warning.
PersistEnabled ==
    /\ pc = "persist"
    /\ \/ /\ enabled' = TRUE
          /\ \/ unit' = TRUE /\ UNCHANGED failed
             \/ UNCHANGED unit /\ failed' = failed \cup {"unit"}
          /\ Goto("done")
       \/ /\ enabled' \in TornConf /\ UNCHANGED unit
          /\ failed' = failed \cup {"conf"}
          /\ Goto("flush")
    /\ UNCHANGED <<serving, boot, file, kernel>>

\* The same, had the source not been started again after it.
StopFirewallOnly ==
    /\ pc = "flush"
    /\ \/ kernel' = Absent /\ UNCHANGED failed
       \/ UNCHANGED kernel /\ failed' = failed \cup {"rules"}
    /\ Goto("restore")
    /\ UNCHANGED <<serving, boot, file, enabled, unit>>

StopFirewall ==
    /\ pc = "flush"
    /\ \/ kernel' = Absent /\ UNCHANGED failed
       \/ UNCHANGED kernel /\ failed' = failed \cup {"rules"}
    /\ Goto("restart")
    /\ UNCHANGED <<serving, boot, file, enabled, unit>>

RestoreSource ==
    /\ pc = "restart"
    /\ \/ Enable(opts.source) /\ UNCHANGED failed
       \/ EnableFails(opts.source) /\ failed' = failed \cup {"source"}
    /\ kernel' \in {kernel, Absent}
    /\ Goto("restore")
    /\ UNCHANGED <<file, enabled, unit>>

RestoreState ==
    /\ pc = "restore"
    /\ \/ file' = (IF existed THEN previous ELSE Absent) /\ UNCHANGED failed
       \/ UNCHANGED file /\ failed' = failed \cup {"state"}
    /\ Goto("failed")
    /\ UNCHANGED <<serving, boot, kernel, enabled, unit>>

\* Without --takeover an enabled firewall loads what has been imported.
ApplyImported ==
    /\ pc = "apply"
    /\ IF enabled THEN ApplyRuleset(merged, "done", "failed")
       ELSE Goto("done") /\ UNCHANGED <<kernel, failed>>
    /\ UNCHANGED <<serving, boot, file, enabled, unit>>

Step ==
    \/ AcquireLock \/ Recheck \/ LoadAndImport \/ Prompt \/ Save
    \/ StopSource \/ Start \/ PersistEnabled \/ StopFirewall
    \/ RestoreSource \/ RestoreState \/ ApplyImported

-----------------------------------------------------------------------------
(* What happens to it.                                                     *)

\* The unit is enabled after the file has been written.
CutShort ==
    IF pc = "persist"
    THEN enabled' \in TornConf /\ unit' \in IF enabled' THEN {unit, TRUE} ELSE {unit}
    ELSE UNCHANGED <<enabled, unit>>

Gone ==
    /\ Goto("killed")
    /\ CutShort
    /\ failed' = {}
    /\ UNCHANGED <<file, boot>>

Kill == pc \in Steps /\ Gone /\ UNCHANGED <<serving, kernel>>

\* The unit loads rules.json if ENABLED says so.
Reboot ==
    /\ Gone
    /\ serving' = boot
    /\ kernel' \in {IF unit' /\ enabled' THEN Load(file) ELSE Absent, Absent}

OtherCommand ==
    /\ LockFree
    /\ \/ /\ file' = Load(file) \cup {Own}
          /\ kernel' = (IF enabled THEN file' ELSE kernel)
          /\ UNCHANGED <<enabled, unit>>
       \/ /\ kernel' = Load(file) /\ enabled' = TRUE /\ unit' = TRUE
          /\ UNCHANGED file
       \/ /\ kernel' = Absent /\ enabled' = FALSE /\ unit' = FALSE
          /\ UNCHANGED file
    /\ UNCHANGED <<serving, boot, pc, copies, failed>>

\* app update and app default take no flock.  What they save they have read
\* at any time before, so that it may be as old as one likes; what an app
\* update then loads, if ENABLED says yes at that moment, is that copy, or
\* nothing when the fragments fail.
Unlocked(read) ==
    /\ \/ file' = read /\ UNCHANGED kernel
       \/ enabled /\ kernel' \in {read, Absent} /\ UNCHANGED file
    /\ UNCHANGED <<serving, boot, enabled, unit, pc, copies, failed>>

\* Somebody starts or stops a manager, at any time.
Outside(m) ==
    /\ \/ serving' = serving \cup {m} \/ serving' = serving \ {m}
    /\ kernel' \in {kernel, Absent}
    /\ UNCHANGED <<boot, file, enabled, unit, pc, copies, failed>>

Orderly ==
    \/ \E o \in Options, auto \in BOOLEAN : Begin(o, auto)
    \/ Step
    \/ Kill \/ Reboot \/ OtherCommand
    \/ \E m \in Managers : Outside(m)

MNext == Orderly \/ \E read \in Copies : Unlocked(read)

MSpec == MInit /\ [][MNext]_mvars
=============================================================================
