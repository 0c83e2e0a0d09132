------------------------------ MODULE Firewall ------------------------------
(***************************************************************************)
(* The bfw commands as concurrent processes over the files they share      *)
(* (rules.json, better-firewall.conf, /etc/default/better-firewall), the   *)
(* flock and the kernel's tables.  A command takes the lock, loads the     *)
(* state, edits its copy and then works off a plan: the calls its handler  *)
(* makes, in the handler's order, one per step, so that other processes, a *)
(* failing call, a kill or a reboot can come between any two of them.      *)
(***************************************************************************)
EXTENDS Ruleset, Sequences

CONSTANTS Proc,        \* processes: interactive commands, the sweep timer, protect
          Docs,        \* the documents an import may read
          Ops,         \* the commands issued in this instance
          Faults,      \* the calls that may fail, and "kill" and "reboot"
          Free         \* the value of the lock when nobody holds it

Locked == {"nat", "threat", "sweep", "panicOn", "panicOff", "default",
           "logging", "import", "enable", "disable", "reload", "reset",
           "bootLoad", "bootUnload"}
Unlocked == {"rule", "appUpdate", "appDefault"}
OpName == Locked \cup Unlocked

Step == {"lock", "load", "apply", "fragments", "save", "flush", "ifEnabled",
         "enable", "disable", "conf", "readEtc", "etc",
         "backupRules", "backupFragments"}

ASSUME FirewallAssumption ==
  /\ Ops \subseteq OpName
  /\ Faults \subseteq Step \cup {"kill", "reboot"}
  /\ Docs \subseteq Document
  /\ Free \notin Proc

VARIABLES
  file,       \* rules.json; a missing file reads as Defaults
  enabled,    \* ENABLED in better-firewall.conf
  etc,        \* the DEFAULT_*_POLICY of /etc/default/better-firewall
  fragments,  \* the before/after fragment files exist
  inet,       \* the table inet better-firewall in the kernel
  nat,        \* the tables ip/ip6 better-firewall-nat; {} when absent
  expired,    \* the rules and bans whose expiry time has passed
  lock,       \* the process holding the flock, or Free
  op,         \* the command each process runs, or "none"
  plan,       \* the calls it still has to make
  work        \* its copy of the state; Defaults when it runs nothing

disk   == <<file, enabled, etc, fragments>>
kernel == <<inet, nat>>
procs  == <<lock, op, plan, work>>
vars   == <<file, enabled, etc, fragments, inet, nat, expired,
            lock, op, plan, work>>

TypeOK ==
  /\ file \in State
  /\ enabled \in BOOLEAN
  /\ etc \in Policy
  /\ fragments \in BOOLEAN
  /\ inet \in Table
  /\ nat \subseteq NATRule
  /\ expired \subseteq Rule \cup Ban
  /\ lock \in Proc \cup {Free}
  /\ op \in [Proc -> OpName \cup {"none"}]
  /\ plan \in [Proc -> Seq(Step)]
  /\ work \in [Proc -> State]

Init ==
  /\ file = Defaults
  /\ enabled = FALSE
  /\ etc = InstallPolicy
  /\ fragments \in BOOLEAN
  /\ inet = NoTable
  /\ nat = {}
  /\ expired = {}
  /\ lock = Free
  /\ op = [p \in Proc |-> "none"]
  /\ plan = [p \in Proc |-> <<>>]
  /\ work = [p \in Proc |-> Defaults]

-----------------------------------------------------------------------------
(* The handlers.  When the flock is taken a command exits with an error    *)
(* and has done nothing, so Begin is only enabled when the lock is free.   *)

(* A mutant of Begin: the lock is taken over. *)
BeginUnlocked(p, o, st, steps) ==
  /\ o \in Ops
  /\ op[p] = "none"
  /\ lock' = p
  /\ op' = [op EXCEPT ![p] = o]
  /\ work' = [work EXCEPT ![p] = st]
  /\ plan' = [plan EXCEPT ![p] = steps]
  /\ UNCHANGED <<disk, kernel, expired>>

Begin(p, o, st, steps) ==
  /\ o \in Ops
  /\ op[p] = "none"
  /\ lock = Free
  /\ lock' = p
  /\ op' = [op EXCEPT ![p] = o]
  /\ work' = [work EXCEPT ![p] = st]
  /\ plan' = [plan EXCEPT ![p] = steps]
  /\ UNCHANGED <<disk, kernel, expired>>

(* A mutant of CommitPlan: the file first. *)
SaveFirst == IF enabled THEN <<"save", "apply", "fragments">> ELSE <<"save">>

(* commitState: the kernel first when the firewall is live, then the file. *)
CommitPlan == IF enabled THEN <<"apply", "fragments", "save">> ELSE <<"save">>

NatAdd(p) == \E n \in NATRule :
  Begin(p, "nat", Sweep([file EXCEPT !.nat = @ \cup {n}], expired), CommitPlan)

NatDelete(p) == \E n \in file.nat :
  Begin(p, "nat", Sweep([file EXCEPT !.nat = @ \ {n}], expired), CommitPlan)

(* applyThreatUpdate with one ban added, or with one deletion. *)
ThreatUpdate(p) == \E b \in Ban \ expired :
  \E bans \in {file.bans \cup {b}, file.bans \ {b}} :
    Begin(p, "threat", Sweep([file EXCEPT !.bans = bans], expired),
          IF bans = file.bans THEN <<>> ELSE CommitPlan)

(* Mutants of CmdSweep: it drops every ban, or it only counts the rules. *)
SweepForgetsBans(p) ==
  Begin(p, "sweep", [Sweep(file, expired) EXCEPT !.bans = {}],
        IF Sweep(file, expired) = file THEN <<>> ELSE CommitPlan)

SweepCountsRules(p) ==
  Begin(p, "sweep", Sweep(file, expired),
        IF file.rules \cap expired = {} THEN <<>> ELSE CommitPlan)

CmdSweep(p) ==
  Begin(p, "sweep", Sweep(file, expired),
        IF Sweep(file, expired) = file THEN <<>> ELSE CommitPlan)

(* A mutant of PanicOn: the file first. *)
PanicSavesFirst(p) ==
  Begin(p, "panicOn", [file EXCEPT !.panic = TRUE],
        IF file.panic THEN <<>> ELSE <<"save", "apply", "fragments">>)

(* The drop-all copy is applied whether or not the firewall is enabled. *)
PanicOn(p) ==
  Begin(p, "panicOn", [file EXCEPT !.panic = TRUE],
        IF file.panic THEN <<>> ELSE <<"apply", "fragments", "save">>)

PanicOff(p) ==
  Begin(p, "panicOff", [file EXCEPT !.panic = FALSE],
        IF ~file.panic THEN <<>>
        ELSE IF enabled THEN <<"save", "apply", "fragments">>
        ELSE <<"save", "flush">>)

(* Mutants of CmdDefault: it edits a fresh state, or applies before it    *)
(* writes the policy.                                                      *)
DefaultOnFresh(p) == \E pol \in Policy :
  Begin(p, "default", [Defaults EXCEPT !.policy = pol],
        <<"save", "etc", "ifEnabled", "apply", "fragments">>)

DefaultEtcLast(p) == \E pol \in Policy :
  Begin(p, "default", [file EXCEPT !.policy = pol],
        <<"save", "ifEnabled", "apply", "fragments", "etc">>)

CmdDefault(p) == \E pol \in Policy :
  Begin(p, "default", [file EXCEPT !.policy = pol],
        <<"save", "etc", "ifEnabled", "apply", "fragments">>)

CmdLogging(p) ==
  Begin(p, "logging", file, <<"save", "conf", "ifEnabled", "apply", "fragments">>)

CmdImport(p) == \E doc \in Docs, replace \in BOOLEAN :
  Begin(p, "import", Import(file, doc, replace),
        <<"save", "ifEnabled", "apply", "fragments">>)

CmdEnable(p) ==
  Begin(p, "enable", file,
        IF inet.loaded THEN <<"enable">>
        ELSE <<"load", "apply", "fragments", "enable">>)

CmdDisable(p) == Begin(p, "disable", file, <<"flush", "disable">>)

CmdReload(p) ==
  Begin(p, "reload", file,
        IF enabled THEN <<"flush", "load", "apply", "fragments", "enable">>
        ELSE <<>>)

CmdReset(p) ==
  Begin(p, "reset", Defaults,
        IF enabled
        THEN <<"flush", "backupRules", "backupFragments", "save", "disable">>
        ELSE <<"backupRules", "backupFragments", "save", "disable">>)

BootLoad(p) ==
  Begin(p, "bootLoad", file,
        IF enabled THEN <<"load", "apply", "fragments">> ELSE <<>>)

BootUnload(p) == Begin(p, "bootUnload", file, <<"flush">>)

(* runRuleOp and deleteByNumber load before they take the lock. *)
LoadForRule(p) ==
  /\ "rule" \in Ops
  /\ op[p] = "none"
  /\ op' = [op EXCEPT ![p] = "rule"]
  /\ work' = [work EXCEPT ![p] = file]
  /\ plan' = [plan EXCEPT ![p] = <<"lock">>]
  /\ UNCHANGED <<disk, kernel, expired, lock>>

Next1(p, s) == plan[p] # <<>> /\ Head(plan[p]) = s

LockForRule(p) ==
  /\ Next1(p, "lock")
  /\ lock = Free
  /\ lock' = p
  /\ \E r \in Rule :
       \E rules \in {work[p].rules \cup {r}, work[p].rules \ {r}} :
         work' = [work EXCEPT
                    ![p] = Sweep([@ EXCEPT !.rules = rules], expired)]
  /\ plan' = [plan EXCEPT ![p] = CommitPlan]
  /\ UNCHANGED <<disk, kernel, expired, op>>

(* app update and app default never take the lock.  Over ssh the update is *)
(* saved and not applied, and "app update all" is not even saved.          *)
LoadForApp(p, o, st, steps) ==
  /\ o \in Ops
  /\ op[p] = "none"
  /\ op' = [op EXCEPT ![p] = o]
  /\ work' = [work EXCEPT ![p] = st]
  /\ plan' = [plan EXCEPT ![p] = steps]
  /\ UNCHANGED <<disk, kernel, expired, lock>>

AppUpdate(p) == \E old \in file.rules, new \in Rule :
  \E steps \in {<<"save", "ifEnabled", "apply", "fragments">>, <<"save">>, <<>>} :
    LoadForApp(p, "appUpdate",
               [file EXCEPT !.rules = (@ \ {old}) \cup {new}], steps)

(* It rewrites /etc/default with another key changed, then loads and saves *)
(* rules.json with another field changed.                                  *)
AppDefault(p) ==
  LoadForApp(p, "appDefault", Defaults, <<"readEtc", "etc", "load", "save">>)

-----------------------------------------------------------------------------
(* The calls. *)

Advance(p) == plan' = [plan EXCEPT ![p] = Tail(@)]

(* startFirewall, and app default late, read rules.json. *)
Load(p) ==
  /\ Next1(p, "load")
  /\ work' = [work EXCEPT ![p] = file]
  /\ Advance(p)
  /\ UNCHANGED <<disk, kernel, expired, lock, op>>

(* Apply replaces the inet table, and the NAT tables only when it has some *)
(* to install.                                                             *)
Apply(p) ==
  /\ Next1(p, "apply")
  /\ Compiles(work[p])
  /\ inet' = CompileInet(work[p], etc, expired)
  /\ nat' = IF CompileNAT(work[p]) = {} THEN nat ELSE CompileNAT(work[p])
  /\ Advance(p)
  /\ UNCHANGED <<disk, expired, lock, op, work>>

ApplyFragments(p) ==
  /\ Next1(p, "fragments")
  /\ inet' = [inet EXCEPT !.frags = fragments]
  /\ Advance(p)
  /\ UNCHANGED <<disk, nat, expired, lock, op, work>>

Flush(p) ==
  /\ Next1(p, "flush")
  /\ inet' = NoTable
  /\ nat' = {}
  /\ Advance(p)
  /\ UNCHANGED <<disk, expired, lock, op, work>>

Save(p) ==
  /\ Next1(p, "save")
  /\ file' = work[p]
  /\ Advance(p)
  /\ UNCHANGED <<enabled, etc, fragments, kernel, expired, lock, op, work>>

SaveConf(p) ==
  /\ \/ Next1(p, "enable") /\ enabled' = TRUE
     \/ Next1(p, "disable") /\ enabled' = FALSE
     \/ Next1(p, "conf") /\ UNCHANGED enabled
  /\ Advance(p)
  /\ UNCHANGED <<file, etc, fragments, kernel, expired, lock, op, work>>

(* WriteEtcDefault reads the file, replaces one key in what it read and    *)
(* writes all of it back.  For default the key is the policy; for app      *)
(* default the copy of the policy is taken along.                          *)
ReadEtc(p) ==
  /\ Next1(p, "readEtc")
  /\ work' = [work EXCEPT ![p].policy = etc]
  /\ Advance(p)
  /\ UNCHANGED <<disk, kernel, expired, lock, op>>

WriteEtcDefault(p) ==
  /\ Next1(p, "etc")
  /\ etc' = work[p].policy
  /\ Advance(p)
  /\ UNCHANGED <<file, enabled, fragments, kernel, expired, lock, op, work>>

(* reset renames rules.json and the fragments away. *)
Backup(p) ==
  /\ \/ Next1(p, "backupRules") /\ file' = Defaults /\ UNCHANGED fragments
     \/ Next1(p, "backupFragments") /\ fragments' = FALSE /\ UNCHANGED file
  /\ Advance(p)
  /\ UNCHANGED <<enabled, etc, kernel, expired, lock, op, work>>

IfEnabled(p) ==
  /\ Next1(p, "ifEnabled")
  /\ plan' = [plan EXCEPT ![p] = IF enabled THEN Tail(@) ELSE <<>>]
  /\ UNCHANGED <<disk, kernel, expired, lock, op, work>>

Done(p) == op[p] # "none" /\ plan[p] = <<>>

Release(p) ==
  /\ lock' = IF lock = p THEN Free ELSE lock
  /\ op' = [op EXCEPT ![p] = "none"]
  /\ plan' = [plan EXCEPT ![p] = <<>>]
  /\ work' = [work EXCEPT ![p] = Defaults]

Return(p) ==
  /\ Done(p)
  /\ Release(p)
  /\ UNCHANGED <<disk, kernel, expired>>

-----------------------------------------------------------------------------
(* Failures. *)

(* A call that fails ends the command.  A rejected fragment also flushes   *)
(* the tables, and the two files written in place may be left empty, which *)
(* reads as disabled and as the installation policy.                       *)
Fail(p) ==
  /\ plan[p] # <<>>
  /\ LET s == Head(plan[p]) IN
     /\ \/ s \in Faults /\ (s = "fragments" => fragments)
        \/ s = "lock" /\ lock # Free
        \/ s = "apply" /\ ~Compiles(work[p])
     /\ IF s = "fragments"
        THEN inet' = NoTable /\ nat' = {}
        ELSE UNCHANGED kernel
     /\ IF s \in {"enable", "disable", "conf"}
        THEN enabled' \in {enabled, FALSE} ELSE UNCHANGED enabled
     /\ IF s = "etc" THEN etc' \in {etc, InstallPolicy} ELSE UNCHANGED etc
  /\ Release(p)
  /\ UNCHANGED <<file, fragments, expired>>

(* The process is killed before its next call, or within a write in place. *)
Kill(p) ==
  /\ "kill" \in Faults
  /\ op[p] # "none"
  /\ IF plan[p] # <<>> /\ Head(plan[p]) \in {"enable", "disable", "conf"}
     THEN enabled' \in {enabled, FALSE} ELSE UNCHANGED enabled
  /\ IF plan[p] # <<>> /\ Head(plan[p]) = "etc"
     THEN etc' \in {etc, InstallPolicy} ELSE UNCHANGED etc
  /\ Release(p)
  /\ UNCHANGED <<file, fragments, kernel, expired>>

Reboot ==
  /\ "reboot" \in Faults
  /\ inet' = NoTable
  /\ nat' = {}
  /\ lock' = Free
  /\ op' = [p \in Proc |-> "none"]
  /\ plan' = [p \in Proc |-> <<>>]
  /\ work' = [p \in Proc |-> Defaults]
  /\ UNCHANGED <<disk, expired>>

(* The clock passes the expiry of a rule or ban. *)
Expire ==
  /\ \E x \in (Rule \cup Ban) \ expired : expired' = expired \cup {x}
  /\ UNCHANGED <<disk, kernel, procs>>

Handler(p) ==
  \/ NatAdd(p) \/ NatDelete(p) \/ ThreatUpdate(p) \/ CmdSweep(p)
  \/ PanicOn(p) \/ PanicOff(p) \/ CmdDefault(p) \/ CmdLogging(p)
  \/ CmdImport(p) \/ CmdEnable(p) \/ CmdDisable(p) \/ CmdReload(p)
  \/ CmdReset(p) \/ BootLoad(p) \/ BootUnload(p)
  \/ LoadForRule(p) \/ LockForRule(p) \/ AppUpdate(p) \/ AppDefault(p)

Call(p) ==
  \/ Load(p) \/ Apply(p) \/ ApplyFragments(p) \/ Flush(p) \/ Save(p)
  \/ SaveConf(p) \/ ReadEtc(p) \/ WriteEtcDefault(p) \/ Backup(p)
  \/ IfEnabled(p)
  \/ Return(p)

Next ==
  \/ \E p \in Proc : Handler(p) \/ Call(p) \/ Fail(p) \/ Kill(p)
  \/ Reboot
  \/ Expire

Spec == Init /\ [][Next]_vars

(* A command that has begun makes its calls or fails: no call blocks, the  *)
(* flock is only tried.  The sweep timer fires every minute and its sweep  *)
(* gives up while another command holds the flock, so it needs the flock   *)
(* to be free now and then, and then it must not miss it for ever.         *)
Proceed(p) == Call(p) \/ LockForRule(p) \/ Fail(p)

Fairness == \A p \in Proc : WF_vars(Proceed(p)) /\ SF_vars(CmdSweep(p))

FairSpec == Spec /\ Fairness
=============================================================================
