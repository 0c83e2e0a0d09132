----------------------------- MODULE FirewallInv -----------------------------
(***************************************************************************)
(* The inductive invariant behind PanicEnforced, PanicStands, BansStay and *)
(* NoLostUpdate, for instances whose commands all take the flock           *)
(* (Ops \subseteq Locked) and that import no document saying panic.        *)
(***************************************************************************)
EXTENDS FirewallProps

(* The instances the invariant is about. *)
Disciplined == Ops \subseteq Locked /\ \A doc \in Docs : doc.panic # "on"

(* What is left of the plan of a command, by kind of command. *)
CommitPlans ==
  {<<"apply", "fragments", "save">>, <<"fragments", "save">>, <<"save">>, <<>>}

PanicOffPlans ==
  {<<"save", "apply", "fragments">>, <<"apply", "fragments">>, <<"fragments">>,
   <<"save", "flush">>, <<"flush">>, <<>>}

SettingPlans ==
  {<<"save", "etc", "ifEnabled", "apply", "fragments">>,
   <<"save", "conf", "ifEnabled", "apply", "fragments">>,
   <<"save", "ifEnabled", "apply", "fragments">>,
   <<"etc", "ifEnabled", "apply", "fragments">>,
   <<"conf", "ifEnabled", "apply", "fragments">>,
   <<"ifEnabled", "apply", "fragments">>,
   <<"apply", "fragments">>, <<"fragments">>, <<>>}

LoadPlans ==
  {<<"flush", "load", "apply", "fragments", "enable">>,
   <<"load", "apply", "fragments", "enable">>,
   <<"apply", "fragments", "enable">>, <<"fragments", "enable">>, <<"enable">>,
   <<"load", "apply", "fragments">>,
   <<"apply", "fragments">>, <<"fragments">>, <<>>}

StopPlans == {<<"flush", "disable">>, <<"disable">>, <<"flush">>, <<>>}

ResetPlans ==
  {<<"flush", "backupRules", "backupFragments", "save", "disable">>,
   <<"backupRules", "backupFragments", "save", "disable">>,
   <<"backupFragments", "save", "disable">>,
   <<"save", "disable">>, <<"disable">>, <<>>}

(* The plans that have yet to write rules.json. *)
Saving(s) ==
  s \in {<<"apply", "fragments", "save">>, <<"fragments", "save">>, <<"save">>,
         <<"save", "apply", "fragments">>, <<"save", "flush">>,
         <<"save", "etc", "ifEnabled", "apply", "fragments">>,
         <<"save", "conf", "ifEnabled", "apply", "fragments">>,
         <<"save", "ifEnabled", "apply", "fragments">>,
         <<"flush", "backupRules", "backupFragments", "save", "disable">>,
         <<"backupRules", "backupFragments", "save", "disable">>,
         <<"backupFragments", "save", "disable">>, <<"save", "disable">>}

Committers == {"nat", "threat", "sweep", "panicOn"}
Setters    == {"default", "logging", "import"}
Loaders    == {"enable", "reload", "bootLoad"}
Stoppers   == {"disable", "bootUnload"}

Fits(o, s) ==
  /\ o \in Committers => s \in CommitPlans
  /\ o = "panicOff"   => s \in PanicOffPlans
  /\ o \in Setters    => s \in SettingPlans
  /\ o \in Loaders    => s \in LoadPlans
  /\ o \in Stoppers   => s \in StopPlans
  /\ o = "reset"      => s \in ResetPlans

(* A command at work holds the flock and follows its plan. *)
Exclusive ==
  \A p \in Proc :
    IF op[p] = "none" THEN plan[p] = <<>>
    ELSE lock = p /\ op[p] \in Locked /\ Fits(op[p], plan[p])

(* The copy st of a command o with s left to do: until it is saved it is   *)
(* one edit of the file; it says panic only if the file does, but for      *)
(* panic on; and when it is about to be applied it agrees with the file    *)
(* about panic.                                                            *)
Swept(st, gone) == {Sweep(e, x) : e \in Promise!Edits(st), x \in SUBSET gone}

Copy(o, st, s) ==
  /\ Saving(s) => st \in Swept(file, expired)
  /\ o = "reset" => st = Defaults
  /\ o = "panicOn" => st.panic
  /\ o # "panicOn" => (st.panic => file.panic)
  /\ o \notin {"panicOn", "panicOff", "import", "reset"} => st.panic = file.panic
  /\ o \in {"panicOff", "import"} /\ ~Saving(s) => st.panic = file.panic
  /\ o \notin {"threat", "import", "reset"} /\ Saving(s) =>
       file.bans \ expired \subseteq st.bans

Copies == \A p \in Proc : op[p] # "none" => Copy(op[p], work[p], plan[p])

(* panic on has the drop-all table in place before it saves. *)
DropsFirst ==
  \A p \in Proc :
    op[p] = "panicOn" /\ plan[p] \in {<<"fragments", "save">>, <<"save">>}
      => (inet.loaded => inet.drop)

IInv == TypeOK /\ Exclusive /\ Copies /\ DropsFirst /\ PanicEnforced

-----------------------------------------------------------------------------
(* The inductive invariants behind SuccessMeansEnforced, NoWedge and       *)
(* KernelInStep.  They allow the rule commands, whose copies are stale, so *)
(* nothing is said of where a copy comes from: what counts is that it is   *)
(* the same copy that is applied and saved, under one hold of the flock.   *)

(* The instances: app update and app default, which never take the flock,  *)
(* are left out.                                                           *)
Guarded == Ops \subseteq Locked \cup {"rule"}

(* Uncompilable rules come in with a document, or come back to life when   *)
(* panic ends.                                                             *)
Checked == Guarded /\ Ops \cap {"import", "panicOff"} = {}

(* The commands that apply before they save, or save what they only undo;  *)
(* and no fault that leaves the kernel ahead of a file.                    *)
Steady ==
  /\ Ops \subseteq {"rule", "nat", "threat", "sweep", "panicOn", "panicOff",
                    "enable", "disable", "reload", "bootLoad", "bootUnload"}
  /\ Faults \cap {"save", "enable", "kill"} = {}

Waits(p) == op[p] = "rule" /\ plan[p] = <<"lock">>

Follows(o, s) == IF o = "rule" THEN s \in CommitPlans ELSE Fits(o, s)

(* Only the holder of the flock makes calls.                               *)
Holding ==
  \A p \in Proc :
    /\ op[p] \in Ops \cup {"none"}
    /\ \/ op[p] = "none" /\ plan[p] = <<>> /\ lock # p
       \/ Waits(p) /\ lock # p
       \/ op[p] # "none" /\ lock = p /\ Follows(op[p], plan[p])

(* The table enforces st but for the fragments, which are loaded last.     *)
Mirrors(st) ==
  LET ideal == CompileInet(st, etc, {}) IN
  /\ inet.loaded
  /\ inet.drop = ideal.drop
  /\ inet.policy = ideal.policy
  /\ inet.rules \subseteq ideal.rules /\ ideal.rules \ expired \subseteq inet.rules
  /\ inet.bans \subseteq ideal.bans /\ ideal.bans \ expired \subseteq inet.bans

(* What is left to do after the save, or in a command that does not save.  *)
Saved ==
  {<<"etc", "ifEnabled", "apply", "fragments">>,
   <<"conf", "ifEnabled", "apply", "fragments">>,
   <<"ifEnabled", "apply", "fragments">>,
   <<"apply", "fragments">>, <<"fragments">>,
   <<"apply", "fragments", "enable">>, <<"fragments", "enable">>}

Applied == {<<"fragments", "save">>, <<"fragments">>, <<"fragments", "enable">>}

(* How far the enforcement of the copy of p is.                            *)
Progress(p) ==
  /\ plan[p] \in Saved => work[p] = file
  /\ plan[p] \in Applied => Mirrors(work[p])
  /\ plan[p] = <<"save">> /\ (enabled \/ op[p] = "panicOn") => Enforced(work[p])
  /\ plan[p] = <<"enable">> /\ op[p] \in {"reload", "bootLoad"} => Enforced(file)
  /\ plan[p] = <<>> /\ op[p] \in Applying /\ enabled => Enforced(file)

EnforceInv == TypeOK /\ Holding /\ \A p \in Proc : Progress(p)

(* panic off flushes only a firewall that is not enabled.                  *)
Closing ==
  \A p \in Proc : op[p] = "panicOff" /\ plan[p] \in {<<"save", "flush">>, <<"flush">>}
                    => ~enabled

(* What p is about to save compiles if the file does.                      *)
Sound(p) ==
  /\ op[p] = "panicOn" => work[p].panic
  /\ op[p] = "reset" => Compiles(work[p])
  /\ op[p] \in {"default", "logging"} /\ Saving(plan[p]) /\ Compiles(file)
       => Compiles(work[p])
  /\ plan[p] \in {<<"fragments", "save">>, <<"save">>} /\ enabled => Compiles(work[p])

WedgeInv == TypeOK /\ Holding /\ \A p \in Proc : Sound(p)

(* The copy of p is in the kernel and not yet, or not for certain, in the  *)
(* file or with its fragments.                                             *)
InFlight(p) ==
  /\ lock = p
  /\ \/ plan[p] \in Applied
     \/ plan[p] = <<"save">> /\ (enabled \/ op[p] = "panicOn")

PanicState == [Defaults EXCEPT !.panic = TRUE]

Agree ==
  inet.loaded =>
    /\ inet.drop = file.panic => Enforced(file)
    /\ file.panic => inet.drop
    /\ inet.drop => Enforced(PanicState)

(* A firewall that is not enabled has no table, or the one that panic on   *)
(* has loaded.                                                             *)
Unloaded ==
  inet.loaded /\ ~enabled =>
    inet.drop \/ \E p \in Proc : lock = p /\ op[p] = "enable"

(* What each command knows of the firewall while it holds the flock.       *)
Knows(p) ==
  /\ op[p] = "panicOn" => work[p].panic
  /\ op[p] = "panicOff" /\ Saving(plan[p]) => file.panic /\ ~work[p].panic
  /\ plan[p] \in {<<"apply", "fragments", "save">>, <<"fragments", "save">>}
       => enabled \/ op[p] = "panicOn"
  /\ op[p] \in {"reload", "bootLoad"} /\ plan[p] # <<>> => enabled
  /\ op[p] = "panicOff" /\ plan[p] \in {<<"save", "apply", "fragments">>,
                                        <<"apply", "fragments">>, <<"fragments">>}
       => enabled
  /\ plan[p] = <<"disable">> => ~inet.loaded
  /\ op[p] = "enable" =>
       \/ plan[p] \in {<<"load", "apply", "fragments", "enable">>,
                       <<"apply", "fragments", "enable">>} /\ ~inet.loaded
       \/ plan[p] \in {<<"fragments", "enable">>, <<"enable">>}
       \/ plan[p] = <<>> /\ enabled

StepInv ==
  /\ EnforceInv
  /\ (\E p \in Proc : InFlight(p)) \/ Agree
  /\ Unloaded
  /\ \A p \in Proc : Knows(p)
=============================================================================
