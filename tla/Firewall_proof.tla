---------------------------- MODULE Firewall_proof ----------------------------
(***************************************************************************)
(* Proofs about Firewall for every value of its constants.  First its      *)
(* types, that no update is lost, and what holds of the lock (IInv of      *)
(* FirewallInv).  Then, with the conjuncts of EnforceInv, that a command   *)
(* that succeeds has its state enforced, that the kernel stays in step     *)
(* with rules.json and that no stored state stops compiling, with stale    *)
(* rule commands among the others.                                         *)
(***************************************************************************)
EXTENDS FirewallInv, TLAPS

(* What the pure functions of Ruleset return. *)
LEMMA RulesetTypes ==
  /\ Defaults \in State
  /\ NoTable \in Table
  /\ \A st \in State : \A x : Sweep(st, x) \in State
  /\ \A st \in State, doc \in Document, replace \in BOOLEAN :
       Import(st, doc, replace) \in State
  /\ \A st \in State, pol \in Policy : \A x :
       CompileInet(st, pol, x) \in Table /\ CompileNAT(st) \subseteq NATRule
<1> USE RulesetAssumption DEF State
<1>1. Defaults \in State
  BY DEF Defaults
<1>2. NoTable \in Table
  BY DEF NoTable, Table, Policy
<1>3. ASSUME NEW st \in State, NEW x PROVE Sweep(st, x) \in State
  BY DEF Sweep
<1>4. ASSUME NEW st \in State, NEW doc \in Document, NEW replace \in BOOLEAN
      PROVE  Import(st, doc, replace) \in State
  <2> DEFINE base == IF replace THEN Defaults ELSE st
  <2>1. base \in State
    BY <1>1
  <2>2. QED
    BY <2>1 DEF Import, Document
<1>5. ASSUME NEW st \in State, NEW pol \in Policy, NEW x
      PROVE  CompileInet(st, pol, x) \in Table /\ CompileNAT(st) \subseteq NATRule
  BY DEF CompileInet, CompileNAT, Table, Policy
<1>6. QED
  BY <1>1, <1>2, <1>3, <1>4, <1>5

(* The plans the handlers write down are sequences of steps.               *)
LEMMA PlanTypes ==
  /\ <<>> \in Seq(Step)
  /\ <<"lock">> \in Seq(Step)
  /\ <<"save">> \in Seq(Step)
  /\ <<"flush">> \in Seq(Step)
  /\ <<"enable">> \in Seq(Step)
  /\ <<"flush", "disable">> \in Seq(Step)
  /\ <<"save", "flush">> \in Seq(Step)
  /\ <<"apply", "fragments", "save">> \in Seq(Step)
  /\ <<"save", "apply", "fragments">> \in Seq(Step)
  /\ <<"load", "apply", "fragments">> \in Seq(Step)
  /\ <<"load", "apply", "fragments", "enable">> \in Seq(Step)
  /\ <<"save", "ifEnabled", "apply", "fragments">> \in Seq(Step)
  /\ <<"readEtc", "etc", "load", "save">> \in Seq(Step)
  /\ <<"save", "etc", "ifEnabled", "apply", "fragments">> \in Seq(Step)
  /\ <<"save", "conf", "ifEnabled", "apply", "fragments">> \in Seq(Step)
  /\ <<"flush", "load", "apply", "fragments", "enable">> \in Seq(Step)
  /\ <<"backupRules", "backupFragments", "save", "disable">> \in Seq(Step)
  /\ <<"flush", "backupRules", "backupFragments", "save", "disable">> \in Seq(Step)
  /\ CommitPlan \in Seq(Step)
<1>1. /\ <<"apply", "fragments", "save">> \in Seq(Step)
      /\ <<"save">> \in Seq(Step)
  BY DEF Step
<1>2. CommitPlan \in Seq(Step)
  BY <1>1 DEF CommitPlan
<1>3. QED
  BY <1>2 DEF Step

(* Changing one field of a state to a value of its type leaves a state.    *)
LEMMA EditTypes ==
  ASSUME NEW st \in State
  PROVE  /\ \A x \in SUBSET Rule : [st EXCEPT !.rules = x] \in State
         /\ \A x \in SUBSET NATRule : [st EXCEPT !.nat = x] \in State
         /\ \A x \in SUBSET Ban : [st EXCEPT !.bans = x] \in State
         /\ \A x \in Policy : [st EXCEPT !.policy = x] \in State
         /\ \A x \in BOOLEAN : [st EXCEPT !.panic = x] \in State
         /\ st.rules \subseteq Rule /\ st.nat \subseteq NATRule /\ st.bans \subseteq Ban
         /\ st.policy \in Policy /\ st.panic \in BOOLEAN
BY DEF State

(* What is left of a plan after a call is a plan.                          *)
LEMMA TailType ==
  ASSUME TypeOK, NEW p \in Proc, plan[p] # <<>>
  PROVE  Tail(plan[p]) \in Seq(Step) /\ Head(plan[p]) \in Step
BY DEF TypeOK

(* A command that takes the lock and one that does not both start typed.   *)
LEMMA StartType ==
  ASSUME TypeOK, NEW p \in Proc, NEW o \in OpName, NEW st \in State,
         NEW steps \in Seq(Step),
         op' = [op EXCEPT ![p] = o], work' = [work EXCEPT ![p] = st],
         plan' = [plan EXCEPT ![p] = steps],
         lock' \in {lock, p}, UNCHANGED <<disk, kernel, expired>>
  PROVE  TypeOK'
BY DEF TypeOK, disk, kernel

(* A command that takes the flock keeps the types (acquireLock).           *)
LEMMA BeginType ==
  ASSUME TypeOK, NEW p \in Proc, NEW o \in OpName, NEW st \in State,
         NEW steps \in Seq(Step), Begin(p, o, st, steps)
  PROVE  TypeOK'
BY StartType DEF Begin

(* Every handler keeps the types, whatever command it begins.              *)
LEMMA HandlerType ==
  ASSUME TypeOK, NEW p \in Proc, Handler(p)
  PROVE  TypeOK'
<1>1. /\ file \in State /\ enabled \in BOOLEAN /\ work[p] \in State
      /\ inet.loaded \in BOOLEAN /\ file.panic \in BOOLEAN
      /\ op \in [Proc -> OpName \cup {"none"}]
  BY EditTypes DEF TypeOK, Table
<1>2. \A o \in {"nat", "threat", "sweep", "panicOn", "panicOff", "default",
               "logging", "import", "enable", "disable", "reload", "reset",
               "bootLoad", "bootUnload", "rule", "appUpdate", "appDefault"} :
        o \in OpName
  BY DEF OpName, Locked, Unlocked
<1>3. CASE NatAdd(p)
  <2>1. PICK n \in NATRule :
          Begin(p, "nat", Sweep([file EXCEPT !.nat = @ \cup {n}], expired), CommitPlan)
    BY <1>3 DEF NatAdd
  <2>2. [file EXCEPT !.nat = file.nat \cup {n}] \in State
    BY <1>1, EditTypes
  <2>3. QED
    BY <1>1, <1>2, <1>2, <2>1, <2>2, RulesetTypes, PlanTypes, BeginType
<1>4. CASE NatDelete(p)
  <2>1. PICK n \in file.nat :
          Begin(p, "nat", Sweep([file EXCEPT !.nat = @ \ {n}], expired), CommitPlan)
    BY <1>4 DEF NatDelete
  <2>2. [file EXCEPT !.nat = file.nat \ {n}] \in State
    BY <1>1, EditTypes
  <2>3. QED
    BY <1>1, <1>2, <1>2, <2>1, <2>2, RulesetTypes, PlanTypes, BeginType
<1>5. CASE ThreatUpdate(p)
  <2>1. PICK b \in Ban \ expired :
          \E bans \in {file.bans \cup {b}, file.bans \ {b}} :
            Begin(p, "threat", Sweep([file EXCEPT !.bans = bans], expired),
                  IF bans = file.bans THEN <<>> ELSE CommitPlan)
    BY <1>5 DEF ThreatUpdate
  <2>2. PICK bans \in {file.bans \cup {b}, file.bans \ {b}} :
            Begin(p, "threat", Sweep([file EXCEPT !.bans = bans], expired),
                  IF bans = file.bans THEN <<>> ELSE CommitPlan)
    BY <2>1
  <2>3. bans \subseteq Ban
    BY <1>1, EditTypes
  <2>6. Sweep([file EXCEPT !.bans = bans], expired) \in State
    BY <1>1, <2>3, EditTypes, RulesetTypes
  <2>4. (IF bans = file.bans THEN <<>> ELSE CommitPlan) \in Seq(Step)
    BY PlanTypes
  <2>5. QED
    BY <1>1, <1>2, <1>2, <2>2, <2>4, <2>6, BeginType
<1>6. CASE CmdSweep(p)
  <2>1. Sweep(file, expired) \in State
    BY <1>1, RulesetTypes
  <2>2. (IF Sweep(file, expired) = file THEN <<>> ELSE CommitPlan) \in Seq(Step)
    BY PlanTypes
  <2>3. QED
    BY <1>1, <1>2, <1>6, <2>1, <2>2, BeginType DEF CmdSweep
<1>7. CASE PanicOn(p)
  <2>1. [file EXCEPT !.panic = TRUE] \in State
    BY <1>1, EditTypes
  <2>2. (IF file.panic THEN <<>> ELSE <<"apply", "fragments", "save">>) \in Seq(Step)
    BY PlanTypes
  <2>3. QED
    BY <1>1, <1>2, <1>7, <2>1, <2>2, BeginType DEF PanicOn
<1>8. CASE PanicOff(p)
  <2>1. [file EXCEPT !.panic = FALSE] \in State
    BY <1>1, EditTypes
  <2>2. (IF ~file.panic THEN <<>>
         ELSE IF enabled THEN <<"save", "apply", "fragments">>
         ELSE <<"save", "flush">>) \in Seq(Step)
    BY PlanTypes
  <2>3. QED
    BY <1>1, <1>2, <1>8, <2>1, <2>2, BeginType DEF PanicOff
<1>9. CASE CmdDefault(p)
  <2>1. \A pol \in Policy : [file EXCEPT !.policy = pol] \in State
    BY <1>1, EditTypes
  <2>2. <<"save", "etc", "ifEnabled", "apply", "fragments">> \in Seq(Step)
    BY PlanTypes
  <2>3. QED
    BY <1>1, <1>2, <1>9, <2>1, <2>2, BeginType DEF CmdDefault
<1>10. CASE CmdLogging(p)
  <2>1. <<"save", "conf", "ifEnabled", "apply", "fragments">> \in Seq(Step)
    BY PlanTypes
  <2>2. QED
    BY <1>1, <1>2, <1>10, <2>1, BeginType DEF CmdLogging
<1>11. CASE CmdImport(p)
  <2>1. \A doc \in Docs, replace \in BOOLEAN : Import(file, doc, replace) \in State
    BY <1>1, RulesetTypes, FirewallAssumption
  <2>2. <<"save", "ifEnabled", "apply", "fragments">> \in Seq(Step)
    BY PlanTypes
  <2>3. QED
    BY <1>1, <1>2, <1>11, <2>1, <2>2, BeginType DEF CmdImport
<1>12. CASE CmdEnable(p)
  <2>1. (IF inet.loaded THEN <<"enable">>
         ELSE <<"load", "apply", "fragments", "enable">>) \in Seq(Step)
    BY PlanTypes
  <2>2. QED
    BY <1>1, <1>2, <1>12, <2>1, BeginType DEF CmdEnable
<1>13. CASE CmdDisable(p)
  <2>1. <<"flush", "disable">> \in Seq(Step)
    BY PlanTypes
  <2>2. QED
    BY <1>1, <1>2, <1>13, <2>1, BeginType DEF CmdDisable
<1>14. CASE CmdReload(p)
  <2>1. (IF enabled THEN <<"flush", "load", "apply", "fragments", "enable">>
         ELSE <<>>) \in Seq(Step)
    BY PlanTypes
  <2>2. QED
    BY <1>1, <1>2, <1>14, <2>1, BeginType DEF CmdReload
<1>15. CASE CmdReset(p)
  <2>1. (IF enabled
         THEN <<"flush", "backupRules", "backupFragments", "save", "disable">>
         ELSE <<"backupRules", "backupFragments", "save", "disable">>) \in Seq(Step)
    BY PlanTypes
  <2>2. QED
    BY <1>1, <1>2, <1>15, <2>1, BeginType, RulesetTypes DEF CmdReset
<1>16. CASE BootLoad(p)
  <2>1. (IF enabled THEN <<"load", "apply", "fragments">> ELSE <<>>) \in Seq(Step)
    BY PlanTypes
  <2>2. QED
    BY <1>1, <1>2, <1>16, <2>1, BeginType DEF BootLoad
<1>17. CASE BootUnload(p)
  <2>1. <<"flush">> \in Seq(Step)
    BY PlanTypes
  <2>2. QED
    BY <1>1, <1>2, <1>17, <2>1, BeginType DEF BootUnload
<1>18. CASE LoadForRule(p)
  <2>1. <<"lock">> \in Seq(Step)
    BY PlanTypes
  <2>2. QED
    BY <1>1, <1>2, <1>18, <2>1, StartType DEF LoadForRule
<1>19. CASE LockForRule(p)
  <2>1. PICK r \in Rule :
          \E rules \in {work[p].rules \cup {r}, work[p].rules \ {r}} :
            work' = [work EXCEPT ![p] = Sweep([@ EXCEPT !.rules = rules], expired)]
    BY <1>19 DEF LockForRule
  <2>2. PICK rules \in {work[p].rules \cup {r}, work[p].rules \ {r}} :
            work' = [work EXCEPT ![p] = Sweep([work[p] EXCEPT !.rules = rules], expired)]
    BY <2>1
  <2>3. rules \subseteq Rule
    BY <1>1, EditTypes
  <2>4. Sweep([work[p] EXCEPT !.rules = rules], expired) \in State
    BY <1>1, <2>3, EditTypes, RulesetTypes
  <2>5. QED
    BY <1>19, <2>2, <2>4, PlanTypes DEF LockForRule, TypeOK, disk, kernel
<1>20. CASE AppUpdate(p)
  <2>1. PICK old \in file.rules, new \in Rule :
          \E steps \in {<<"save", "ifEnabled", "apply", "fragments">>, <<"save">>, <<>>} :
            LoadForApp(p, "appUpdate",
                       [file EXCEPT !.rules = (@ \ {old}) \cup {new}], steps)
    BY <1>20 DEF AppUpdate
  <2>2. [file EXCEPT !.rules = (@ \ {old}) \cup {new}] \in State
    BY <1>1, EditTypes
  <2>3. \A steps \in {<<"save", "ifEnabled", "apply", "fragments">>, <<"save">>, <<>>} :
          steps \in Seq(Step)
    BY PlanTypes
  <2>4. QED
    BY <1>2, <2>1, <2>2, <2>3, StartType DEF LoadForApp
<1>21. CASE AppDefault(p)
  <2>1. <<"readEtc", "etc", "load", "save">> \in Seq(Step)
    BY PlanTypes
  <2>2. QED
    BY <1>1, <1>2, <1>21, <2>1, StartType, RulesetTypes DEF AppDefault, LoadForApp
<1>22. QED
  BY <1>3, <1>4, <1>5, <1>6, <1>7, <1>8, <1>9, <1>10, <1>11, <1>12, <1>13,
     <1>14, <1>15, <1>16, <1>17, <1>18, <1>19, <1>20, <1>21 DEF Handler

(* Every call of a plan keeps the types.                                   *)
LEMMA CallType ==
  ASSUME TypeOK, NEW p \in Proc, Call(p)
  PROVE  TypeOK'
<1>1. /\ file \in State /\ etc \in Policy /\ work[p] \in State
      /\ inet \in Table /\ fragments \in BOOLEAN /\ work[p].policy \in Policy
  BY EditTypes DEF TypeOK
<1>2. plan[p] # <<>> => Tail(plan[p]) \in Seq(Step)
  BY TailType
<1>3. CASE Load(p)
  BY <1>2, <1>3 DEF Load, Next1, Advance, TypeOK, disk, kernel
<1>4. CASE Apply(p)
  <2>1. CompileInet(work[p], etc, expired) \in Table /\ CompileNAT(work[p]) \subseteq NATRule
    BY <1>1, RulesetTypes
  <2>2. QED
    BY <1>2, <1>4, <2>1 DEF Apply, Next1, Advance, TypeOK, disk
<1>5. CASE ApplyFragments(p)
  <2>1. [inet EXCEPT !.frags = fragments] \in Table
    BY <1>1 DEF Table
  <2>2. QED
    BY <1>2, <1>5, <2>1 DEF ApplyFragments, Next1, Advance, TypeOK, disk
<1>6. CASE Flush(p)
  BY <1>2, <1>6, RulesetTypes DEF Flush, Next1, Advance, TypeOK, disk
<1>7. CASE Save(p)
  BY <1>1, <1>2, <1>7 DEF Save, Next1, Advance, TypeOK, kernel
<1>8. CASE SaveConf(p)
  BY <1>2, <1>8 DEF SaveConf, Next1, Advance, TypeOK, kernel
<1>9. CASE ReadEtc(p)
  <2>1. [work[p] EXCEPT !.policy = etc] \in State
    BY <1>1, EditTypes
  <2>2. QED
    BY <1>2, <1>9, <2>1 DEF ReadEtc, Next1, Advance, TypeOK, disk, kernel
<1>10. CASE WriteEtcDefault(p)
  BY <1>1, <1>2, <1>10 DEF WriteEtcDefault, Next1, Advance, TypeOK, kernel
<1>11. CASE Backup(p)
  BY <1>2, <1>11, RulesetTypes DEF Backup, Next1, Advance, TypeOK, kernel
<1>12. CASE IfEnabled(p)
  BY <1>2, <1>12, PlanTypes DEF IfEnabled, Next1, TypeOK, disk, kernel
<1>13. CASE Return(p)
  BY <1>13, PlanTypes, RulesetTypes DEF Return, Release, TypeOK, disk, kernel
<1>14. QED
  BY <1>3, <1>4, <1>5, <1>6, <1>7, <1>8, <1>9, <1>10, <1>11, <1>12, <1>13 DEF Call

(* Failing calls, kills, reboots and the clock keep the types.             *)
LEMMA FailureType ==
  ASSUME TypeOK,
         (\E p \in Proc : Fail(p) \/ Kill(p)) \/ Reboot \/ Expire
  PROVE  TypeOK'
<1>1. ASSUME NEW p \in Proc, Fail(p) PROVE TypeOK'
  BY <1>1, RulesetTypes, PlanTypes, RulesetAssumption
     DEF Fail, Release, TypeOK, kernel
<1>2. ASSUME NEW p \in Proc, Kill(p) PROVE TypeOK'
  BY <1>2, RulesetTypes, PlanTypes, RulesetAssumption
     DEF Kill, Release, TypeOK, kernel
<1>3. CASE Reboot
  BY <1>3, RulesetTypes, PlanTypes DEF Reboot, TypeOK, disk
<1>4. CASE Expire
  BY <1>4 DEF Expire, TypeOK, disk, kernel, procs
<1>5. QED
  BY <1>1, <1>2, <1>3, <1>4

(* The variables of Firewall always have their types.                      *)
THEOREM TypeCorrect == Spec => []TypeOK
<1>1. Init => TypeOK
  BY RulesetTypes, PlanTypes, RulesetAssumption DEF Init, TypeOK
<1>2. TypeOK /\ [Next]_vars => TypeOK'
  <2>1. ASSUME TypeOK, UNCHANGED vars PROVE TypeOK'
    BY <2>1 DEF TypeOK, vars
  <2>2. ASSUME TypeOK, Next PROVE TypeOK'
    BY <2>2, HandlerType, CallType, FailureType DEF Next
  <2>3. QED
    BY <2>1, <2>2
<1>3. QED
  BY <1>1, <1>2, PTL DEF Spec

-----------------------------------------------------------------------------
(* The inductive invariant.                                                *)

(* What the calls leave of every plan. *)
LEMMA Tails ==
  /\ Tail(<<"apply", "fragments", "save">>) = <<"fragments", "save">>
  /\ Tail(<<"fragments", "save">>) = <<"save">>
  /\ Tail(<<"save">>) = <<>>
  /\ Tail(<<"save", "apply", "fragments">>) = <<"apply", "fragments">>
  /\ Tail(<<"apply", "fragments">>) = <<"fragments">>
  /\ Tail(<<"fragments">>) = <<>>
  /\ Tail(<<"save", "flush">>) = <<"flush">>
  /\ Tail(<<"flush">>) = <<>>
  /\ Tail(<<"save", "etc", "ifEnabled", "apply", "fragments">>) =
       <<"etc", "ifEnabled", "apply", "fragments">>
  /\ Tail(<<"save", "conf", "ifEnabled", "apply", "fragments">>) =
       <<"conf", "ifEnabled", "apply", "fragments">>
  /\ Tail(<<"save", "ifEnabled", "apply", "fragments">>) =
       <<"ifEnabled", "apply", "fragments">>
  /\ Tail(<<"etc", "ifEnabled", "apply", "fragments">>) =
       <<"ifEnabled", "apply", "fragments">>
  /\ Tail(<<"conf", "ifEnabled", "apply", "fragments">>) =
       <<"ifEnabled", "apply", "fragments">>
  /\ Tail(<<"ifEnabled", "apply", "fragments">>) =
       <<"apply", "fragments">>
  /\ Tail(<<"flush", "load", "apply", "fragments", "enable">>) =
       <<"load", "apply", "fragments", "enable">>
  /\ Tail(<<"load", "apply", "fragments", "enable">>) =
       <<"apply", "fragments", "enable">>
  /\ Tail(<<"apply", "fragments", "enable">>) = <<"fragments", "enable">>
  /\ Tail(<<"fragments", "enable">>) = <<"enable">>
  /\ Tail(<<"enable">>) = <<>>
  /\ Tail(<<"load", "apply", "fragments">>) = <<"apply", "fragments">>
  /\ Tail(<<"flush", "disable">>) = <<"disable">>
  /\ Tail(<<"disable">>) = <<>>
  /\ Tail(<<"flush", "backupRules", "backupFragments", "save", "disable">>) =
       <<"backupRules", "backupFragments", "save", "disable">>
  /\ Tail(<<"backupRules", "backupFragments", "save", "disable">>) =
       <<"backupFragments", "save", "disable">>
  /\ Tail(<<"backupFragments", "save", "disable">>) =
       <<"save", "disable">>
  /\ Tail(<<"save", "disable">>) = <<"disable">>
OBVIOUS

(* A call leaves a plan of the same command.                               *)
LEMMA FitsTail ==
  ASSUME NEW o, NEW s, Fits(o, s), s # <<>>
  PROVE  Fits(o, Tail(s))
<1>1. s \in CommitPlans => Tail(s) \in CommitPlans
  BY Tails DEF CommitPlans
<1>2. s \in PanicOffPlans => Tail(s) \in PanicOffPlans
  BY Tails DEF PanicOffPlans
<1>3. s \in SettingPlans => Tail(s) \in SettingPlans
  BY Tails DEF SettingPlans
<1>4. s \in LoadPlans => Tail(s) \in LoadPlans
  BY Tails DEF LoadPlans
<1>5. s \in StopPlans => Tail(s) \in StopPlans
  BY Tails DEF StopPlans
<1>6. s \in ResetPlans => Tail(s) \in ResetPlans
  BY Tails DEF ResetPlans
<1>7. QED
  BY <1>1, <1>2, <1>3, <1>4, <1>5, <1>6 DEF Fits

(* The plans without a save in them. *)
LEMMA SavedPlans ==
  /\ ~Saving(<<>>)
  /\ ~Saving(<<"apply", "fragments">>)
  /\ ~Saving(<<"fragments">>)
  /\ ~Saving(<<"flush">>)
  /\ ~Saving(<<"etc", "ifEnabled", "apply", "fragments">>)
  /\ ~Saving(<<"conf", "ifEnabled", "apply", "fragments">>)
  /\ ~Saving(<<"ifEnabled", "apply", "fragments">>)
  /\ ~Saving(<<"flush", "load", "apply", "fragments", "enable">>)
  /\ ~Saving(<<"load", "apply", "fragments", "enable">>)
  /\ ~Saving(<<"apply", "fragments", "enable">>)
  /\ ~Saving(<<"fragments", "enable">>)
  /\ ~Saving(<<"enable">>)
  /\ ~Saving(<<"load", "apply", "fragments">>)
  /\ ~Saving(<<"flush", "disable">>)
  /\ ~Saving(<<"disable">>)
<1>1. ~Saving(<<>>)
  BY DEF Saving
<1>2. ~Saving(<<"apply", "fragments">>)
  BY DEF Saving
<1>3. ~Saving(<<"fragments">>)
  BY DEF Saving
<1>4. ~Saving(<<"flush">>)
  BY DEF Saving
<1>5. ~Saving(<<"etc", "ifEnabled", "apply", "fragments">>)
  BY DEF Saving
<1>6. ~Saving(<<"conf", "ifEnabled", "apply", "fragments">>)
  BY DEF Saving
<1>7. ~Saving(<<"ifEnabled", "apply", "fragments">>)
  BY DEF Saving
<1>8. ~Saving(<<"flush", "load", "apply", "fragments", "enable">>)
  BY DEF Saving
<1>9. ~Saving(<<"load", "apply", "fragments", "enable">>)
  BY DEF Saving
<1>10. ~Saving(<<"apply", "fragments", "enable">>)
  BY DEF Saving
<1>11. ~Saving(<<"fragments", "enable">>)
  BY DEF Saving
<1>12. ~Saving(<<"enable">>)
  BY DEF Saving
<1>13. ~Saving(<<"load", "apply", "fragments">>)
  BY DEF Saving
<1>14. ~Saving(<<"flush", "disable">>)
  BY DEF Saving
<1>15. ~Saving(<<"disable">>)
  BY DEF Saving
<1>16. QED
  BY <1>1, <1>2, <1>3, <1>4, <1>5, <1>6, <1>7, <1>8, <1>9, <1>10, <1>11, <1>12, <1>13, <1>14, <1>15

(* The plans that begin with a save, and the others that hold one. *)
LEMMA SavingPlans ==
  /\ Saving(<<"apply", "fragments", "save">>)
  /\ Saving(<<"fragments", "save">>)
  /\ Saving(<<"save">>)
  /\ Saving(<<"save", "apply", "fragments">>)
  /\ Saving(<<"save", "flush">>)
  /\ Saving(<<"save", "etc", "ifEnabled", "apply", "fragments">>)
  /\ Saving(<<"save", "conf", "ifEnabled", "apply", "fragments">>)
  /\ Saving(<<"save", "ifEnabled", "apply", "fragments">>)
  /\ Saving(<<"flush", "backupRules", "backupFragments", "save", "disable">>)
  /\ Saving(<<"backupRules", "backupFragments", "save", "disable">>)
  /\ Saving(<<"backupFragments", "save", "disable">>)
  /\ Saving(<<"save", "disable">>)
  /\ Head(<<"apply", "fragments", "save">>) # "save"
  /\ Head(<<"fragments", "save">>) # "save"
  /\ Head(<<"flush", "backupRules", "backupFragments", "save", "disable">>) # "save"
  /\ Head(<<"backupRules", "backupFragments", "save", "disable">>) # "save"
  /\ Head(<<"backupFragments", "save", "disable">>) # "save"
  /\ Head(<<"save">>) = "save"
  /\ Head(<<"save", "apply", "fragments">>) = "save"
  /\ Head(<<"save", "flush">>) = "save"
  /\ Head(<<"save", "etc", "ifEnabled", "apply", "fragments">>) = "save"
  /\ Head(<<"save", "conf", "ifEnabled", "apply", "fragments">>) = "save"
  /\ Head(<<"save", "ifEnabled", "apply", "fragments">>) = "save"
  /\ Head(<<"save", "disable">>) = "save"
BY DEF Saving

(* No plan holds more than one save, so what is left after it saves no     *)
(* more; and only a saving plan leads to a saving plan.                    *)
LEMMA SavingTail ==
  ASSUME NEW o \in Locked, NEW s, Fits(o, s), s # <<>>
  PROVE  /\ Saving(Tail(s)) => Saving(s)
         /\ Head(s) = "save" => ~Saving(Tail(s))
<1>1. s \in CommitPlans => /\ Saving(Tail(s)) => Saving(s)
                           /\ Head(s) = "save" => ~Saving(Tail(s))
  BY Tails, SavedPlans, SavingPlans DEF CommitPlans
<1>2. s \in PanicOffPlans => /\ Saving(Tail(s)) => Saving(s)
                             /\ Head(s) = "save" => ~Saving(Tail(s))
  BY Tails, SavedPlans, SavingPlans DEF PanicOffPlans
<1>3. s \in SettingPlans => /\ Saving(Tail(s)) => Saving(s)
                            /\ Head(s) = "save" => ~Saving(Tail(s))
  BY Tails, SavedPlans, SavingPlans DEF SettingPlans
<1>4. s \in LoadPlans => /\ Saving(Tail(s)) => Saving(s)
                         /\ Head(s) = "save" => ~Saving(Tail(s))
  BY Tails, SavedPlans, SavingPlans DEF LoadPlans
<1>5. s \in StopPlans => /\ Saving(Tail(s)) => Saving(s)
                         /\ Head(s) = "save" => ~Saving(Tail(s))
  BY Tails, SavedPlans, SavingPlans DEF StopPlans
<1>6. s \in ResetPlans => /\ Saving(Tail(s)) => Saving(s)
                          /\ Head(s) = "save" => ~Saving(Tail(s))
  BY Tails, SavedPlans, SavingPlans DEF ResetPlans
<1>7. QED
  BY <1>1, <1>2, <1>3, <1>4, <1>5, <1>6
     DEF Fits, Locked, Committers, Setters, Loaders, Stoppers

(* An edit of the file, swept or not, is a promised outcome.               *)
LEMMA SweptEdits ==
  ASSUME NEW st \in State, NEW e \in Promise!Edits(st), e \in State, NEW x
  PROVE  e \in Swept(st, x) /\ Sweep(e, x) \in Swept(st, x)
<1>1. Sweep(e, {}) = e
  BY DEF Sweep, State
<1>2. {} \in SUBSET x /\ x \in SUBSET x
  OBVIOUS
<1>3. QED
  BY <1>1, <1>2 DEF Swept

(* What each handler does to its copy is one edit of the contents.         *)
LEMMA EditKinds ==
  ASSUME NEW st \in State
  PROVE  /\ st \in Promise!Edits(st)
         /\ Defaults \in Promise!Edits(st)
         /\ \A n \in NATRule : [st EXCEPT !.nat = st.nat \cup {n}] \in Promise!Edits(st)
         /\ \A n \in NATRule : [st EXCEPT !.nat = st.nat \ {n}] \in Promise!Edits(st)
         /\ \A b \in Ban : [st EXCEPT !.bans = st.bans \cup {b}] \in Promise!Edits(st)
         /\ \A b \in Ban : [st EXCEPT !.bans = st.bans \ {b}] \in Promise!Edits(st)
         /\ \A b \in BOOLEAN : [st EXCEPT !.panic = b] \in Promise!Edits(st)
         /\ \A pol \in Policy : [st EXCEPT !.policy = pol] \in Promise!Edits(st)
         /\ \A doc \in Docs, replace \in BOOLEAN :
              Import(st, doc, replace) \in Promise!Edits(st)
<1>1. st \in Promise!Edits(st)
  BY DEF Promise!Edits
<1>2. Defaults \in Promise!Edits(st)
  BY DEF Promise!Edits, Defaults, Promise!Defaults
<1>3. ASSUME NEW n \in NATRule
      PROVE  /\ [st EXCEPT !.nat = st.nat \cup {n}] \in Promise!Edits(st)
             /\ [st EXCEPT !.nat = st.nat \ {n}] \in Promise!Edits(st)
  <2>1. /\ [st EXCEPT !.nat = st.nat \cup {n}] \in Promise!NATEdits(st)
        /\ [st EXCEPT !.nat = st.nat \ {n}] \in Promise!NATEdits(st)
    BY DEF Promise!NATEdits
  <2>2. QED
    BY <2>1 DEF Promise!Edits
<1>4. ASSUME NEW b \in Ban
      PROVE  /\ [st EXCEPT !.bans = st.bans \cup {b}] \in Promise!Edits(st)
             /\ [st EXCEPT !.bans = st.bans \ {b}] \in Promise!Edits(st)
  <2>1. /\ [st EXCEPT !.bans = st.bans \cup {b}] \in Promise!BanEdits(st)
        /\ [st EXCEPT !.bans = st.bans \ {b}] \in Promise!BanEdits(st)
    BY DEF Promise!BanEdits
  <2>2. QED
    BY <2>1 DEF Promise!Edits
<1>5. ASSUME NEW on \in BOOLEAN PROVE [st EXCEPT !.panic = on] \in Promise!Edits(st)
  <2>1. [st EXCEPT !.panic = on] \in Promise!ModeEdits(st)
    BY DEF Promise!ModeEdits
  <2>2. QED
    BY <2>1 DEF Promise!Edits
<1>6. ASSUME NEW pol \in Policy PROVE [st EXCEPT !.policy = pol] \in Promise!Edits(st)
  <2>1. [st EXCEPT !.policy = pol] \in Promise!ModeEdits(st)
    BY DEF Promise!ModeEdits, Policy, Promise!Policy
  <2>2. QED
    BY <2>1 DEF Promise!Edits
<1>7. ASSUME NEW doc \in Docs, NEW replace \in BOOLEAN
      PROVE  Import(st, doc, replace) \in Promise!Edits(st)
  <2>1. Import(st, doc, replace) = Promise!Import(st, doc, replace)
    BY DEF Import, Promise!Import, Defaults, Promise!Defaults
  <2>2. Import(st, doc, replace) \in Promise!Imports(st)
    BY <2>1 DEF Promise!Imports
  <2>3. QED
    BY <2>2 DEF Promise!Edits
<1>8. QED
  BY <1>1, <1>2, <1>3, <1>4, <1>5, <1>6, <1>7

(* Only one command is at work at a time.                                  *)
LEMMA Alone ==
  ASSUME Exclusive, NEW p \in Proc, NEW q \in Proc, q # p,
         lock \in {p, Free} \/ op[p] # "none"
  PROVE  op[q] = "none"
BY FirewallAssumption DEF Exclusive

(* A command that takes the free lock with a fitting plan and copy keeps   *)
(* the invariant.                                                          *)
LEMMA BeginInv ==
  ASSUME IInv, NEW p \in Proc, NEW o \in Locked, NEW st \in State,
         NEW steps \in Seq(Step), Begin(p, o, st, steps),
         Fits(o, steps), Copy(o, st, steps),
         steps \notin {<<"fragments", "save">>, <<"save">>} \/ o # "panicOn"
  PROVE  IInv'
<1>1. o \in OpName /\ o # "none" /\ TypeOK
  BY DEF OpName, Locked, IInv
<1>2. TypeOK'
  BY <1>1, BeginType
<1>3. /\ \A q \in Proc \ {p} : op[q] = "none" /\ plan[q] = <<>>
      /\ \A q \in Proc \ {p} : op'[q] = "none" /\ plan'[q] = <<>>
      /\ op'[p] = o /\ plan'[p] = steps /\ work'[p] = st /\ lock' = p
      /\ UNCHANGED <<file, expired, inet>>
  BY <1>1, Alone DEF Begin, IInv, Exclusive, TypeOK, disk, kernel
<1>4. Exclusive'
  BY <1>1, <1>3 DEF Exclusive
<1>5. Copy(o, st, steps)'
  BY <1>3 DEF Copy, Swept
<1>6. Copies'
  BY <1>3, <1>5 DEF Copies, Copy
<1>7. DropsFirst'
  BY <1>1, <1>3 DEF DropsFirst
<1>8. PanicEnforced'
  BY <1>3 DEF IInv, PanicEnforced
<1>9. QED
  BY <1>2, <1>4, <1>6, <1>7, <1>8 DEF IInv

(* An edit that leaves panic alone, and the bans where it must, makes a    *)
(* copy the invariant allows.                                              *)
LEMMA CopyOfEdit ==
  ASSUME file \in State, NEW o, NEW s, NEW e \in Promise!Edits(file), e \in State,
         NEW st \in {e, Sweep(e, expired)}, e.panic = file.panic, o # "panicOn",
         o \in {"threat", "import"} \/ file.bans \subseteq e.bans, o # "reset"
  PROVE  Copy(o, st, s)
<1>1. st \in Swept(file, expired)
  BY SweptEdits
<1>2. st.panic = file.panic
  BY DEF Sweep, State
<1>3. o \in {"threat", "import"} \/ file.bans \ expired \subseteq st.bans
  BY DEF Sweep, State
<1>4. QED
  BY <1>1, <1>2, <1>3 DEF Copy

(* The plans the handlers start with fit.                                  *)
LEMMA FirstPlans ==
  /\ \A o \in Committers : Fits(o, <<>>) /\ Fits(o, CommitPlan)
  /\ Fits("panicOn", <<"apply", "fragments", "save">>)
  /\ Fits("panicOff", <<>>)
  /\ Fits("panicOff", <<"save", "apply", "fragments">>)
  /\ Fits("panicOff", <<"save", "flush">>)
  /\ Fits("default", <<"save", "etc", "ifEnabled", "apply", "fragments">>)
  /\ Fits("logging", <<"save", "conf", "ifEnabled", "apply", "fragments">>)
  /\ Fits("import", <<"save", "ifEnabled", "apply", "fragments">>)
  /\ \A o \in Loaders : Fits(o, <<>>) /\ Fits(o, <<"load", "apply", "fragments">>)
                        /\ Fits(o, <<"enable">>)
                        /\ Fits(o, <<"load", "apply", "fragments", "enable">>)
                        /\ Fits(o, <<"flush", "load", "apply", "fragments", "enable">>)
  /\ Fits("disable", <<"flush", "disable">>)
  /\ Fits("bootUnload", <<"flush">>)
  /\ Fits("reset", <<"flush", "backupRules", "backupFragments", "save", "disable">>)
  /\ Fits("reset", <<"backupRules", "backupFragments", "save", "disable">>)
<1> USE DEF Fits, Committers, Setters, Loaders, Stoppers
<1>1. \A o \in Committers : Fits(o, <<>>) /\ Fits(o, CommitPlan)
  BY DEF CommitPlan, CommitPlans
<1>2. Fits("panicOn", <<"apply", "fragments", "save">>)
  BY DEF CommitPlans
<1>3. /\ Fits("panicOff", <<>>)
      /\ Fits("panicOff", <<"save", "apply", "fragments">>)
      /\ Fits("panicOff", <<"save", "flush">>)
  BY DEF PanicOffPlans
<1>4. /\ Fits("default", <<"save", "etc", "ifEnabled", "apply", "fragments">>)
      /\ Fits("logging", <<"save", "conf", "ifEnabled", "apply", "fragments">>)
      /\ Fits("import", <<"save", "ifEnabled", "apply", "fragments">>)
  BY DEF SettingPlans
<1>5. \A o \in Loaders : Fits(o, <<>>) /\ Fits(o, <<"load", "apply", "fragments">>)
                        /\ Fits(o, <<"enable">>)
                        /\ Fits(o, <<"load", "apply", "fragments", "enable">>)
                        /\ Fits(o, <<"flush", "load", "apply", "fragments", "enable">>)
  BY DEF LoadPlans
<1>6. Fits("disable", <<"flush", "disable">>) /\ Fits("bootUnload", <<"flush">>)
  BY DEF StopPlans
<1>7. /\ Fits("reset", <<"flush", "backupRules", "backupFragments", "save", "disable">>)
      /\ Fits("reset", <<"backupRules", "backupFragments", "save", "disable">>)
  BY DEF ResetPlans
<1>8. QED
  BY <1>1, <1>2, <1>3, <1>4, <1>5, <1>6, <1>7

(* No disciplined command waits for the flock or copies /etc/default.      *)
LEMMA NoneWaits ==
  ASSUME Exclusive, NEW p \in Proc
  PROVE  ~Next1(p, "lock") /\ ~Next1(p, "readEtc")
<1>1. ASSUME NEW o \in Locked, NEW s, Fits(o, s), s # <<>>
      PROVE  Head(s) \notin {"lock", "readEtc"}
  <2>1. s \in CommitPlans => Head(s) \notin {"lock", "readEtc"}
    BY <1>1 DEF CommitPlans
  <2>2. s \in PanicOffPlans => Head(s) \notin {"lock", "readEtc"}
    BY <1>1 DEF PanicOffPlans
  <2>3. s \in SettingPlans => Head(s) \notin {"lock", "readEtc"}
    BY <1>1 DEF SettingPlans
  <2>4. s \in LoadPlans => Head(s) \notin {"lock", "readEtc"}
    BY <1>1 DEF LoadPlans
  <2>5. s \in StopPlans => Head(s) \notin {"lock", "readEtc"}
    BY <1>1 DEF StopPlans
  <2>6. s \in ResetPlans => Head(s) \notin {"lock", "readEtc"}
    BY <1>1 DEF ResetPlans
  <2>7. QED
    BY <1>1, <2>1, <2>2, <2>3, <2>4, <2>5, <2>6
       DEF Fits, Locked, Committers, Setters, Loaders, Stoppers
<1>2. QED
  BY <1>1 DEF Exclusive, Next1

(* A handler that takes the flock starts from the current contents of the  *)
(* file with one edit and a plan of its kind.                              *)
LEMMA HandlerInv ==
  ASSUME Disciplined, IInv, NEW p \in Proc, Handler(p)
  PROVE  IInv'
<1>1. /\ TypeOK /\ file \in State /\ enabled \in BOOLEAN
      /\ file.panic \in BOOLEAN /\ file.bans \subseteq Ban
      /\ inet.loaded \in BOOLEAN
  BY EditTypes DEF IInv, TypeOK, Table
<1>2. \A o \in {"nat", "threat", "sweep", "panicOn", "panicOff", "default",
               "logging", "import", "enable", "disable", "reload", "reset",
               "bootLoad", "bootUnload"} : o \in Locked
  BY DEF Locked
<1>3. file \in Promise!Edits(file) /\ Sweep(file, {}) = file
  BY <1>1, EditKinds DEF Sweep, State
<1>4. CASE NatAdd(p)
  <2>1. PICK n \in NATRule :
          Begin(p, "nat", Sweep([file EXCEPT !.nat = @ \cup {n}], expired), CommitPlan)
    BY <1>4 DEF NatAdd
  <2> DEFINE e == [file EXCEPT !.nat = file.nat \cup {n}]
  <2>2. e \in State /\ e \in Promise!Edits(file)
    BY <1>1, EditTypes, EditKinds
  <2>3. e.panic = file.panic /\ file.bans \subseteq e.bans
    BY <1>1 DEF State
  <2>4. Copy("nat", Sweep(e, expired), CommitPlan) /\ Sweep(e, expired) \in State
    BY <1>1, <2>2, <2>3, CopyOfEdit, RulesetTypes
  <2>5. Fits("nat", CommitPlan)
    BY FirstPlans DEF Committers
  <2>6. QED
    BY <1>2, <2>1, <2>4, <2>5, PlanTypes, BeginInv
<1>5. CASE NatDelete(p)
  <2>1. PICK n \in file.nat :
          Begin(p, "nat", Sweep([file EXCEPT !.nat = @ \ {n}], expired), CommitPlan)
    BY <1>5 DEF NatDelete
  <2> DEFINE e == [file EXCEPT !.nat = file.nat \ {n}]
  <2>2. e \in State /\ e \in Promise!Edits(file)
    BY <1>1, EditTypes, EditKinds
  <2>3. e.panic = file.panic /\ file.bans \subseteq e.bans
    BY <1>1 DEF State
  <2>4. Copy("nat", Sweep(e, expired), CommitPlan) /\ Sweep(e, expired) \in State
    BY <1>1, <2>2, <2>3, CopyOfEdit, RulesetTypes
  <2>5. Fits("nat", CommitPlan)
    BY FirstPlans DEF Committers
  <2>6. QED
    BY <1>2, <2>1, <2>4, <2>5, PlanTypes, BeginInv
<1>6. CASE ThreatUpdate(p)
  <2> DEFINE e(bans) == [file EXCEPT !.bans = bans]
             steps(bans) == IF bans = file.bans THEN <<>> ELSE CommitPlan
  <2>7. PICK b \in Ban : \E bans \in {file.bans \cup {b}, file.bans \ {b}} :
          Begin(p, "threat", Sweep(e(bans), expired), steps(bans))
    BY <1>6 DEF ThreatUpdate
  <2>1. PICK bans \in {file.bans \cup {b}, file.bans \ {b}} :
          Begin(p, "threat", Sweep(e(bans), expired), steps(bans))
    BY <2>7
  <2>2. e(bans) \in State /\ e(bans) \in Promise!Edits(file)
    BY <1>1, <2>1, EditTypes, EditKinds
  <2>3. e(bans).panic = file.panic
    BY <1>1 DEF State
  <2>4. Copy("threat", Sweep(e(bans), expired), steps(bans))
        /\ Sweep(e(bans), expired) \in State
    BY <1>1, <2>2, <2>3, CopyOfEdit, RulesetTypes
  <2>5. Fits("threat", steps(bans)) /\ steps(bans) \in Seq(Step)
    BY FirstPlans, PlanTypes DEF Committers
  <2>6. QED
    BY <1>2, <2>1, <2>4, <2>5, BeginInv
<1>7. CASE CmdSweep(p)
  <2> DEFINE steps == IF Sweep(file, expired) = file THEN <<>> ELSE CommitPlan
  <2>1. Begin(p, "sweep", Sweep(file, expired), steps)
    BY <1>7 DEF CmdSweep
  <2>2. Copy("sweep", Sweep(file, expired), steps) /\ Sweep(file, expired) \in State
    BY <1>1, <1>3, CopyOfEdit, RulesetTypes
  <2>3. Fits("sweep", steps) /\ steps \in Seq(Step)
    BY FirstPlans, PlanTypes DEF Committers
  <2>4. QED
    BY <1>2, <2>1, <2>2, <2>3, BeginInv
<1>8. CASE PanicOn(p)
  <2> DEFINE e == [file EXCEPT !.panic = TRUE]
             steps == IF file.panic THEN <<>> ELSE <<"apply", "fragments", "save">>
  <2>1. Begin(p, "panicOn", e, steps)
    BY <1>8 DEF PanicOn
  <2>2. e \in State /\ e \in Promise!Edits(file) /\ e.panic /\ e.bans = file.bans
    BY <1>1, EditTypes, EditKinds DEF State
  <2>3. e \in Swept(file, expired)
    BY <1>1, <2>2, SweptEdits
  <2>4. Copy("panicOn", e, steps)
    BY <2>2, <2>3 DEF Copy
  <2>5. Fits("panicOn", steps) /\ steps \in Seq(Step)
    BY FirstPlans, PlanTypes DEF Committers
  <2>6. steps \notin {<<"fragments", "save">>, <<"save">>}
    OBVIOUS
  <2>7. QED
    BY <1>2, <2>1, <2>2, <2>4, <2>5, <2>6, BeginInv
<1>9. CASE PanicOff(p)
  <2> DEFINE e == [file EXCEPT !.panic = FALSE]
             steps == IF ~file.panic THEN <<>>
                      ELSE IF enabled THEN <<"save", "apply", "fragments">>
                      ELSE <<"save", "flush">>
  <2>1. Begin(p, "panicOff", e, steps)
    BY <1>9 DEF PanicOff
  <2>2. e \in State /\ e \in Promise!Edits(file) /\ e.panic = FALSE /\ e.bans = file.bans
    BY <1>1, EditTypes, EditKinds DEF State
  <2>3. e \in Swept(file, expired)
    BY <1>1, <2>2, SweptEdits
  <2>4. file.panic => Saving(steps)
    BY SavingPlans
  <2>5. Copy("panicOff", e, steps)
    BY <1>1, <2>2, <2>3, <2>4 DEF Copy
  <2>6. Fits("panicOff", steps) /\ steps \in Seq(Step)
    BY FirstPlans, PlanTypes
  <2>7. QED
    BY <1>2, <2>1, <2>2, <2>5, <2>6, BeginInv
<1>10. CASE CmdDefault(p)
  <2> DEFINE steps == <<"save", "etc", "ifEnabled", "apply", "fragments">>
  <2>1. PICK pol \in Policy : Begin(p, "default", [file EXCEPT !.policy = pol], steps)
    BY <1>10 DEF CmdDefault
  <2> DEFINE e == [file EXCEPT !.policy = pol]
  <2>2. e \in State /\ e \in Promise!Edits(file)
    BY <1>1, EditTypes, EditKinds
  <2>3. e.panic = file.panic /\ file.bans \subseteq e.bans
    BY <1>1 DEF State
  <2>4. Copy("default", e, steps)
    BY <1>1, <2>2, <2>3, CopyOfEdit
  <2>5. QED
    BY <1>2, <2>1, <2>2, <2>4, FirstPlans, PlanTypes, BeginInv
<1>11. CASE CmdLogging(p)
  <2> DEFINE steps == <<"save", "conf", "ifEnabled", "apply", "fragments">>
  <2>1. Begin(p, "logging", file, steps) /\ Copy("logging", file, steps)
    BY <1>1, <1>3, <1>11, CopyOfEdit DEF CmdLogging
  <2>2. QED
    BY <1>1, <1>2, <2>1, FirstPlans, PlanTypes, BeginInv
<1>12. CASE CmdImport(p)
  <2> DEFINE steps == <<"save", "ifEnabled", "apply", "fragments">>
  <2>1. PICK doc \in Docs, replace \in BOOLEAN :
          Begin(p, "import", Import(file, doc, replace), steps)
    BY <1>12 DEF CmdImport
  <2> DEFINE e == Import(file, doc, replace)
  <2>2. e \in State /\ e \in Promise!Edits(file)
    BY <1>1, EditKinds, RulesetTypes, FirewallAssumption
  <2>3. e.panic => file.panic
    BY <1>1 DEF Import, Defaults, State, Disciplined
  <2>4. e \in Swept(file, expired) /\ Saving(steps)
    BY <1>1, <2>2, SweptEdits, SavingPlans
  <2>5. Copy("import", e, steps)
    BY <2>3, <2>4 DEF Copy
  <2>6. QED
    BY <1>2, <2>1, <2>2, <2>5, FirstPlans, PlanTypes, BeginInv
<1>13. CASE CmdEnable(p)
  <2> DEFINE steps == IF inet.loaded THEN <<"enable">>
                      ELSE <<"load", "apply", "fragments", "enable">>
  <2>1. Begin(p, "enable", file, steps) /\ Copy("enable", file, steps)
    BY <1>1, <1>3, <1>13, CopyOfEdit DEF CmdEnable
  <2>2. Fits("enable", steps) /\ steps \in Seq(Step)
    BY FirstPlans, PlanTypes DEF Loaders
  <2>3. QED
    BY <1>1, <1>2, <2>1, <2>2, BeginInv
<1>14. CASE CmdDisable(p)
  <2>1. /\ Begin(p, "disable", file, <<"flush", "disable">>)
        /\ Copy("disable", file, <<"flush", "disable">>)
    BY <1>1, <1>3, <1>14, CopyOfEdit DEF CmdDisable
  <2>2. QED
    BY <1>1, <1>2, <2>1, FirstPlans, PlanTypes, BeginInv
<1>15. CASE CmdReload(p)
  <2> DEFINE steps == IF enabled THEN <<"flush", "load", "apply", "fragments", "enable">>
                      ELSE <<>>
  <2>1. Begin(p, "reload", file, steps) /\ Copy("reload", file, steps)
    BY <1>1, <1>3, <1>15, CopyOfEdit DEF CmdReload
  <2>2. Fits("reload", steps) /\ steps \in Seq(Step)
    BY FirstPlans, PlanTypes DEF Loaders
  <2>3. QED
    BY <1>1, <1>2, <2>1, <2>2, BeginInv
<1>16. CASE CmdReset(p)
  <2> DEFINE steps ==
        IF enabled
        THEN <<"flush", "backupRules", "backupFragments", "save", "disable">>
        ELSE <<"backupRules", "backupFragments", "save", "disable">>
  <2>1. Begin(p, "reset", Defaults, steps)
    BY <1>16 DEF CmdReset
  <2>2. Defaults \in State /\ Defaults \in Promise!Edits(file) /\ ~Defaults.panic
    BY <1>1, EditKinds, RulesetTypes DEF Defaults
  <2>3. Defaults \in Swept(file, expired)
    BY <1>1, <2>2, SweptEdits
  <2>4. Copy("reset", Defaults, steps)
    BY <2>2, <2>3 DEF Copy
  <2>5. Fits("reset", steps) /\ steps \in Seq(Step)
    BY FirstPlans, PlanTypes
  <2>6. QED
    BY <1>2, <2>1, <2>2, <2>4, <2>5, BeginInv
<1>17. CASE BootLoad(p)
  <2> DEFINE steps == IF enabled THEN <<"load", "apply", "fragments">> ELSE <<>>
  <2>1. Begin(p, "bootLoad", file, steps) /\ Copy("bootLoad", file, steps)
    BY <1>1, <1>3, <1>17, CopyOfEdit DEF BootLoad
  <2>2. Fits("bootLoad", steps) /\ steps \in Seq(Step)
    BY FirstPlans, PlanTypes DEF Loaders
  <2>3. QED
    BY <1>1, <1>2, <2>1, <2>2, BeginInv
<1>18. CASE BootUnload(p)
  <2>1. Begin(p, "bootUnload", file, <<"flush">>) /\ Copy("bootUnload", file, <<"flush">>)
    BY <1>1, <1>3, <1>18, CopyOfEdit DEF BootUnload
  <2>2. QED
    BY <1>1, <1>2, <2>1, FirstPlans, PlanTypes, BeginInv
<1>19. ~LoadForRule(p) /\ ~AppUpdate(p) /\ ~AppDefault(p)
  BY DEF LoadForRule, AppUpdate, AppDefault, LoadForApp, Disciplined, Locked
<1>20. ~LockForRule(p)
  BY NoneWaits DEF LockForRule, IInv
<1>21. QED
  BY <1>4, <1>5, <1>6, <1>7, <1>8, <1>9, <1>10, <1>11, <1>12, <1>13, <1>14,
     <1>15, <1>16, <1>17, <1>18, <1>19, <1>20 DEF Handler

(* Only the save itself makes a plan that saves one that does not.         *)
LEMMA OnlySaveSaves ==
  ASSUME NEW o \in Locked, NEW s, Fits(o, s), s # <<>>, Head(s) # "save", Saving(s)
  PROVE  Saving(Tail(s))
<1>1. s \in CommitPlans => Saving(Tail(s))
  BY Tails, SavingPlans DEF CommitPlans
<1>2. s \in PanicOffPlans => Saving(Tail(s))
  BY Tails, SavedPlans, SavingPlans DEF PanicOffPlans
<1>3. s \in SettingPlans => Saving(Tail(s))
  BY Tails, SavedPlans, SavingPlans DEF SettingPlans
<1>4. s \in LoadPlans => Saving(Tail(s))
  BY Tails, SavedPlans DEF LoadPlans
<1>5. s \in StopPlans => Saving(Tail(s))
  BY Tails, SavedPlans DEF StopPlans
<1>6. s \in ResetPlans => Saving(Tail(s))
  BY Tails, SavedPlans, SavingPlans DEF ResetPlans
<1>7. QED
  BY <1>1, <1>2, <1>3, <1>4, <1>5, <1>6
     DEF Fits, Locked, Committers, Setters, Loaders, Stoppers

(* What the next call tells of the command that makes it.                  *)
LEMMA HeadOps ==
  ASSUME NEW o \in Locked, NEW s, Fits(o, s), s # <<>>
  PROVE  /\ Head(s) = "load" => o \in Loaders
         /\ Head(s) = "backupRules" => o = "reset"
         /\ Head(s) = "ifEnabled" => o \in Setters /\ ~Saving(s)
         /\ Head(s) = "apply" => o # "reset" /\ (Saving(s) => o \in Committers)
         /\ o = "panicOn" => \/ s = <<"apply", "fragments", "save">>
                             \/ s = <<"fragments", "save">>
                             \/ s = <<"save">>
<1>1. s \in CommitPlans => /\ Head(s) \notin {"load", "backupRules", "ifEnabled"}
                           /\ \/ s = <<"apply", "fragments", "save">>
                              \/ s = <<"fragments", "save">>
                              \/ s = <<"save">>
  BY DEF CommitPlans
<1>2. s \in PanicOffPlans => /\ Head(s) \notin {"load", "backupRules", "ifEnabled"}
                             /\ Head(s) = "apply" => ~Saving(s)
  <2>1. /\ Head(<<"apply", "fragments">>) = "apply"
        /\ Head(<<"fragments">>) = "fragments"
        /\ Head(<<"flush">>) = "flush"
    OBVIOUS
  <2>2. QED
    BY <2>1, SavedPlans, SavingPlans DEF PanicOffPlans
<1>3. s \in SettingPlans => /\ Head(s) \notin {"load", "backupRules"}
                            /\ Head(s) \in {"apply", "ifEnabled"} => ~Saving(s)
  BY SavedPlans, SavingPlans DEF SettingPlans
<1>4. s \in LoadPlans => /\ Head(s) \notin {"backupRules", "ifEnabled"}
                         /\ Head(s) = "apply" => ~Saving(s)
  BY SavedPlans DEF LoadPlans
<1>5. s \in StopPlans => Head(s) \notin {"load", "backupRules", "ifEnabled", "apply"}
  BY DEF StopPlans
<1>6. s \in ResetPlans => Head(s) \notin {"load", "ifEnabled", "apply"}
  BY DEF ResetPlans
<1>7. QED
  BY <1>1, <1>2, <1>3, <1>4, <1>5, <1>6
     DEF Fits, Locked, Committers, Setters, Loaders, Stoppers

(* A command about to save is one whose copy has yet to be stored.         *)
LEMMA SaveHead ==
  ASSUME NEW o \in Locked, NEW s, Fits(o, s), s # <<>>, Head(s) = "save"
  PROVE  Saving(s)
<1>1. s \in CommitPlans => Saving(s)
  BY SavingPlans DEF CommitPlans
<1>2. s \in PanicOffPlans => Saving(s)
  <2>1. Head(<<"apply", "fragments">>) # "save" /\ Head(<<"fragments">>) # "save"
        /\ Head(<<"flush">>) # "save"
    OBVIOUS
  <2>2. QED
    BY <2>1, SavingPlans DEF PanicOffPlans
<1>3. s \in SettingPlans => Saving(s)
  BY SavingPlans DEF SettingPlans
<1>4. s \notin LoadPlans /\ s \notin StopPlans
  BY DEF LoadPlans, StopPlans
<1>5. s \in ResetPlans => Saving(s)
  BY SavingPlans DEF ResetPlans
<1>6. QED
  BY <1>1, <1>2, <1>3, <1>4, <1>5
     DEF Fits, Locked, Committers, Setters, Loaders, Stoppers

(* A call of the command at work keeps the invariant if what is left fits, *)
(* its copy stays an allowed one and what it does to the table keeps panic *)
(* enforced; the other processes, which run nothing, are left alone.       *)
LEMMA AdvanceInv ==
  ASSUME IInv, TypeOK', NEW p \in Proc, plan[p] # <<>>,
         NEW s, plan' = [plan EXCEPT ![p] = s], Fits(op[p], s),
         UNCHANGED <<lock, op>>,
         Copy(op[p], work[p], plan[p])',
         PanicEnforced',
         op[p] = "panicOn" /\ s \in {<<"fragments", "save">>, <<"save">>}
           => (inet'.loaded => inet'.drop)
  PROVE  IInv'
<1>1. op[p] \in Locked /\ lock = p /\ op[p] # "none"
  BY DEF IInv, Exclusive
<1>2. \A q \in Proc \ {p} : op[q] = "none" /\ plan[q] = <<>>
  BY <1>1, Alone DEF IInv, Exclusive
<1>3. /\ plan'[p] = s
      /\ \A q \in Proc \ {p} : plan'[q] = plan[q]
  BY DEF IInv, TypeOK
<1>4. Exclusive'
  BY <1>1, <1>2, <1>3 DEF Exclusive
<1>5. Copies'
  BY <1>1, <1>2 DEF Copies
<1>6. DropsFirst'
  BY <1>1, <1>2, <1>3 DEF DropsFirst
<1>7. QED
  BY <1>4, <1>5, <1>6 DEF IInv

(* When a command is over, or is killed, nothing is left of it.            *)
LEMMA ReleaseInv ==
  ASSUME IInv, TypeOK', NEW p \in Proc, op[p] # "none", Release(p), PanicEnforced'
  PROVE  IInv'
<1>1. \A q \in Proc \ {p} : op[q] = "none" /\ plan[q] = <<>>
  BY Alone DEF IInv, Exclusive
<1>2. /\ \A q \in Proc : op'[q] = "none" /\ plan'[q] = <<>>
  BY <1>1 DEF Release, IInv, TypeOK
<1>3. Exclusive' /\ Copies' /\ DropsFirst'
  BY <1>2 DEF Exclusive, Copies, DropsFirst
<1>4. QED
  BY <1>3 DEF IInv

(* While the file and the clock stand still and the copy is not touched,   *)
(* what was an allowed copy stays one for a plan that saves as before.     *)
LEMMA CopyStays ==
  ASSUME IInv, NEW p \in Proc, plan[p] # <<>>,
         NEW s, plan' = [plan EXCEPT ![p] = s], Saving(s) <=> Saving(plan[p]),
         UNCHANGED <<file, expired, op>>, work'[p] = work[p]
  PROVE  Copy(op[p], work[p], plan[p])'
<1>1. Copy(op[p], work[p], plan[p])
  BY DEF IInv, Exclusive, Copies
<1>2. plan'[p] = s
  BY DEF IInv, TypeOK
<1>3. QED
  BY <1>1, <1>2 DEF Copy, Swept

(* Every call keeps the inductive invariant: it moves the command on in    *)
(* its plan, and saving makes the file the copy.                           *)
LEMMA CallInv ==
  ASSUME IInv, NEW p \in Proc, Call(p)
  PROVE  IInv'
<1>1. TypeOK /\ TypeOK'
  BY CallType DEF IInv
<1>2. CASE Return(p)
  <2>1. op[p] # "none" /\ PanicEnforced'
    BY <1>2 DEF Return, Done, IInv, PanicEnforced, disk, kernel
  <2>2. QED
    BY <1>1, <1>2, <2>1, ReleaseInv DEF Return
<1>3. ASSUME ~Return(p) PROVE IInv'
  <2> DEFINE s == Tail(plan[p])
  <2>1. plan[p] # <<>> /\ UNCHANGED <<lock, op, expired>>
    BY <1>3 DEF Call, Load, Apply, ApplyFragments, Flush, Save, SaveConf, ReadEtc,
                WriteEtcDefault, Backup, IfEnabled, Next1
  <2>2. /\ op[p] \in Locked /\ Fits(op[p], plan[p]) /\ op[p] # "none" /\ lock = p
        /\ Copy(op[p], work[p], plan[p])
        /\ PanicEnforced
        /\ file \in State /\ work[p] \in State
        /\ file.panic \in BOOLEAN /\ work[p].panic \in BOOLEAN
    BY <1>1, <2>1, EditTypes DEF IInv, Exclusive, Copies, TypeOK, Locked
  <2>3. Fits(op[p], s)
    BY <2>1, <2>2, FitsTail
  <2>4. Head(plan[p]) # "save" => (Saving(s) <=> Saving(plan[p]))
    BY <2>1, <2>2, SavingTail, OnlySaveSaves
  <2>5. CASE Load(p)
    <3>1. op[p] \in Loaders
      BY <2>1, <2>2, <2>5, HeadOps DEF Load, Next1
    <3>2. op[p] \notin {"panicOn", "reset"}
      BY <3>1 DEF Loaders
    <3>3. Copy(op[p], file, s)
      BY <2>2, <3>2, EditKinds, CopyOfEdit
    <3>4. work'[p] = file /\ plan' = [plan EXCEPT ![p] = s] /\ plan'[p] = s
      BY <1>1, <2>5 DEF Load, Advance, TypeOK
    <3>5. Copy(op[p], work[p], plan[p])'
      BY <2>1, <2>5, <3>3, <3>4 DEF Copy, Swept, Load, disk
    <3>6. PanicEnforced'
      BY <2>2, <2>5 DEF Load, PanicEnforced, disk, kernel
    <3>7. QED
      BY <1>1, <2>1, <2>3, <3>2, <3>4, <3>5, <3>6, AdvanceInv
  <2>6. CASE Apply(p)
    <3>1. /\ Head(plan[p]) = "apply" /\ plan' = [plan EXCEPT ![p] = s]
          /\ UNCHANGED <<file, expired, work>>
          /\ inet' = CompileInet(work[p], etc, expired)
      BY <2>6 DEF Apply, Next1, Advance, disk
    <3>2. inet'.drop = work[p].panic
      BY <3>1 DEF CompileInet
    <3>3. file.panic => work[p].panic
      BY <2>1, <2>2, <3>1, HeadOps DEF Copy, Committers
    <3>4. PanicEnforced'
      BY <3>1, <3>2, <3>3 DEF PanicEnforced
    <3>5. op[p] = "panicOn" => inet'.drop
      BY <2>2, <3>2 DEF Copy
    <3>6. Copy(op[p], work[p], plan[p])'
      BY <2>1, <2>4, <3>1, CopyStays
    <3>7. QED
      BY <1>1, <2>1, <2>3, <3>1, <3>4, <3>5, <3>6, AdvanceInv
  <2>7. CASE ApplyFragments(p)
    <3>1. /\ Head(plan[p]) = "fragments" /\ plan' = [plan EXCEPT ![p] = s]
          /\ UNCHANGED <<file, expired, work>>
          /\ inet'.loaded = inet.loaded /\ inet'.drop = inet.drop
      BY <1>1, <2>7 DEF ApplyFragments, Next1, Advance, disk, TypeOK, Table
    <3>2. PanicEnforced'
      BY <2>2, <3>1 DEF PanicEnforced
    <3>3. op[p] = "panicOn" => (inet'.loaded => inet'.drop)
      BY <2>1, <2>2, <3>1, HeadOps DEF IInv, DropsFirst
    <3>4. Copy(op[p], work[p], plan[p])'
      BY <2>1, <2>4, <3>1, CopyStays
    <3>5. QED
      BY <1>1, <2>1, <2>3, <3>1, <3>2, <3>3, <3>4, AdvanceInv
  <2>8. CASE Flush(p)
    <3>1. /\ Head(plan[p]) = "flush" /\ plan' = [plan EXCEPT ![p] = s]
          /\ UNCHANGED <<file, expired, work>>
          /\ inet'.loaded = FALSE
      BY <2>8 DEF Flush, Next1, Advance, disk, NoTable
    <3>2. PanicEnforced'
      BY <3>1 DEF PanicEnforced
    <3>3. Copy(op[p], work[p], plan[p])'
      BY <2>1, <2>4, <3>1, CopyStays
    <3>4. QED
      BY <1>1, <2>1, <2>3, <3>1, <3>2, <3>3, AdvanceInv
  <2>9. CASE Save(p)
    <3>1. /\ Head(plan[p]) = "save" /\ plan' = [plan EXCEPT ![p] = s]
          /\ UNCHANGED <<expired, work, inet>> /\ file' = work[p] /\ plan'[p] = s
      BY <1>1, <2>9 DEF Save, Next1, Advance, kernel, TypeOK
    <3>2. ~Saving(s)
      BY <2>1, <2>2, <3>1, SavingTail
    <3>3. Copy(op[p], work[p], plan[p])'
      BY <2>1, <2>2, <3>1, <3>2 DEF Copy
    <3>4. op[p] = "panicOn" => (inet.loaded => inet.drop)
      BY <2>1, <2>2, <3>1, HeadOps DEF IInv, DropsFirst
    <3>5. PanicEnforced'
      BY <2>2, <3>1, <3>4 DEF PanicEnforced, Copy
    <3>6. QED
      BY <1>1, <2>1, <2>3, <3>1, <3>3, <3>4, <3>5, AdvanceInv
  <2>10. CASE SaveConf(p) \/ WriteEtcDefault(p) \/ (Backup(p) /\ UNCHANGED file)
    <3>1. /\ Head(plan[p]) # "save" /\ plan' = [plan EXCEPT ![p] = s]
          /\ UNCHANGED <<file, expired, work, inet>>
      BY <2>10 DEF SaveConf, WriteEtcDefault, Backup, Next1, Advance, kernel
    <3>2. PanicEnforced'
      BY <2>2, <3>1 DEF PanicEnforced
    <3>3. Copy(op[p], work[p], plan[p])'
      BY <2>1, <2>4, <3>1, CopyStays
    <3>4. op[p] # "panicOn"
      BY <2>1, <2>2, <2>10, HeadOps DEF SaveConf, WriteEtcDefault, Backup, Next1
    <3>5. QED
      BY <1>1, <2>1, <2>3, <3>1, <3>2, <3>3, <3>4, AdvanceInv
  <2>11. CASE Backup(p) /\ file' # file
    <3>1. /\ Head(plan[p]) = "backupRules" /\ plan' = [plan EXCEPT ![p] = s]
          /\ UNCHANGED <<expired, work, inet>> /\ file' = Defaults /\ plan'[p] = s
      BY <1>1, <2>11 DEF Backup, Next1, Advance, kernel, TypeOK
    <3>2. op[p] = "reset" /\ work[p] = Defaults
      BY <2>1, <2>2, <3>1, HeadOps DEF Copy
    <3>3. Defaults \in Swept(Defaults, expired)
      BY RulesetTypes, EditKinds, SweptEdits
    <3>4. Copy(op[p], work[p], plan[p])'
      BY <2>1, <3>1, <3>2, <3>3 DEF Copy, Swept
    <3>5. PanicEnforced'
      BY <3>1 DEF PanicEnforced, Defaults
    <3>6. QED
      BY <1>1, <2>1, <2>3, <3>1, <3>2, <3>4, <3>5, AdvanceInv
  <2>12. CASE IfEnabled(p)
    <3>1. /\ Head(plan[p]) = "ifEnabled"
          /\ \/ plan' = [plan EXCEPT ![p] = s]
             \/ plan' = [plan EXCEPT ![p] = <<>>]
          /\ UNCHANGED <<file, expired, work, inet>>
      BY <2>12 DEF IfEnabled, Next1, disk, kernel
    <3>2. op[p] \in Setters /\ ~Saving(plan[p])
      BY <2>1, <2>2, <3>1, HeadOps
    <3>3. op[p] # "panicOn" /\ Fits(op[p], <<>>) /\ ~Saving(<<>>)
      BY <3>2, SavedPlans DEF Fits, Setters, Committers, Loaders, Stoppers, SettingPlans
    <3>4. PanicEnforced'
      BY <2>2, <3>1 DEF PanicEnforced
    <3>5. Copy(op[p], work[p], plan[p])'
      BY <2>1, <2>4, <3>1, <3>2, <3>3, CopyStays
    <3>6. QED
      BY <1>1, <2>1, <2>3, <3>1, <3>3, <3>4, <3>5, AdvanceInv
  <2>13. ~ReadEtc(p)
    BY NoneWaits DEF ReadEtc, IInv
  <2>14. QED
    BY <1>3, <2>5, <2>6, <2>7, <2>8, <2>9, <2>10, <2>11, <2>12, <2>13 DEF Call
<1>4. QED
  BY <1>2, <1>3

(* A failing call, a kill or a reboot ends the command; the flock goes     *)
(* with it and what it had done keeps the invariant.                       *)
LEMMA FailureInv ==
  ASSUME IInv, (\E p \in Proc : Fail(p) \/ Kill(p)) \/ Reboot \/ Expire
  PROVE  IInv'
<1>1. TypeOK /\ TypeOK' /\ PanicEnforced
  BY FailureType DEF IInv
<1>2. ASSUME NEW p \in Proc, Fail(p) PROVE IInv'
  <2>1. op[p] # "none" /\ Release(p)
    BY <1>2 DEF Fail, IInv, Exclusive
  <2>2. PanicEnforced'
    BY <1>1, <1>2 DEF Fail, PanicEnforced, kernel, NoTable
  <2>3. QED
    BY <1>1, <2>1, <2>2, ReleaseInv
<1>3. ASSUME NEW p \in Proc, Kill(p) PROVE IInv'
  <2>1. op[p] # "none" /\ Release(p)
    BY <1>3 DEF Kill
  <2>2. PanicEnforced'
    BY <1>1, <1>3 DEF Kill, PanicEnforced, kernel
  <2>3. QED
    BY <1>1, <2>1, <2>2, ReleaseInv
<1>4. CASE Reboot
  <2>1. \A q \in Proc : op'[q] = "none" /\ plan'[q] = <<>>
    BY <1>4 DEF Reboot
  <2>2. PanicEnforced'
    BY <1>4 DEF Reboot, PanicEnforced, NoTable
  <2>3. QED
    BY <1>1, <2>1, <2>2 DEF IInv, Exclusive, Copies, DropsFirst
<1>5. CASE Expire
  <2>1. expired \subseteq expired' /\ UNCHANGED <<file, inet, lock, op, plan, work>>
    BY <1>5 DEF Expire, disk, kernel, procs
  <2>2. ASSUME NEW st \in Swept(file, expired) PROVE st \in Swept(file, expired')
    <3>1. SUBSET expired \subseteq SUBSET expired'
      BY <2>1
    <3>2. QED
      BY <3>1 DEF Swept
  <2>3. ASSUME NEW q \in Proc, Copy(op[q], work[q], plan[q])
        PROVE  Copy(op[q], work[q], plan[q])'
    <3>1. Swept(file, expired') = Swept(file, expired)'
      BY <2>1 DEF Swept
    <3>2. QED
      BY <2>1, <2>2, <2>3, <3>1 DEF Copy
  <2>4. Copies'
    BY <2>1, <2>3 DEF Copies, IInv
  <2>5. QED
    BY <1>1, <2>1, <2>4 DEF IInv, Exclusive, DropsFirst, PanicEnforced
<1>6. QED
  BY <1>2, <1>3, <1>4, <1>5

(* IInv is an inductive invariant of a disciplined instance.               *)
THEOREM Inductive == ASSUME Disciplined PROVE Spec => []IInv
<1>1. Init => IInv
  <2>1. Init => TypeOK
    BY RulesetTypes, PlanTypes, RulesetAssumption DEF Init, TypeOK
  <2>2. QED
    BY <2>1 DEF Init, IInv, Exclusive, Copies, DropsFirst, PanicEnforced, Defaults
<1>2. IInv /\ [Next]_vars => IInv'
  <2>1. ASSUME IInv, UNCHANGED vars PROVE IInv'
    <3>1. TypeOK'
      BY <2>1 DEF IInv, TypeOK, vars
    <3>2. QED
      BY <2>1, <3>1 DEF IInv, Exclusive, Copies, Copy, Swept, DropsFirst,
                        PanicEnforced, vars
  <2>2. ASSUME IInv, Next PROVE IInv'
    BY <2>2, HandlerInv, CallInv, FailureInv DEF Next
  <2>3. QED
    BY <2>1, <2>2
<1>3. QED
  BY <1>1, <1>2, PTL DEF Spec

(* Under the flock, while rules.json says panic no ruleset that lets       *)
(* traffic through is ever loaded.                                         *)
THEOREM PanicIsEnforced == ASSUME Disciplined PROVE Spec => []PanicEnforced
<1>1. IInv => PanicEnforced
  BY DEF IInv
<1>2. QED
  BY <1>1, Inductive, PTL

(* Only the save, and the renaming in reset, change rules.json; what each  *)
(* writes is known from the invariant.                                     *)
LEMMA FileChanges ==
  ASSUME IInv, [Next]_vars, file' # file
  PROVE  \E p \in Proc :
           /\ plan[p] # <<>> /\ lock = p /\ op[p] \in Locked
           /\ Fits(op[p], plan[p]) /\ Copy(op[p], work[p], plan[p])
           /\ expired' = expired
           /\ \/ Next1(p, "save") /\ Saving(plan[p]) /\ file' = work[p]
              \/ Next1(p, "backupRules") /\ op[p] = "reset" /\ file' = Defaults
<1>1. ~UNCHANGED vars /\ ~Reboot /\ ~Expire
  BY DEF vars, Reboot, Expire, disk
<1>2. PICK p \in Proc : Handler(p) \/ Call(p) \/ Fail(p) \/ Kill(p)
  BY <1>1 DEF Next
<1>3. ~Handler(p) /\ ~Fail(p) /\ ~Kill(p)
  BY DEF Handler, NatAdd, NatDelete, ThreatUpdate, CmdSweep, PanicOn, PanicOff,
         CmdDefault, CmdLogging, CmdImport, CmdEnable, CmdDisable, CmdReload,
         CmdReset, BootLoad, BootUnload, LoadForRule, LockForRule, AppUpdate,
         AppDefault, LoadForApp, Begin, Fail, Kill, disk
<1>4. Save(p) \/ Backup(p)
  BY <1>2, <1>3 DEF Call, Load, Apply, ApplyFragments, Flush, SaveConf, ReadEtc,
                    WriteEtcDefault, IfEnabled, Return, disk
<1>5. plan[p] # <<>>
  BY <1>4 DEF Save, Backup, Next1
<1>6. /\ lock = p /\ op[p] \in Locked /\ Fits(op[p], plan[p])
      /\ Copy(op[p], work[p], plan[p])
  BY <1>5 DEF IInv, Exclusive, Copies, Locked
<1>7. expired' = expired
  BY <1>4 DEF Save, Backup
<1>8. CASE Save(p)
  BY <1>5, <1>6, <1>7, <1>8, SaveHead DEF Save, Next1
<1>9. CASE Backup(p)
  BY <1>5, <1>6, <1>7, <1>9, HeadOps DEF Backup, Next1
<1>10. QED
  BY <1>4, <1>8, <1>9

(* Under the flock, panic mode is only ended by panic off, an import or a  *)
(* reset.                                                                  *)
THEOREM PanicStandsUnderLock == ASSUME Disciplined PROVE Spec => PanicStands
<1>1. IInv /\ [Next]_vars =>
        [file.panic /\ ~file'.panic =>
           \E p \in Proc : op[p] \in {"panicOff", "import", "reset"}
                           /\ (Next1(p, "save") \/ Next1(p, "backupRules"))]_file
  BY FileChanges DEF Copy
<1>2. QED
  BY <1>1, Inductive, PTL DEF Spec, PanicStands

(* Under the flock, a threat ban leaves rules.json when it expires or by a *)
(* threat update, an import or a reset.                                    *)
THEOREM BansStayUnderLock == ASSUME Disciplined PROVE Spec => BansStay
<1>1. IInv /\ [Next]_vars =>
        [\A b \in file.bans \ file'.bans :
           b \in expired \/ \E p \in Proc : op[p] \in {"threat", "import", "reset"}
                                            /\ lock = p]_file
  BY FileChanges DEF Copy
<1>2. QED
  BY <1>1, Inductive, PTL DEF Spec, BansStay

(* Under the flock, every change of rules.json is one command's edit of    *)
(* its current contents: Firewall implements Transactions.                 *)
THEOREM NoUpdateIsLost == ASSUME Disciplined PROVE Spec => NoLostUpdate
<1>1. Init => Promise!TInit
  BY DEF Init, Promise!TInit, Defaults, Promise!Defaults
<1>2. ASSUME NEW st, NEW x PROVE Sweep(st, x) = Promise!Sweep(st, x)
  BY DEF Sweep, Promise!Sweep
<1>3. IInv /\ [Next]_vars => [Promise!TNext]_(Promise!tvars)
  <2> SUFFICES ASSUME IInv, [Next]_vars PROVE [Promise!TNext]_(Promise!tvars)
    OBVIOUS
  <2>1. CASE file' # file
    <3>1. PICK p \in Proc :
            /\ expired' = expired
            /\ \/ file' \in Swept(file, expired)
               \/ file' = Defaults
      BY <2>1, FileChanges DEF Copy
    <3>2. file' \in Swept(file, expired)
      BY <3>1, RulesetTypes, EditKinds, SweptEdits DEF IInv, TypeOK
    <3>3. Promise!Commit
      BY <1>2, <3>1, <3>2 DEF Promise!Commit, Swept
    <3>4. QED
      BY <3>3 DEF Promise!TNext
  <2>2. CASE file' = file
    <3>1. CASE Expire
      BY <2>2, <3>1 DEF Expire, Promise!TNext, Promise!Lapse
    <3>2. CASE ~Expire
      <4>1. expired' = expired
        BY <3>2 DEF Next, vars, Handler, NatAdd, NatDelete, ThreatUpdate, CmdSweep,
             PanicOn, PanicOff, CmdDefault, CmdLogging, CmdImport, CmdEnable,
             CmdDisable, CmdReload, CmdReset, BootLoad, BootUnload, LoadForRule,
             LockForRule, AppUpdate, AppDefault, LoadForApp, Begin, Call, Load,
             Apply, ApplyFragments, Flush, Save, SaveConf, ReadEtc,
             WriteEtcDefault, Backup, IfEnabled, Return, Fail, Kill, Reboot
      <4>2. QED
        BY <2>2, <4>1 DEF Promise!tvars
    <3>3. QED
      BY <3>1, <3>2
  <2>3. QED
    BY <2>1, <2>2
<1>4. QED
  BY <1>1, <1>3, Inductive, PTL DEF Spec, NoLostUpdate, Promise!TSpec

-----------------------------------------------------------------------------
(* What a command that succeeds leaves behind: the plans of the handlers, *)
(* and what the kernel enforces after each of their calls.                 *)

Committing == Committers \cup {"rule"}

(* What is left of a plan that holds no call that bears on the table.      *)
Idle == {<<>>, <<"lock">>}

LEMMA IdlePlans ==
  ASSUME NEW s \in Idle
  PROVE  s \notin Saved /\ s \notin Applied /\ s # <<"save">> /\ s # <<"enable">>
         /\ s # <<"disable">> /\ s # <<"apply", "fragments", "save">>
         /\ (s = <<"lock">> => s # <<>>)
BY DEF Idle, Saved, Applied

(* The calls of every plan, with what is left after them.                  *)
Move(o, s, t) ==
  /\ Head(s) = "load" =>
       /\ o \in Loaders
       /\ \/ /\ s = <<"load", "apply", "fragments", "enable">>
             /\ t = <<"apply", "fragments", "enable">>
          \/ s = <<"load", "apply", "fragments">> /\ t = <<"apply", "fragments">>
  /\ Head(s) = "apply" =>
       \/ /\ s = <<"apply", "fragments", "save">> /\ t = <<"fragments", "save">>
          /\ o \in Committing
       \/ /\ s = <<"apply", "fragments">> /\ t = <<"fragments">>
          /\ o \in {"panicOff"} \cup Setters \cup Loaders
       \/ /\ s = <<"apply", "fragments", "enable">> /\ t = <<"fragments", "enable">>
          /\ o \in Loaders
  /\ Head(s) = "fragments" =>
       \/ s = <<"fragments", "save">> /\ t = <<"save">> /\ o \in Committing
       \/ /\ s = <<"fragments">> /\ t = <<>>
          /\ o \in {"panicOff"} \cup Setters \cup Loaders
       \/ s = <<"fragments", "enable">> /\ t = <<"enable">> /\ o \in Loaders
  /\ Head(s) = "flush" =>
       \/ s = <<"flush">> /\ t = <<>> /\ o \in {"panicOff"} \cup Stoppers
       \/ /\ s = <<"flush", "load", "apply", "fragments", "enable">>
          /\ t = <<"load", "apply", "fragments", "enable">> /\ o \in Loaders
       \/ t = <<"disable">> /\ o \in Stoppers
       \/ t = <<"backupRules", "backupFragments", "save", "disable">> /\ o = "reset"
  /\ Head(s) = "save" =>
       \/ s = <<"save">> /\ t = <<>> /\ o \in Committing
       \/ s = <<"save", "apply", "fragments">> /\ t = <<"apply", "fragments">>
          /\ o = "panicOff"
       \/ s = <<"save", "flush">> /\ t = <<"flush">> /\ o = "panicOff"
       \/ /\ t \in {<<"etc", "ifEnabled", "apply", "fragments">>,
                    <<"conf", "ifEnabled", "apply", "fragments">>,
                    <<"ifEnabled", "apply", "fragments">>}
          /\ o \in Setters
       \/ s = <<"save", "disable">> /\ t = <<"disable">> /\ o = "reset"
  /\ Head(s) = "ifEnabled" =>
       s = <<"ifEnabled", "apply", "fragments">> /\ t = <<"apply", "fragments">>
         /\ o \in Setters
  /\ Head(s) = "enable" => s = <<"enable">> /\ t = <<>> /\ o \in Loaders
  /\ Head(s) = "disable" =>
       s = <<"disable">> /\ t = <<>> /\ o \in Stoppers \cup {"reset"}
  /\ Head(s) = "conf" =>
       /\ s = <<"conf", "ifEnabled", "apply", "fragments">>
       /\ t = <<"ifEnabled", "apply", "fragments">> /\ o \in Setters
  /\ Head(s) = "etc" =>
       /\ s = <<"etc", "ifEnabled", "apply", "fragments">>
       /\ t = <<"ifEnabled", "apply", "fragments">> /\ o \in Setters
  /\ Head(s) = "backupRules" =>
       t = <<"backupFragments", "save", "disable">> /\ o = "reset"
  /\ Head(s) = "backupFragments" => t = <<"save", "disable">> /\ o = "reset"
  /\ Head(s) \notin {"lock", "readEtc"}
  /\ Follows(o, t)

LEMMA Moves ==
  ASSUME NEW o \in Locked \cup {"rule"}, NEW s, Follows(o, s), s # <<>>
  PROVE  Move(o, s, Tail(s))
<1>1. ASSUME o \in Committing PROVE Move(o, s, Tail(s))
  <2>1. s \in CommitPlans
    BY <1>1 DEF Follows, Fits, Committing
  <2>2. Tail(s) \in CommitPlans
    BY <2>1, Tails DEF CommitPlans
  <2>3. Follows(o, Tail(s))
    BY <1>1, <2>2 DEF Follows, Fits, Committing, Committers, Setters, Loaders, Stoppers
  <2>4. CASE s = <<"apply", "fragments", "save">>
    BY <1>1, <2>3, <2>4, Tails DEF Move
  <2>5. CASE s = <<"fragments", "save">>
    BY <1>1, <2>3, <2>5, Tails DEF Move
  <2>6. CASE s = <<"save">>
    BY <1>1, <2>3, <2>6, Tails DEF Move
  <2>7. QED
    BY <2>1, <2>4, <2>5, <2>6 DEF CommitPlans
<1>2. ASSUME o \notin Committing PROVE Move(o, s, Tail(s))
  <2>1. Fits(o, s) /\ Follows(o, Tail(s))
    BY <1>2, FitsTail DEF Follows, Committing
  <2>2. CASE o = "panicOff"
    <3>1. s \in PanicOffPlans
      BY <2>1, <2>2 DEF Fits
    <3>2. CASE s = <<"save", "apply", "fragments">>
      BY <2>1, <2>2, <3>2, Tails DEF Move
    <3>3. CASE s = <<"apply", "fragments">>
      BY <2>1, <2>2, <3>3, Tails DEF Move
    <3>4. CASE s = <<"fragments">>
      BY <2>1, <2>2, <3>4, Tails DEF Move
    <3>5. CASE s = <<"save", "flush">>
      BY <2>1, <2>2, <3>5, Tails DEF Move
    <3>6. CASE s = <<"flush">>
      BY <2>1, <2>2, <3>6, Tails DEF Move
    <3>7. QED
      BY <3>1, <3>2, <3>3, <3>4, <3>5, <3>6 DEF PanicOffPlans
  <2>3. CASE o \in Setters
    <3>1. s \in SettingPlans
      BY <2>1, <2>3 DEF Fits
    <3>2. CASE s = <<"save", "etc", "ifEnabled", "apply", "fragments">>
      BY <2>1, <2>3, <3>2, Tails DEF Move
    <3>3. CASE s = <<"save", "conf", "ifEnabled", "apply", "fragments">>
      BY <2>1, <2>3, <3>3, Tails DEF Move
    <3>4. CASE s = <<"save", "ifEnabled", "apply", "fragments">>
      BY <2>1, <2>3, <3>4, Tails DEF Move
    <3>5. CASE s = <<"etc", "ifEnabled", "apply", "fragments">>
      BY <2>1, <2>3, <3>5, Tails DEF Move
    <3>6. CASE s = <<"conf", "ifEnabled", "apply", "fragments">>
      BY <2>1, <2>3, <3>6, Tails DEF Move
    <3>7. CASE s = <<"ifEnabled", "apply", "fragments">>
      BY <2>1, <2>3, <3>7, Tails DEF Move
    <3>8. CASE s = <<"apply", "fragments">>
      BY <2>1, <2>3, <3>8, Tails DEF Move
    <3>9. CASE s = <<"fragments">>
      BY <2>1, <2>3, <3>9, Tails DEF Move
    <3>10. QED
      BY <3>1, <3>2, <3>3, <3>4, <3>5, <3>6, <3>7, <3>8, <3>9 DEF SettingPlans
  <2>4. CASE o \in Loaders
    <3>1. s \in LoadPlans
      BY <2>1, <2>4 DEF Fits
    <3>2. CASE s = <<"flush", "load", "apply", "fragments", "enable">>
      BY <2>1, <2>4, <3>2, Tails DEF Move
    <3>3. CASE s = <<"load", "apply", "fragments", "enable">>
      BY <2>1, <2>4, <3>3, Tails DEF Move
    <3>4. CASE s = <<"apply", "fragments", "enable">>
      BY <2>1, <2>4, <3>4, Tails DEF Move
    <3>5. CASE s = <<"fragments", "enable">>
      BY <2>1, <2>4, <3>5, Tails DEF Move
    <3>6. CASE s = <<"enable">>
      BY <2>1, <2>4, <3>6, Tails DEF Move
    <3>7. CASE s = <<"load", "apply", "fragments">>
      BY <2>1, <2>4, <3>7, Tails DEF Move
    <3>8. CASE s = <<"apply", "fragments">>
      BY <2>1, <2>4, <3>8, Tails DEF Move
    <3>9. CASE s = <<"fragments">>
      BY <2>1, <2>4, <3>9, Tails DEF Move
    <3>10. QED
      BY <3>1, <3>2, <3>3, <3>4, <3>5, <3>6, <3>7, <3>8, <3>9 DEF LoadPlans
  <2>5. CASE o \in Stoppers
    <3>1. s \in StopPlans
      BY <2>1, <2>5 DEF Fits
    <3>2. CASE s = <<"flush", "disable">>
      BY <2>1, <2>5, <3>2, Tails DEF Move
    <3>3. CASE s = <<"disable">>
      BY <2>1, <2>5, <3>3, Tails DEF Move
    <3>4. CASE s = <<"flush">>
      BY <2>1, <2>5, <3>4, Tails DEF Move
    <3>5. QED
      BY <3>1, <3>2, <3>3, <3>4 DEF StopPlans
  <2>6. CASE o = "reset"
    <3>1. s \in ResetPlans
      BY <2>1, <2>6 DEF Fits
    <3>2. CASE s = <<"flush", "backupRules", "backupFragments", "save", "disable">>
      BY <2>1, <2>6, <3>2, Tails DEF Move
    <3>3. CASE s = <<"backupRules", "backupFragments", "save", "disable">>
      BY <2>1, <2>6, <3>3, Tails DEF Move
    <3>4. CASE s = <<"backupFragments", "save", "disable">>
      BY <2>1, <2>6, <3>4, Tails DEF Move
    <3>5. CASE s = <<"save", "disable">>
      BY <2>1, <2>6, <3>5, Tails DEF Move
    <3>6. CASE s = <<"disable">>
      BY <2>1, <2>6, <3>6, Tails DEF Move
    <3>7. QED
      BY <3>1, <3>2, <3>3, <3>4, <3>5, <3>6 DEF ResetPlans
  <2>7. QED
    BY <1>2, <2>2, <2>3, <2>4, <2>5, <2>6
       DEF Committing, Locked, Committers, Setters, Loaders, Stoppers
<1>3. QED
  BY <1>1, <1>2

(* How a command that takes the flock starts: its plan, and what the       *)
(* invariants need to know of its copy.                                    *)
Start(o, st, steps) ==
  \/ o = "nat" /\ steps = CommitPlan
  \/ o \in {"threat", "sweep"} /\ steps \in {<<>>, CommitPlan}
  \/ /\ o = "panicOn" /\ st.panic
     /\ steps \in {<<>>, <<"apply", "fragments", "save">>}
  \/ /\ o = "panicOff" /\ ~st.panic
     /\ \/ steps = <<>>
        \/ file.panic /\ enabled /\ steps = <<"save", "apply", "fragments">>
        \/ file.panic /\ ~enabled /\ steps = <<"save", "flush">>
  \/ /\ o = "default" /\ st.rules = file.rules /\ st.panic = file.panic
     /\ steps = <<"save", "etc", "ifEnabled", "apply", "fragments">>
  \/ /\ o = "logging" /\ st = file
     /\ steps = <<"save", "conf", "ifEnabled", "apply", "fragments">>
  \/ o = "import" /\ steps = <<"save", "ifEnabled", "apply", "fragments">>
  \/ o = "enable" /\ inet.loaded /\ steps = <<"enable">>
  \/ /\ o = "enable" /\ ~inet.loaded
     /\ steps = <<"load", "apply", "fragments", "enable">>
  \/ o = "disable" /\ steps = <<"flush", "disable">>
  \/ /\ o = "reload" /\ enabled
     /\ steps = <<"flush", "load", "apply", "fragments", "enable">>
  \/ /\ o = "reset" /\ st = Defaults
     /\ steps \in {<<"flush", "backupRules", "backupFragments", "save", "disable">>,
                   <<"backupRules", "backupFragments", "save", "disable">>}
  \/ o = "bootLoad" /\ enabled /\ steps = <<"load", "apply", "fragments">>
  \/ o \in {"reload", "bootLoad"} /\ ~enabled /\ steps = <<>>
  \/ o = "bootUnload" /\ steps = <<"flush">>

LEMMA Starts ==
  ASSUME Guarded, TypeOK, NEW p \in Proc, Handler(p),
         ~LoadForRule(p), ~LockForRule(p)
  PROVE  \E o, st, steps : Begin(p, o, st, steps) /\ Start(o, st, steps)
<1>1. file \in State
  BY DEF TypeOK
<1>2. CASE NatAdd(p)
  <2>1. PICK st : Begin(p, "nat", st, CommitPlan)
    BY <1>2 DEF NatAdd
  <2>2. QED
    BY <2>1 DEF Start
<1>3. CASE NatDelete(p)
  <2>1. PICK st : Begin(p, "nat", st, CommitPlan)
    BY <1>3 DEF NatDelete
  <2>2. QED
    BY <2>1 DEF Start
<1>4. CASE ThreatUpdate(p)
  <2>1. PICK st, b : Begin(p, "threat", st, IF b THEN <<>> ELSE CommitPlan)
    BY <1>4 DEF ThreatUpdate
  <2>2. (IF b THEN <<>> ELSE CommitPlan) \in {<<>>, CommitPlan}
    OBVIOUS
  <2>3. QED
    BY <2>1, <2>2 DEF Start
<1>5. CASE CmdSweep(p)
  <2>1. PICK st, b : Begin(p, "sweep", st, IF b THEN <<>> ELSE CommitPlan)
    BY <1>5 DEF CmdSweep
  <2>2. (IF b THEN <<>> ELSE CommitPlan) \in {<<>>, CommitPlan}
    OBVIOUS
  <2>3. QED
    BY <2>1, <2>2 DEF Start
<1>6. CASE PanicOn(p)
  <2>1. [file EXCEPT !.panic = TRUE].panic
    BY <1>1 DEF State
  <2>2. QED
    BY <1>6, <2>1 DEF PanicOn, Start
<1>7. CASE PanicOff(p)
  <2>1. ~[file EXCEPT !.panic = FALSE].panic
    BY <1>1 DEF State
  <2>2. QED
    BY <1>7, <2>1 DEF PanicOff, Start
<1>8. CASE CmdDefault(p)
  <2>1. PICK pol \in Policy :
          Begin(p, "default", [file EXCEPT !.policy = pol],
                <<"save", "etc", "ifEnabled", "apply", "fragments">>)
    BY <1>8 DEF CmdDefault
  <2>2. /\ [file EXCEPT !.policy = pol].rules = file.rules
        /\ [file EXCEPT !.policy = pol].panic = file.panic
    BY <1>1 DEF State
  <2>3. QED
    BY <2>1, <2>2 DEF Start
<1>9. CASE CmdLogging(p)
  BY <1>9 DEF CmdLogging, Start
<1>10. CASE CmdImport(p)
  <2>1. PICK st : Begin(p, "import", st, <<"save", "ifEnabled", "apply", "fragments">>)
    BY <1>10 DEF CmdImport
  <2>2. QED
    BY <2>1 DEF Start
<1>11. CASE CmdEnable(p)
  BY <1>11 DEF CmdEnable, Start
<1>12. CASE CmdDisable(p)
  BY <1>12 DEF CmdDisable, Start
<1>13. CASE CmdReload(p)
  BY <1>13 DEF CmdReload, Start
<1>14. CASE CmdReset(p)
  BY <1>14 DEF CmdReset, Start
<1>15. CASE BootLoad(p)
  BY <1>15 DEF BootLoad, Start
<1>16. CASE BootUnload(p)
  BY <1>16 DEF BootUnload, Start
<1>17. ~AppUpdate(p) /\ ~AppDefault(p)
  BY DEF AppUpdate, AppDefault, LoadForApp, Guarded, Locked
<1>18. QED
  BY <1>2, <1>3, <1>4, <1>5, <1>6, <1>7, <1>8, <1>9, <1>10, <1>11, <1>12,
     <1>13, <1>14, <1>15, <1>16, <1>17 DEF Handler

LEMMA StartFollows ==
  ASSUME NEW o, NEW st, NEW steps, Start(o, st, steps)
  PROVE  Follows(o, steps) /\ o \in Locked
<1>1. o \in Locked /\ o # "rule"
  BY DEF Start, Locked
<1>2. Fits(o, steps)
  <2>1. CASE o \in Committers
    BY <2>1, FirstPlans DEF Start, Committers
  <2>2. CASE o = "panicOff"
    BY <2>2, FirstPlans DEF Start
  <2>3. CASE o \in Setters
    BY <2>3, FirstPlans DEF Start, Setters
  <2>4. CASE o \in Loaders
    BY <2>4, FirstPlans DEF Start, Loaders
  <2>5. CASE o \in Stoppers
    BY <2>5, FirstPlans DEF Start, Stoppers
  <2>6. CASE o = "reset"
    BY <2>6, FirstPlans DEF Start
  <2>7. QED
    BY <1>1, <2>1, <2>2, <2>3, <2>4, <2>5, <2>6
       DEF Locked, Committers, Setters, Loaders, Stoppers
<1>3. QED
  BY <1>1, <1>2 DEF Follows

-----------------------------------------------------------------------------
(* Who holds the flock.                                                    *)

(* The process that makes a call holds the flock and follows its plan.     *)
LEMMA Caller ==
  ASSUME Guarded, Holding, NEW p \in Proc, plan[p] # <<>>, Head(plan[p]) # "lock"
  PROVE  /\ lock = p /\ op[p] \in Locked \cup {"rule"} /\ op[p] # "none"
         /\ Follows(op[p], plan[p]) /\ Move(op[p], plan[p], Tail(plan[p]))
<1>1. ~Waits(p)
  BY DEF Waits
<1>2. lock = p /\ op[p] # "none" /\ op[p] \in Ops /\ Follows(op[p], plan[p])
  BY <1>1 DEF Holding
<1>3. op[p] \in Locked \cup {"rule"}
  BY <1>2 DEF Guarded
<1>4. QED
  BY <1>2, <1>3, Moves

(* The others run nothing, or a rule command that waits for the flock.     *)
LEMMA Others ==
  ASSUME Holding, NEW q \in Proc, lock # q
  PROVE  (op[q] = "none" /\ plan[q] = <<>>) \/ Waits(q)
BY DEF Holding

(* The calls of p, seen from the flock: either the command is over, or it  *)
(* goes on with what is left of its plan or, when the firewall is not      *)
(* enabled, with nothing.                                                  *)
LEMMA CallMoves ==
  ASSUME Guarded, TypeOK, Holding, NEW p \in Proc, Call(p), ~Return(p)
  PROVE  /\ plan[p] # <<>> /\ Head(plan[p]) # "lock"
         /\ UNCHANGED <<lock, op, expired>>
         /\ \/ plan' = [plan EXCEPT ![p] = Tail(plan[p])]
            \/ /\ plan' = [plan EXCEPT ![p] = <<>>] /\ ~enabled
               /\ op[p] \in Setters /\ IfEnabled(p)
<1>1. /\ plan[p] # <<>> /\ UNCHANGED <<lock, op, expired>>
      /\ Head(plan[p]) # "lock"
  BY DEF Call, Load, Apply, ApplyFragments, Flush, Save, SaveConf, ReadEtc,
         WriteEtcDefault, Backup, IfEnabled, Next1
<1>2. CASE IfEnabled(p)
  <2>1. Head(plan[p]) = "ifEnabled"
    BY <1>2 DEF IfEnabled, Next1
  <2>2. op[p] \in Setters
    BY <1>1, <2>1, Caller DEF Move
  <2>3. QED
    BY <1>1, <1>2, <2>2 DEF IfEnabled
<1>3. CASE ~IfEnabled(p)
  BY <1>1, <1>3 DEF Call, Load, Apply, ApplyFragments, Flush, Save, SaveConf, ReadEtc,
                    WriteEtcDefault, Backup, Advance
<1>4. QED
  BY <1>2, <1>3

LEMMA HoldingStep ==
  ASSUME Guarded, TypeOK, Holding, [Next]_vars
  PROVE  Holding'
<1> USE FirewallAssumption
<1>0. "none" \notin Ops
  BY DEF OpName, Locked, Unlocked
<1>1. ASSUME NEW p \in Proc, Handler(p) PROVE Holding'
  <2>1. CASE LoadForRule(p)
    <3>1. /\ op'[p] = "rule" /\ plan'[p] = <<"lock">> /\ lock' = lock /\ "rule" \in Ops
          /\ \A q \in Proc \ {p} : op'[q] = op[q] /\ plan'[q] = plan[q]
          /\ op[p] = "none"
      BY <2>1 DEF LoadForRule, TypeOK
    <3>2. lock # p
      BY <3>1 DEF Holding, Waits
    <3>3. QED
      BY <3>1, <3>2 DEF Holding, Waits
  <2>2. CASE LockForRule(p)
    <3>1. /\ plan'[p] = CommitPlan /\ lock' = p /\ lock = Free /\ op' = op
          /\ \A q \in Proc \ {p} : plan'[q] = plan[q]
          /\ plan[p] # <<>>
      BY <2>2 DEF LockForRule, TypeOK, Next1
    <3>2. \A q \in Proc : lock # q
      BY <3>1
    <3>3. op[p] = "rule" /\ Follows("rule", CommitPlan)
      BY <3>1, <3>2 DEF Holding, Waits, Follows, CommitPlan, CommitPlans
    <3>4. QED
      BY <3>1, <3>2, <3>3 DEF Holding, Waits
  <2>3. CASE ~LoadForRule(p) /\ ~LockForRule(p)
    <3>1. PICK o, st, steps : Begin(p, o, st, steps) /\ Start(o, st, steps)
      BY <1>1, <2>3, Starts
    <3>2. Follows(o, steps) /\ o \in Ops
      BY <3>1, StartFollows DEF Begin
    <3>3. /\ plan'[p] = steps /\ lock' = p /\ lock = Free /\ op'[p] = o
          /\ \A q \in Proc \ {p} : op'[q] = op[q] /\ plan'[q] = plan[q]
      BY <3>1 DEF Begin, TypeOK
    <3>4. \A q \in Proc : lock # q
      BY <3>3
    <3>5. QED
      BY <1>0, <3>2, <3>3, <3>4 DEF Holding, Waits
  <2>4. QED
    BY <2>1, <2>2, <2>3
<1>2. ASSUME NEW p \in Proc, Call(p), ~Return(p) PROVE Holding'
  <2>1. /\ plan[p] # <<>> /\ Head(plan[p]) # "lock"
        /\ UNCHANGED <<lock, op>>
        /\ \/ plan' = [plan EXCEPT ![p] = Tail(plan[p])]
           \/ plan' = [plan EXCEPT ![p] = <<>>] /\ op[p] \in Setters
    BY <1>2, CallMoves
  <2>2. lock = p /\ op[p] # "none" /\ Follows(op[p], Tail(plan[p]))
    BY <2>1, Caller DEF Move
  <2>3. op[p] \in Setters => Follows(op[p], <<>>)
    BY DEF Follows, Fits, Setters, SettingPlans, Committers, Loaders, Stoppers
  <2>4. Follows(op[p], plan'[p]) /\ \A q \in Proc \ {p} : plan'[q] = plan[q]
    BY <2>1, <2>2, <2>3 DEF TypeOK
  <2>5. QED
    BY <2>1, <2>2, <2>4 DEF Holding, Waits
<1>3. ASSUME NEW p \in Proc, Release(p) PROVE Holding'
  <2>1. /\ op'[p] = "none" /\ plan'[p] = <<>> /\ lock' # p
        /\ lock' = IF lock = p THEN Free ELSE lock
        /\ \A q \in Proc \ {p} : op'[q] = op[q] /\ plan'[q] = plan[q]
    BY <1>3 DEF Release, TypeOK
  <2>2. QED
    BY <2>1 DEF Holding, Waits
<1>4. CASE Reboot
  BY <1>4 DEF Reboot, Holding
<1>5. CASE Expire \/ UNCHANGED vars
  BY <1>5 DEF Expire, vars, procs, Holding, Waits
<1>6. QED
  BY <1>1, <1>2, <1>3, <1>4, <1>5 DEF Next, Fail, Kill, Return

-----------------------------------------------------------------------------
(* SuccessMeansEnforced. *)

(* Nothing is claimed of a process that makes no call.                     *)
LEMMA AtRest ==
  ASSUME NEW q \in Proc,
         \/ op'[q] = "none" /\ plan'[q] = <<>>
         \/ op'[q] = "rule" /\ plan'[q] = <<"lock">>
  PROVE  Progress(q)'
<1>1. plan'[q] \in Idle
  BY DEF Idle
<1>2. plan'[q] = <<>> => op'[q] \notin Applying
  BY DEF Applying
<1>3. QED
  BY <1>1, <1>2, IdlePlans DEF Progress

(* The other processes keep their progress, whatever the one that holds    *)
(* the flock does.                                                         *)
LEMMA OthersRest ==
  ASSUME Holding, TypeOK, NEW p \in Proc, NEW q \in Proc \ {p}, lock \in {p, Free},
         op'[q] = op[q], plan'[q] = plan[q]
  PROVE  Progress(q)'
<1>1. lock # q
  BY FirewallAssumption
<1>2. QED
  BY <1>1, Others, AtRest DEF Waits

(* Where a command starts nothing has been applied.                        *)
LEMMA StartProgress ==
  ASSUME NEW p \in Proc, NEW o, NEW st, NEW steps, Start(o, st, steps),
         op'[p] = o, plan'[p] = steps, work'[p] = st, UNCHANGED enabled
  PROVE  Progress(p)'
<1>1. steps \notin Saved /\ steps \notin Applied
  <2> DEFINE Later == {<<"load", "apply", "fragments", "enable">>,
                       <<"flush", "load", "apply", "fragments", "enable">>,
                       <<"flush", "backupRules", "backupFragments", "save", "disable">>,
                       <<"backupRules", "backupFragments", "save", "disable">>,
                       <<"load", "apply", "fragments">>,
                       <<"flush", "disable">>, <<"flush">>, <<"enable">>, <<>>}
             First == {<<"save", "apply", "fragments">>, <<"save", "flush">>,
                       <<"save", "etc", "ifEnabled", "apply", "fragments">>,
                       <<"save", "conf", "ifEnabled", "apply", "fragments">>,
                       <<"save", "ifEnabled", "apply", "fragments">>,
                       <<"apply", "fragments", "save">>, <<"save">>}
  <2>1. \A t \in Later : t \notin Saved /\ t \notin Applied
    BY DEF Saved, Applied
  <2>2. \A t \in First : t \notin Saved /\ t \notin Applied
    BY DEF Saved, Applied
  <2>3. CommitPlan \in First
    BY DEF CommitPlan
  <2>4. steps \in Later \cup First
    BY <2>3 DEF Start
  <2>5. QED
    BY <2>1, <2>2, <2>4
<1>2. steps = <<"save">> => ~enabled /\ o # "panicOn"
  BY DEF Start, CommitPlan
<1>3. steps = <<"enable">> => o \notin {"reload", "bootLoad"}
  BY DEF Start
<1>4. steps = <<>> => o \notin Applying \/ ~enabled
  <2>1. CommitPlan # <<>>
    BY DEF CommitPlan
  <2>2. QED
    BY <2>1 DEF Start, Applying
<1>5. QED
  BY <1>1, <1>2, <1>3, <1>4 DEF Progress

LEMMA EnforceHandler ==
  ASSUME Guarded, EnforceInv, NEW p \in Proc, Handler(p)
  PROVE  \A q \in Proc : Progress(q)'
<1>0. TypeOK /\ Holding
  BY DEF EnforceInv
<1>1. CASE LoadForRule(p)
  <2>1. /\ op'[p] = "rule" /\ plan'[p] = <<"lock">>
        /\ UNCHANGED <<file, enabled, etc, fragments, inet, expired>>
        /\ \A q \in Proc \ {p} : /\ op'[q] = op[q] /\ plan'[q] = plan[q]
                                 /\ work'[q] = work[q]
    BY <1>0, <1>1 DEF LoadForRule, TypeOK, disk, kernel
  <2>2. ASSUME NEW q \in Proc \ {p} PROVE Progress(q)'
    BY <2>1 DEF EnforceInv, Progress, Mirrors, Enforced
  <2>3. Progress(p)'
    BY <2>1, AtRest
  <2>4. QED
    BY <2>2, <2>3
<1>2. CASE LockForRule(p)
  <2>1. /\ plan'[p] = CommitPlan /\ op'[p] = "rule" /\ lock = Free /\ UNCHANGED enabled
        /\ \A q \in Proc \ {p} : op'[q] = op[q] /\ plan'[q] = plan[q]
    <3>1. plan[p] # <<>> /\ lock = Free
      BY <1>2 DEF LockForRule, Next1
    <3>2. op[p] = "rule"
      BY <1>0, <3>1, Others, FirewallAssumption DEF Waits
    <3>3. QED
      BY <1>0, <1>2, <3>1, <3>2 DEF LockForRule, TypeOK, disk
  <2>2. CommitPlan \notin Saved /\ CommitPlan \notin Applied /\ CommitPlan # <<>>
        /\ CommitPlan # <<"enable">> /\ (CommitPlan = <<"save">> => ~enabled)
    BY DEF CommitPlan, Saved, Applied
  <2>3. Progress(p)'
    BY <2>1, <2>2 DEF Progress
  <2>4. QED
    BY <1>0, <2>1, <2>3, OthersRest
<1>3. CASE ~LoadForRule(p) /\ ~LockForRule(p)
  <2>1. PICK o, st, steps : Begin(p, o, st, steps) /\ Start(o, st, steps)
    BY <1>0, <1>3, Starts
  <2>2. /\ op'[p] = o /\ plan'[p] = steps /\ work'[p] = st /\ lock = Free
        /\ UNCHANGED enabled
        /\ \A q \in Proc \ {p} : op'[q] = op[q] /\ plan'[q] = plan[q]
    BY <1>0, <2>1 DEF Begin, TypeOK, disk
  <2>3. Progress(p)'
    BY <2>1, <2>2, StartProgress
  <2>4. QED
    BY <1>0, <2>2, <2>3, OthersRest
<1>4. QED
  BY <1>1, <1>2, <1>3

(* What the clauses of Progress say of the plans they bear on, before a    *)
(* call and after it.                                                      *)
PreSave  == {<<"apply", "fragments", "enable">>, <<"apply", "fragments">>,
             <<"etc", "ifEnabled", "apply", "fragments">>,
             <<"conf", "ifEnabled", "apply", "fragments">>,
             <<"ifEnabled", "apply", "fragments">>}
Loading  == {<<"fragments">>, <<"fragments", "enable">>}
Untold   == {<<"load", "apply", "fragments", "enable">>, <<"disable">>, <<"flush">>,
             <<"backupRules", "backupFragments", "save", "disable">>,
             <<"backupFragments", "save", "disable">>, <<"save", "disable">>}

LEMMA Told ==
  ASSUME NEW p \in Proc, Progress(p)
  PROVE  /\ plan[p] \in PreSave \cup Loading => work[p] = file
         /\ plan[p] \in Loading \cup {<<"fragments", "save">>} => Mirrors(work[p])
         /\ plan[p] = <<"save">> /\ (enabled \/ op[p] = "panicOn") => Enforced(work[p])
         /\ plan[p] = <<"enable">> /\ op[p] \in {"reload", "bootLoad"} => Enforced(file)
         /\ plan[p] = <<>> /\ op[p] \in Applying /\ enabled => Enforced(file)
<1>1. PreSave \cup Loading \subseteq Saved
  BY DEF PreSave, Loading, Saved
<1>2. Loading \cup {<<"fragments", "save">>} \subseteq Applied
  BY DEF Loading, Applied
<1>3. QED
  BY <1>1, <1>2 DEF Progress

LEMMA TellSaved ==
  ASSUME NEW p \in Proc, plan'[p] \in PreSave, work'[p] = file'
  PROVE  Progress(p)'
<1>1. plan'[p] \notin Applied
  BY DEF PreSave, Applied
<1>2. plan'[p] # <<>> /\ plan'[p] # <<"save">> /\ plan'[p] # <<"enable">>
  BY DEF PreSave
<1>3. QED
  BY <1>1, <1>2 DEF Progress

LEMMA TellLoading ==
  ASSUME NEW p \in Proc, plan'[p] \in Loading, work'[p] = file', Mirrors(work[p])'
  PROVE  Progress(p)'
<1>1. plan'[p] # <<>> /\ plan'[p] # <<"save">> /\ plan'[p] # <<"enable">>
  BY DEF Loading
<1>2. QED
  BY <1>1 DEF Progress

LEMMA TellUntold ==
  ASSUME NEW p \in Proc, plan'[p] \in Untold
  PROVE  Progress(p)'
<1>1. plan'[p] \notin Saved
  BY DEF Untold, Saved
<1>2. plan'[p] \notin Applied
  BY DEF Untold, Applied
<1>3. plan'[p] # <<>> /\ plan'[p] # <<"save">> /\ plan'[p] # <<"enable">>
  BY DEF Untold
<1>4. QED
  BY <1>1, <1>2, <1>3 DEF Progress

LEMMA TellCommit ==
  ASSUME NEW p \in Proc
  PROVE  /\ plan'[p] = <<"fragments", "save">> /\ Mirrors(work[p])' => Progress(p)'
         /\ plan'[p] = <<"save">> /\ Enforced(work[p])' => Progress(p)'
<1>1. <<"fragments", "save">> \notin Saved /\ <<"save">> \notin Saved
  BY DEF Saved
<1>2. <<"save">> \notin Applied
  BY DEF Applied
<1>3. /\ <<"fragments", "save">> # <<>> /\ <<"fragments", "save">> # <<"save">>
      /\ <<"fragments", "save">> # <<"enable">>
      /\ <<"save">> # <<>> /\ <<"save">> # <<"enable">>
  OBVIOUS
<1>4. QED
  BY <1>1, <1>2, <1>3 DEF Progress

LEMMA TellEnd ==
  ASSUME NEW p \in Proc
  PROVE  /\ plan'[p] = <<"enable">> /\ Enforced(file)' => Progress(p)'
         /\ plan'[p] = <<>> /\ (op'[p] \in Applying /\ enabled' => Enforced(file)')
              => Progress(p)'
<1>1. <<"enable">> \notin Saved /\ <<>> \notin Saved
  BY DEF Saved
<1>2. <<"enable">> \notin Applied /\ <<>> \notin Applied
  BY DEF Applied
<1>3. <<"enable">> # <<>> /\ <<"enable">> # <<"save">> /\ <<>> # <<"save">>
  OBVIOUS
<1>4. QED
  BY <1>1, <1>2, <1>3 DEF Progress

(* Every call carries the enforcement of its own copy on.                  *)
LEMMA EnforceCall ==
  ASSUME Guarded, EnforceInv, NEW p \in Proc, Call(p), ~Return(p)
  PROVE  \A q \in Proc : Progress(q)'
<1> DEFINE s == plan[p]
           t == Tail(plan[p])
<1>0. TypeOK /\ Holding /\ Progress(p)
  BY DEF EnforceInv
<1>1. /\ s # <<>> /\ Head(s) # "lock" /\ UNCHANGED <<lock, op, expired>>
      /\ \/ plan' = [plan EXCEPT ![p] = t]
         \/ plan' = [plan EXCEPT ![p] = <<>>] /\ ~enabled /\ IfEnabled(p)
  BY <1>0, CallMoves
<1>2. lock = p /\ op[p] # "none" /\ Move(op[p], s, t)
  BY <1>0, <1>1, Caller
<1>3. /\ plan'[p] = t \/ (plan'[p] = <<>> /\ ~enabled /\ IfEnabled(p))
      /\ \A q \in Proc \ {p} : op'[q] = op[q] /\ plan'[q] = plan[q]
      /\ op'[p] = op[p]
  BY <1>0, <1>1 DEF TypeOK
<1>4. ASSUME NEW q \in Proc \ {p} PROVE Progress(q)'
  BY <1>0, <1>2, <1>3, OthersRest
<1> SUFFICES Progress(p)'
  BY <1>4
<1>5. CASE Load(p)
  <2>1. /\ Head(s) = "load" /\ work'[p] = file /\ file' = file /\ plan'[p] = t
    BY <1>0, <1>5 DEF Load, Next1, disk, Advance, TypeOK
  <2>2. t \in PreSave
    BY <1>2, <2>1 DEF Move, PreSave
  <2>3. QED
    BY <2>1, <2>2, TellSaved
<1>6. CASE Apply(p)
  <2>1. /\ Head(s) = "apply" /\ UNCHANGED <<file, enabled, etc, fragments, work>>
        /\ inet' = CompileInet(work[p], etc, expired) /\ plan'[p] = t
    BY <1>0, <1>6 DEF Apply, Next1, disk, Advance, TypeOK
  <2>2. Mirrors(work[p])'
    BY <1>1, <2>1 DEF Mirrors, CompileInet
  <2>3. CASE s = <<"apply", "fragments", "save">> /\ t = <<"fragments", "save">>
    BY <2>1, <2>2, <2>3, TellCommit
  <2>4. CASE s \in PreSave /\ t \in Loading
    <3>1. work[p] = file
      BY <1>0, <2>4, Told
    <3>2. QED
      BY <2>1, <2>2, <2>4, <3>1, TellLoading
  <2>5. QED
    BY <1>2, <2>1, <2>3, <2>4 DEF Move, PreSave, Loading
<1>7. CASE ApplyFragments(p)
  <2>1. /\ Head(s) = "fragments" /\ UNCHANGED <<file, enabled, etc, fragments, work>>
        /\ inet' = [inet EXCEPT !.frags = fragments] /\ plan'[p] = t
    BY <1>0, <1>7 DEF ApplyFragments, Next1, disk, Advance, TypeOK
  <2>2. /\ inet'.frags = fragments /\ inet'.loaded = inet.loaded
        /\ inet'.drop = inet.drop /\ inet'.policy = inet.policy
        /\ inet'.rules = inet.rules /\ inet'.bans = inet.bans
    BY <1>0, <2>1 DEF TypeOK, Table
  <2>3. Mirrors(work[p])
    BY <1>0, <1>2, <2>1, Told DEF Move, Loading
  <2>4. Enforced(work[p])'
    BY <1>1, <2>1, <2>2, <2>3 DEF Mirrors, Enforced
  <2>5. CASE s = <<"fragments", "save">> /\ t = <<"save">>
    BY <2>1, <2>4, <2>5, TellCommit
  <2>6. CASE s \in Loading /\ t \in {<<>>, <<"enable">>}
    <3>1. work[p] = file
      BY <1>0, <2>6, Told
    <3>2. work'[p] = file'
      BY <2>1, <3>1
    <3>3. Enforced(file)'
      BY <2>4, <3>2 DEF Enforced
    <3>4. QED
      BY <2>1, <2>6, <3>3, TellEnd
  <2>7. QED
    BY <1>2, <2>1, <2>5, <2>6 DEF Move, Loading
<1>8. CASE Flush(p)
  <2>1. Head(s) = "flush" /\ plan'[p] = t
    BY <1>0, <1>8 DEF Flush, Next1, Advance, TypeOK
  <2>2. CASE t \in Untold
    BY <2>1, <2>2, TellUntold
  <2>3. CASE t = <<>> /\ op[p] \in {"panicOff"} \cup Stoppers
    <3>1. op[p] \notin Applying
      BY <2>3 DEF Applying, Stoppers
    <3>2. QED
      BY <1>3, <2>1, <2>3, <3>1, TellEnd
  <2>4. QED
    BY <1>2, <2>1, <2>2, <2>3 DEF Move, Untold
<1>9. CASE Save(p)
  <2>1. /\ Head(s) = "save" /\ UNCHANGED <<enabled, etc, fragments, inet, work>>
        /\ file' = work[p] /\ plan'[p] = t
    BY <1>0, <1>9 DEF Save, Next1, Advance, TypeOK, kernel
  <2>2. CASE s = <<"save">> /\ t = <<>>
    <3>1. enabled => Enforced(work[p])
      BY <1>0, <2>2, Told
    <3>2. enabled' => Enforced(file)'
      BY <1>1, <2>1, <3>1 DEF Enforced
    <3>3. QED
      BY <2>1, <2>2, <3>2, TellEnd
  <2>3. CASE t \in PreSave
    BY <2>1, <2>3, TellSaved
  <2>4. CASE t \in Untold
    BY <2>1, <2>4, TellUntold
  <2>5. QED
    BY <1>2, <2>1, <2>2, <2>3, <2>4 DEF Move, PreSave, Untold
<1>10. CASE SaveConf(p)
  <2>1. /\ Head(s) \in {"enable", "disable", "conf"}
        /\ UNCHANGED <<file, etc, fragments, inet, work>> /\ plan'[p] = t
    BY <1>0, <1>10 DEF SaveConf, Next1, Advance, TypeOK, kernel
  <2>2. CASE Head(s) = "enable"
    <3>1. s = <<"enable">> /\ t = <<>> /\ op[p] \in Loaders
      BY <1>2, <2>2 DEF Move
    <3>2. op[p] \in Applying => op[p] \in {"reload", "bootLoad"}
      BY <3>1 DEF Loaders, Applying
    <3>3. op[p] \in Applying => Enforced(file)
      BY <1>0, <3>1, <3>2, Told
    <3>4. op[p] \in Applying => Enforced(file)'
      BY <1>1, <2>1, <3>3 DEF Enforced
    <3>5. QED
      BY <1>3, <2>1, <3>1, <3>4, TellEnd
  <2>3. CASE Head(s) = "disable"
    <3>1. t = <<>> /\ op[p] \in Stoppers \cup {"reset"}
      BY <1>2, <2>3 DEF Move
    <3>2. op[p] \notin Applying
      BY <3>1 DEF Applying, Stoppers
    <3>3. QED
      BY <1>3, <2>1, <3>1, <3>2, TellEnd
  <2>4. CASE Head(s) = "conf"
    <3>1. s \in PreSave /\ t \in PreSave
      BY <1>2, <2>4 DEF Move, PreSave
    <3>2. work[p] = file
      BY <1>0, <3>1, Told
    <3>3. QED
      BY <2>1, <3>1, <3>2, TellSaved
  <2>5. QED
    BY <2>1, <2>2, <2>3, <2>4
<1>11. CASE WriteEtcDefault(p)
  <2>1. Head(s) = "etc" /\ UNCHANGED <<file, work>> /\ plan'[p] = t
    BY <1>0, <1>11 DEF WriteEtcDefault, Next1, Advance, TypeOK
  <2>2. s \in PreSave /\ t \in PreSave
    BY <1>2, <2>1 DEF Move, PreSave
  <2>3. work[p] = file
    BY <1>0, <2>2, Told
  <2>4. QED
    BY <2>1, <2>2, <2>3, TellSaved
<1>12. CASE Backup(p)
  <2>1. Head(s) \in {"backupRules", "backupFragments"} /\ plan'[p] = t
    BY <1>0, <1>12 DEF Backup, Next1, Advance, TypeOK
  <2>2. t \in Untold
    BY <1>2, <2>1 DEF Move, Untold
  <2>3. QED
    BY <2>1, <2>2, TellUntold
<1>13. CASE IfEnabled(p)
  <2>1. Head(s) = "ifEnabled" /\ UNCHANGED <<file, enabled, work>>
    BY <1>13 DEF IfEnabled, Next1, disk
  <2>2. s \in PreSave /\ t \in PreSave
    BY <1>2, <2>1 DEF Move, PreSave
  <2>3. work[p] = file
    BY <1>0, <2>2, Told
  <2>4. CASE plan'[p] = t
    BY <2>1, <2>2, <2>3, <2>4, TellSaved
  <2>5. CASE plan'[p] = <<>> /\ ~enabled
    BY <2>1, <2>5, TellEnd
  <2>6. QED
    BY <1>3, <2>4, <2>5
<1>14. ~ReadEtc(p)
  BY <1>2 DEF Move, ReadEtc, Next1
<1>15. QED
  BY <1>5, <1>6, <1>7, <1>8, <1>9, <1>10, <1>11, <1>12, <1>13, <1>14 DEF Call

(* Return, a failing call and a kill end a command.  Only the holder of    *)
(* the flock makes calls that touch the kernel or the files when they      *)
(* fail; a rule command that gives up waiting leaves all as it is.         *)
LEMMA EnforceEnd ==
  ASSUME Guarded, EnforceInv, NEW p \in Proc, Return(p) \/ Fail(p) \/ Kill(p)
  PROVE  \A q \in Proc : Progress(q)'
<1>0. TypeOK /\ Holding
  BY DEF EnforceInv
<1>1. /\ Release(p) /\ op'[p] = "none" /\ plan'[p] = <<>>
      /\ \A q \in Proc \ {p} : /\ op'[q] = op[q] /\ plan'[q] = plan[q]
                               /\ work'[q] = work[q]
  BY <1>0 DEF Return, Fail, Kill, Release, TypeOK
<1>2. Progress(p)'
  BY <1>1, AtRest
<1>3. CASE lock \in {p, Free}
  BY <1>0, <1>1, <1>2, <1>3, OthersRest
<1>4. CASE lock \notin {p, Free}
  <2>1. (op[p] = "none" /\ plan[p] = <<>>) \/ Waits(p)
    BY <1>0, <1>4, Others
  <2>2. plan[p] # <<>> => Head(plan[p]) = "lock"
    BY <2>1 DEF Waits
  <2>3. UNCHANGED <<file, enabled, etc, fragments, inet, expired>>
    BY <2>2 DEF Return, Fail, Kill, disk, kernel
  <2>4. ASSUME NEW q \in Proc \ {p} PROVE Progress(q)'
    BY <1>1, <2>3 DEF EnforceInv, Progress, Mirrors, Enforced
  <2>5. QED
    BY <1>2, <2>4
<1>5. QED
  BY <1>3, <1>4

LEMMA EnforceStep == ASSUME Guarded, EnforceInv, [Next]_vars PROVE EnforceInv'
<1>1. TypeOK /\ Holding /\ Holding'
  BY HoldingStep DEF EnforceInv
<1>2. TypeOK'
  <2>1. CASE UNCHANGED vars
    BY <1>1, <2>1 DEF TypeOK, vars
  <2>2. QED
    BY <1>1, <2>1, HandlerType, CallType, FailureType DEF Next
<1>3. CASE Reboot
  <2>1. ASSUME NEW q \in Proc PROVE op'[q] = "none" /\ plan'[q] = <<>>
    BY <1>3 DEF Reboot
  <2>2. QED
    BY <1>1, <1>2, <2>1, AtRest DEF EnforceInv
<1>4. CASE Expire \/ UNCHANGED vars
  <2>1. /\ expired \subseteq expired'
        /\ UNCHANGED <<file, enabled, etc, fragments, inet, op, plan, work>>
    BY <1>4 DEF Expire, vars, disk, kernel, procs
  <2>2. ASSUME NEW q \in Proc PROVE Progress(q)'
    <3>1. \A st : Mirrors(st) => Mirrors(st)'
      BY <2>1 DEF Mirrors
    <3>2. \A st : Enforced(st) => Enforced(st)'
      BY <2>1 DEF Enforced
    <3>3. QED
      BY <2>1, <3>1, <3>2 DEF EnforceInv, Progress
  <2>3. QED
    BY <1>1, <1>2, <2>2 DEF EnforceInv
<1>5. QED
  BY <1>1, <1>2, <1>3, <1>4, EnforceHandler, EnforceCall, EnforceEnd
     DEF EnforceInv, Next

LEMMA EnforceInit == ASSUME Init PROVE EnforceInv
<1>1. TypeOK
  BY RulesetTypes, PlanTypes, RulesetAssumption DEF Init, TypeOK
<1>2. \A p \in Proc : op[p] = "none" /\ plan[p] = <<>> /\ lock # p
  BY FirewallAssumption DEF Init
<1>3. ASSUME NEW p \in Proc PROVE Progress(p)
  <2>1. plan[p] \in Idle /\ op[p] \notin Applying
    BY <1>2 DEF Idle, Applying
  <2>2. QED
    BY <1>2, <2>1, IdlePlans DEF Progress
<1>4. QED
  BY <1>1, <1>2, <1>3 DEF EnforceInv, Holding

(* Closing is kept: while panic off holds the flock nobody enables the     *)
(* firewall.                                                               *)
LEMMA ClosingStep ==
  ASSUME Guarded, TypeOK, Holding, Closing, [Next]_vars
  PROVE  Closing'
<1> DEFINE Shut == {<<"save", "flush">>, <<"flush">>}
<1>1. ASSUME NEW p \in Proc, Handler(p) PROVE Closing'
  <2>1. UNCHANGED enabled /\ \A q \in Proc \ {p} : op'[q] = op[q] /\ plan'[q] = plan[q]
    <3>1. CASE LoadForRule(p) \/ LockForRule(p)
      BY <3>1 DEF LoadForRule, LockForRule, disk, TypeOK
    <3>2. CASE ~LoadForRule(p) /\ ~LockForRule(p)
      <4>1. PICK o, st, steps : Begin(p, o, st, steps)
        BY <1>1, <3>2, Starts
      <4>2. QED
        BY <4>1 DEF Begin, disk, TypeOK
    <3>3. QED
      BY <3>1, <3>2
  <2>2. op'[p] = "panicOff" /\ plan'[p] \in Shut => ~enabled
    <3>1. CASE LoadForRule(p)
      BY <3>1 DEF LoadForRule, TypeOK
    <3>2. CASE LockForRule(p)
      <4>1. plan[p] # <<>> /\ Head(plan[p]) = "lock" /\ op'[p] = op[p]
        BY <3>2 DEF LockForRule, Next1
      <4>2. plan'[p] = CommitPlan
        BY <3>2 DEF LockForRule, TypeOK
      <4>3. CommitPlan \notin Shut
        BY DEF CommitPlan
      <4>4. QED
        BY <4>2, <4>3
    <3>3. CASE ~LoadForRule(p) /\ ~LockForRule(p)
      <4>1. PICK o, st, steps : Begin(p, o, st, steps) /\ Start(o, st, steps)
        BY <1>1, <3>3, Starts
      <4>2. op'[p] = o /\ plan'[p] = steps
        BY <4>1 DEF Begin, TypeOK
      <4>3. <<"save", "apply", "fragments">> \notin Shut /\ <<>> \notin Shut
        OBVIOUS
      <4>4. QED
        BY <4>1, <4>2, <4>3 DEF Start
    <3>4. QED
      BY <3>1, <3>2, <3>3
  <2>3. QED
    BY <2>1, <2>2 DEF Closing
<1>2. ASSUME NEW p \in Proc, Call(p), ~Return(p) PROVE Closing'
  <2>1. /\ plan[p] # <<>> /\ Head(plan[p]) # "lock" /\ UNCHANGED op
        /\ \/ plan' = [plan EXCEPT ![p] = Tail(plan[p])]
           \/ plan' = [plan EXCEPT ![p] = <<>>]
    BY <1>2, CallMoves
  <2>2. /\ op[p] # "none" /\ lock = p /\ Move(op[p], plan[p], Tail(plan[p]))
    BY <2>1, Caller
  <2>3. ASSUME NEW q \in Proc \ {p} PROVE op[q] # "panicOff"
    BY <2>2, Others, FirewallAssumption DEF Waits
  <2>4. CASE op[p] # "panicOff"
    BY <2>1, <2>3, <2>4 DEF Closing
  <2>5. CASE op[p] = "panicOff"
    <3>1. UNCHANGED enabled
      <4>1. CASE SaveConf(p)
        <5>1. Head(plan[p]) \in {"enable", "disable", "conf"}
          BY <4>1 DEF SaveConf, Next1
        <5>2. op[p] \in Loaders \cup Stoppers \cup {"reset"} \cup Setters
          BY <2>2, <5>1 DEF Move
        <5>3. QED
          BY <2>5, <5>2 DEF Loaders, Stoppers, Setters
      <4>2. CASE ~SaveConf(p)
        BY <1>2, <4>2 DEF Call, Load, Apply, ApplyFragments, Flush, Save, ReadEtc,
           WriteEtcDefault, Backup, IfEnabled, disk
      <4>3. QED
        BY <4>1, <4>2
    <3>2. plan'[p] \in {Tail(plan[p]), <<>>}
      BY <2>1 DEF TypeOK
    <3>3. Tail(plan[p]) \in Shut => plan[p] = <<"save", "flush">>
      <4>1. plan[p] \in PanicOffPlans
        BY <2>1, <2>2, <2>5, Caller DEF Follows, Fits
      <4>2. /\ Tail(<<"save", "apply", "fragments">>) \notin Shut
            /\ Tail(<<"apply", "fragments">>) \notin Shut
            /\ Tail(<<"fragments">>) \notin Shut /\ Tail(<<"flush">>) \notin Shut
        OBVIOUS
      <4>3. QED
        BY <2>1, <4>1, <4>2 DEF PanicOffPlans
    <3>4. <<>> \notin Shut
      OBVIOUS
    <3>5. op'[p] = "panicOff" /\ plan'[p] \in Shut => ~enabled'
      BY <2>1, <2>5, <3>1, <3>2, <3>3, <3>4 DEF Closing
    <3>6. \A q \in Proc \ {p} : op'[q] # "panicOff"
      BY <2>1, <2>3
    <3>7. QED
      BY <3>5, <3>6 DEF Closing
  <2>6. QED
    BY <2>4, <2>5
<1>3. ASSUME NEW p \in Proc, Return(p) \/ Fail(p) \/ Kill(p) PROVE Closing'
  <2>1. enabled' \in {enabled, FALSE} /\ op'[p] = "none"
        /\ \A q \in Proc \ {p} : op'[q] = op[q] /\ plan'[q] = plan[q]
    BY <1>3 DEF Return, Fail, Kill, Release, disk, TypeOK
  <2>2. QED
    BY <2>1 DEF Closing
<1>4. CASE Reboot
  BY <1>4 DEF Reboot, Closing
<1>5. CASE Expire \/ UNCHANGED vars
  BY <1>5 DEF Expire, vars, disk, procs, Closing
<1>6. QED
  BY <1>1, <1>2, <1>3, <1>4, <1>5 DEF Next

(* The last call of a command: what it has applied is what it has saved.   *)
LEMMA LastStep ==
  ASSUME Guarded, EnforceInv, Closing, EnforceInv', Next, NEW p \in Proc,
         LastCall(p), enabled', op[p] \in Enforcing
  PROVE  Enforced(file)'
<1>0. TypeOK /\ Holding /\ Progress(p) /\ Progress(p)'
  BY DEF EnforceInv
<1>1. CASE op[p] \in Applying
  BY <1>0, <1>1 DEF LastCall, Progress
<1>2. CASE op[p] \in {"threat", "sweep", "panicOn", "panicOff"}
  <2> DEFINE s == plan[p]
             t == Tail(plan[p])
  <2>1. Call(p) /\ ~Return(p)
    <3>1. plan[p] # <<>> /\ plan'[p] # plan[p] /\ op'[p] = op[p] /\ op[p] # "none"
      BY <1>2 DEF LastCall
    <3>2. ASSUME NEW q \in Proc, Handler(q) PROVE FALSE
      <4>1. CASE LoadForRule(q)
        BY <1>0, <3>1, <4>1 DEF LoadForRule, TypeOK
      <4>2. CASE LockForRule(q)
        <5>1. CommitPlan # <<>>
          BY DEF CommitPlan
        <5>2. plan' = [plan EXCEPT ![q] = CommitPlan]
          BY <4>2 DEF LockForRule
        <5>3. QED
          BY <1>0, <3>1, <5>1, <5>2 DEF TypeOK, LastCall
      <4>3. CASE ~LoadForRule(q) /\ ~LockForRule(q)
        <5>1. PICK o, st, steps : Begin(q, o, st, steps)
          BY <1>0, <3>2, <4>3, Starts
        <5>2. op[q] = "none" /\ plan' = [plan EXCEPT ![q] = steps]
          BY <5>1 DEF Begin
        <5>3. QED
          BY <1>0, <3>1, <5>2 DEF TypeOK
      <4>4. QED
        BY <4>1, <4>2, <4>3
    <3>3. ASSUME NEW q \in Proc, Return(q) \/ Fail(q) \/ Kill(q) PROVE FALSE
      <4>1. op' = [op EXCEPT ![q] = "none"] /\ plan' = [plan EXCEPT ![q] = <<>>]
        BY <3>3 DEF Return, Fail, Kill, Release
      <4>2. QED
        BY <1>0, <3>1, <4>1 DEF TypeOK
    <3>4. ASSUME NEW q \in Proc \ {p}, Call(q), ~Return(q) PROVE FALSE
      <4>1. plan'[p] = plan[p]
        BY <1>0, <3>4, CallMoves DEF TypeOK
      <4>2. QED
        BY <3>1, <4>1
    <3>5. ~Reboot /\ ~Expire
      BY <3>1 DEF Reboot, Expire, procs
    <3>6. QED
      BY <3>2, <3>3, <3>4, <3>5 DEF Next
  <2>2. /\ s # <<>> /\ Head(s) # "lock" /\ UNCHANGED <<op, expired>>
        /\ plan'[p] = t \/ (op[p] \in Setters /\ IfEnabled(p))
    BY <1>0, <2>1, CallMoves DEF TypeOK
  <2>3. t = <<>> /\ Move(op[p], s, t)
    BY <1>0, <1>2, <2>2, Caller DEF LastCall, Setters
  <2>4. Head(s) \in {"fragments", "flush", "save"}
    <3>1. Head(s) \in {"load", "apply", "fragments", "flush", "save", "enable", "disable",
                       "conf", "readEtc", "etc", "backupRules", "backupFragments", "ifEnabled"}
      BY <2>1 DEF Call, Load, Apply, ApplyFragments, Flush, Save, SaveConf, ReadEtc,
         WriteEtcDefault, Backup, IfEnabled, Next1
    <3>2. op[p] \notin Loaders \cup Stoppers \cup Setters \cup {"reset"}
      BY <1>2 DEF Loaders, Stoppers, Setters
    <3>3. /\ <<"fragments", "save">> # <<>> /\ <<"fragments">> # <<>>
          /\ <<"fragments", "enable">> # <<>>
      OBVIOUS
    <3>4. Head(s) \notin {"load", "apply"}
      BY <2>3, <3>2, <3>3 DEF Move
    <3>5. Head(s) \notin {"enable", "disable", "conf", "etc", "ifEnabled"}
      BY <2>3, <3>2 DEF Move
    <3>6. Head(s) \notin {"readEtc", "backupRules", "backupFragments"}
      BY <2>3, <3>2 DEF Move
    <3>7. QED
      BY <3>1, <3>4, <3>5, <3>6
  <2>5. CASE Head(s) = "fragments"
    <3>1. s = <<"fragments">>
      BY <2>3, <2>5 DEF Move
    <3>2. work[p] = file /\ Mirrors(work[p])
      BY <1>0, <3>1, Told DEF Loading
    <3>3. ApplyFragments(p)
      BY <2>1, <2>5 DEF Call, Load, Apply, ApplyFragments, Flush, Save, SaveConf, ReadEtc,
         WriteEtcDefault, Backup, IfEnabled, Next1
    <3>4. UNCHANGED <<file, etc, fragments>> /\ inet' = [inet EXCEPT !.frags = fragments]
      BY <3>3 DEF ApplyFragments, disk
    <3>5. /\ inet'.frags = fragments
          /\ inet'.loaded = inet.loaded /\ inet'.drop = inet.drop
          /\ inet'.policy = inet.policy /\ inet'.rules = inet.rules /\ inet'.bans = inet.bans
      BY <1>0, <3>4 DEF TypeOK, Table
    <3>6. Mirrors(file)
      BY <3>2
    <3>7. QED
      BY <2>2, <3>4, <3>5, <3>6 DEF Mirrors, Enforced
  <2>6. CASE Head(s) = "flush"
    <3>0. /\ <<"load", "apply", "fragments", "enable">> # <<>> /\ <<"disable">> # <<>>
          /\ <<"backupRules", "backupFragments", "save", "disable">> # <<>>
      OBVIOUS
    <3>1. s = <<"flush">> /\ op[p] = "panicOff"
      BY <1>2, <2>3, <2>6, <3>0 DEF Move, Stoppers
    <3>2. ~enabled
      BY <3>1 DEF Closing
    <3>3. Flush(p)
      BY <2>1, <2>6 DEF Call, Load, Apply, ApplyFragments, Flush, Save, SaveConf, ReadEtc,
         WriteEtcDefault, Backup, IfEnabled, Next1
    <3>4. QED
      BY <3>2, <3>3 DEF Flush, disk
  <2>7. CASE Head(s) = "save"
    <3>0. /\ op[p] \notin Setters /\ <<"apply", "fragments">> # <<>>
          /\ <<"flush">> # <<>> /\ <<"disable">> # <<>>
      BY <1>2 DEF Setters
    <3>1. s = <<"save">>
      BY <2>3, <2>7, <3>0 DEF Move
    <3>2. Save(p)
      BY <2>1, <2>7 DEF Call, Load, Apply, ApplyFragments, Flush, Save, SaveConf, ReadEtc,
         WriteEtcDefault, Backup, IfEnabled, Next1
    <3>3. file' = work[p] /\ UNCHANGED <<enabled, etc, fragments, inet>>
      BY <3>2 DEF Save, kernel
    <3>4. Enforced(work[p])
      BY <1>0, <3>1, <3>3, Told
    <3>5. QED
      BY <2>2, <3>3, <3>4 DEF Enforced
  <2>8. QED
    BY <2>4, <2>5, <2>6, <2>7
<1>3. QED
  BY <1>1, <1>2 DEF Enforcing

(* A command that changes what is enforced and exits with 0 on an enabled  *)
(* firewall leaves the kernel enforcing rules.json (SuccessMeansEnforced), *)
(* whatever failed or was killed before it and however many commands race, *)
(* as long as all of them take the flock before they write.                *)
THEOREM SuccessIsEnforced == ASSUME Guarded PROVE Spec => SuccessMeansEnforced
<1> DEFINE A == \A p \in Proc :
                  /\ LastCall(p) /\ enabled'
                  /\ op[p] \in Enforcing \/ (op[p] = "appUpdate" /\ Next1(p, "fragments"))
                  => Enforced(file)'
<1>1. Init => EnforceInv /\ Closing
  BY EnforceInit DEF Init, Closing
<1>2. EnforceInv /\ Closing /\ [Next]_vars => (EnforceInv /\ Closing)'
  BY EnforceStep, ClosingStep DEF EnforceInv
<1>3. EnforceInv /\ Closing /\ [Next]_vars => [A]_vars
  <2> SUFFICES ASSUME EnforceInv, Closing, Next PROVE A
    OBVIOUS
  <2>1. EnforceInv'
    BY <1>2
  <2>2. \A p \in Proc : op[p] # "appUpdate"
    BY DEF EnforceInv, Holding, Guarded, Locked
  <2>3. QED
    BY <2>1, <2>2, LastStep
<1>4. QED
  BY <1>1, <1>2, <1>3, PTL DEF Spec, SuccessMeansEnforced

-----------------------------------------------------------------------------
(* NoWedge. *)

LEMMA RestSound ==
  ASSUME NEW q \in Proc,
         \/ op'[q] = "none" /\ plan'[q] = <<>>
         \/ op'[q] = "rule" /\ plan'[q] = <<"lock">>
  PROVE  Sound(q)'
<1>1. op'[q] \notin {"panicOn", "reset", "default", "logging"}
  OBVIOUS
<1>2. plan'[q] \notin {<<"fragments", "save">>, <<"save">>}
  OBVIOUS
<1>3. QED
  BY <1>1, <1>2 DEF Sound

LEMMA OthersSound ==
  ASSUME Holding, NEW p \in Proc, NEW q \in Proc \ {p}, lock \in {p, Free},
         op'[q] = op[q], plan'[q] = plan[q]
  PROVE  Sound(q)'
<1>1. lock # q
  BY FirewallAssumption
<1>2. QED
  BY <1>1, Others, RestSound DEF Waits

LEMMA StartSound ==
  ASSUME file \in State, NEW p \in Proc, NEW o, NEW st, NEW steps, Start(o, st, steps),
         op'[p] = o, plan'[p] = steps, work'[p] = st, UNCHANGED <<enabled, file>>
  PROVE  Sound(p)'
<1>1. o = "panicOn" => st.panic
  BY DEF Start
<1>2. o = "reset" => Compiles(st)
  BY DEF Start, Compiles, Defaults
<1>3. o \in {"default", "logging"} /\ Compiles(file) => Compiles(st)
  BY DEF Start, Compiles
<1>4. steps \in {<<"fragments", "save">>, <<"save">>} => ~enabled
  <2>1. CommitPlan # <<"fragments", "save">> /\ (CommitPlan = <<"save">> => ~enabled)
    BY DEF CommitPlan
  <2>2. QED
    BY <2>1 DEF Start
<1>5. QED
  BY <1>1, <1>2, <1>3, <1>4 DEF Sound, Compiles

LEMMA SoundHandler ==
  ASSUME Guarded, WedgeInv, NEW p \in Proc, Handler(p)
  PROVE  \A q \in Proc : Sound(q)'
<1>0. TypeOK /\ Holding /\ file \in State
  BY DEF WedgeInv, TypeOK
<1>1. CASE LoadForRule(p)
  <2>1. /\ op'[p] = "rule" /\ plan'[p] = <<"lock">> /\ UNCHANGED <<file, enabled>>
        /\ \A q \in Proc \ {p} : /\ op'[q] = op[q] /\ plan'[q] = plan[q]
                                 /\ work'[q] = work[q]
    BY <1>0, <1>1 DEF LoadForRule, TypeOK, disk
  <2>2. ASSUME NEW q \in Proc \ {p} PROVE Sound(q)'
    BY <2>1 DEF WedgeInv, Sound
  <2>3. QED
    BY <2>1, <2>2, RestSound
<1>2. CASE LockForRule(p)
  <2>1. /\ plan'[p] = CommitPlan /\ op'[p] = "rule" /\ lock = Free /\ UNCHANGED enabled
        /\ \A q \in Proc \ {p} : op'[q] = op[q] /\ plan'[q] = plan[q]
    <3>1. plan[p] # <<>> /\ lock = Free
      BY <1>2 DEF LockForRule, Next1
    <3>2. op[p] = "rule"
      BY <1>0, <3>1, Others, FirewallAssumption DEF Waits
    <3>3. QED
      BY <1>0, <1>2, <3>1, <3>2 DEF LockForRule, TypeOK, disk
  <2>2. CommitPlan # <<"fragments", "save">> /\ (CommitPlan = <<"save">> => ~enabled)
    BY DEF CommitPlan
  <2>3. Sound(p)'
    BY <2>1, <2>2 DEF Sound
  <2>4. QED
    BY <1>0, <2>1, <2>3, OthersSound
<1>3. CASE ~LoadForRule(p) /\ ~LockForRule(p)
  <2>1. PICK o, st, steps : Begin(p, o, st, steps) /\ Start(o, st, steps)
    BY <1>0, <1>3, Starts
  <2>2. /\ op'[p] = o /\ plan'[p] = steps /\ work'[p] = st /\ lock = Free
        /\ UNCHANGED <<enabled, file>>
        /\ \A q \in Proc \ {p} : op'[q] = op[q] /\ plan'[q] = plan[q]
    BY <1>0, <2>1 DEF Begin, TypeOK, disk
  <2>3. Sound(p)'
    BY <1>0, <2>1, <2>2, StartSound
  <2>4. QED
    BY <1>0, <2>2, <2>3, OthersSound
<1>4. QED
  BY <1>1, <1>2, <1>3

(* A call that leaves the copy alone keeps it sound.                       *)
LEMMA StaysSound ==
  ASSUME NEW p \in Proc, Sound(p), op'[p] = op[p], work'[p] = work[p],
         op[p] \in {"default", "logging"} /\ Saving(plan'[p]) =>
           Saving(plan[p]) /\ file' = file,
         plan'[p] \in {<<"fragments", "save">>, <<"save">>} /\ enabled'
           => Compiles(work[p])
  PROVE  Sound(p)'
BY DEF Sound, Compiles

(* The copy is not about to be saved.                                      *)
LEMMA NotCommitting ==
  ASSUME NEW t \in PreSave \cup Loading \cup Untold \cup {<<>>, <<"enable">>}
  PROVE  t \notin {<<"fragments", "save">>, <<"save">>}
<1>1. CASE t \in PreSave \cup Loading
  BY <1>1 DEF PreSave, Loading
<1>2. CASE t \in Untold
  <2>1. t # <<"save">>
    BY <1>2 DEF Untold
  <2>2. t # <<"fragments", "save">>
    BY <1>2 DEF Untold
  <2>3. QED
    BY <2>1, <2>2
<1>3. CASE t \in {<<>>, <<"enable">>}
  BY <1>3
<1>4. QED
  BY <1>1, <1>2, <1>3

LEMMA SoundCall ==
  ASSUME Guarded, WedgeInv, NEW p \in Proc, Call(p), ~Return(p)
  PROVE  \A q \in Proc : Sound(q)'
<1> DEFINE s == plan[p]
           t == Tail(plan[p])
<1>0. TypeOK /\ Holding /\ Sound(p)
  BY DEF WedgeInv
<1>1. /\ s # <<>> /\ Head(s) # "lock" /\ UNCHANGED <<lock, op>>
      /\ \/ plan' = [plan EXCEPT ![p] = t]
         \/ plan' = [plan EXCEPT ![p] = <<>>] /\ ~enabled /\ IfEnabled(p)
  BY <1>0, CallMoves
<1>2. /\ lock = p /\ op[p] # "none" /\ Move(op[p], s, t)
      /\ op[p] \in Locked \cup {"rule"} /\ Follows(op[p], s)
  BY <1>0, <1>1, Caller
<1>3. /\ plan'[p] = t \/ (plan'[p] = <<>> /\ IfEnabled(p))
      /\ \A q \in Proc \ {p} : op'[q] = op[q] /\ plan'[q] = plan[q]
      /\ op'[p] = op[p]
  BY <1>0, <1>1 DEF TypeOK
<1>4. ASSUME NEW q \in Proc \ {p} PROVE Sound(q)'
  BY <1>0, <1>2, <1>3, OthersSound
<1> SUFFICES Sound(p)'
  BY <1>4
<1>5. op[p] \in {"default", "logging"} =>
        /\ Saving(plan'[p]) => Saving(s)
        /\ Head(s) = "save" => ~Saving(t)
  <2>1. op[p] \in {"default", "logging"} => op[p] \in Locked /\ Fits(op[p], s)
    BY <1>2 DEF Follows, Locked
  <2>2. QED
    BY <1>1, <1>3, <2>1, SavedPlans, SavingTail
<1>6. CASE Load(p)
  <2>1. Head(s) = "load" /\ plan'[p] = t
    BY <1>0, <1>6 DEF Load, Next1, Advance, TypeOK
  <2>2. op[p] \in Loaders /\ t \in PreSave
    BY <1>2, <2>1 DEF Move, PreSave
  <2>3. QED
    BY <1>3, <2>1, <2>2, NotCommitting DEF Sound, Loaders
<1>7. CASE Apply(p)
  <2>1. Compiles(work[p]) /\ UNCHANGED <<file, work>>
    BY <1>7 DEF Apply, disk
  <2>2. QED
    BY <1>0, <1>3, <1>5, <2>1, StaysSound
<1>8. CASE ApplyFragments(p)
  <2>1. Head(s) = "fragments" /\ UNCHANGED <<file, work, enabled>> /\ plan'[p] = t
    BY <1>0, <1>8 DEF ApplyFragments, Next1, Advance, TypeOK, disk
  <2>2. s = <<"fragments", "save">> \/ t \in {<<>>, <<"enable">>}
    BY <1>2, <2>1 DEF Move
  <2>3. t \in {<<"fragments", "save">>, <<"save">>} /\ enabled => Compiles(work[p])
    BY <1>0, <2>2, NotCommitting DEF Sound
  <2>4. QED
    BY <1>0, <1>3, <1>5, <2>1, <2>3, StaysSound
<1>9. CASE Flush(p) \/ WriteEtcDefault(p) \/ SaveConf(p) \/ Backup(p) \/ Save(p)
  <2>1. /\ Head(s) \in {"flush", "etc", "enable", "disable", "conf", "save",
                       "backupRules", "backupFragments"}
        /\ UNCHANGED work /\ plan'[p] = t
        /\ file' # file => Head(s) \in {"save", "backupRules"}
    BY <1>0, <1>9 DEF Flush, WriteEtcDefault, SaveConf, Backup, Save, Next1, Advance,
                      TypeOK, disk
  <2>2. t \in PreSave \cup Untold \cup {<<>>}
    BY <1>2, <2>1 DEF Move, PreSave, Untold
  <2>3. t \notin {<<"fragments", "save">>, <<"save">>}
    BY <2>2, NotCommitting
  <2>4. Head(s) = "backupRules" => op[p] = "reset"
    BY <1>2 DEF Move
  <2>5. QED
    BY <1>0, <1>3, <1>5, <2>1, <2>3, <2>4, StaysSound
<1>10. CASE IfEnabled(p)
  <2>1. Head(s) = "ifEnabled" /\ UNCHANGED <<file, work>>
    BY <1>10 DEF IfEnabled, Next1, disk
  <2>2. plan'[p] \in PreSave \cup {<<>>}
    BY <1>2, <1>3, <2>1 DEF Move, PreSave
  <2>3. plan'[p] \notin {<<"fragments", "save">>, <<"save">>}
    BY <2>2, NotCommitting
  <2>4. QED
    BY <1>0, <1>3, <1>5, <2>1, <2>3, StaysSound
<1>11. ~ReadEtc(p)
  BY <1>2 DEF Move, ReadEtc, Next1
<1>12. QED
  BY <1>6, <1>7, <1>8, <1>9, <1>10, <1>11 DEF Call

LEMMA SoundEnd ==
  ASSUME Guarded, WedgeInv, NEW p \in Proc, Return(p) \/ Fail(p) \/ Kill(p)
  PROVE  \A q \in Proc : Sound(q)'
<1>0. TypeOK /\ Holding
  BY DEF WedgeInv
<1>1. /\ op'[p] = "none" /\ plan'[p] = <<>>
      /\ \A q \in Proc \ {p} : /\ op'[q] = op[q] /\ plan'[q] = plan[q]
                               /\ work'[q] = work[q]
  BY <1>0 DEF Return, Fail, Kill, Release, TypeOK
<1>2. Sound(p)'
  BY <1>1, RestSound
<1>3. CASE lock \in {p, Free}
  BY <1>0, <1>1, <1>2, <1>3, OthersSound
<1>4. CASE lock \notin {p, Free}
  <2>1. (op[p] = "none" /\ plan[p] = <<>>) \/ Waits(p)
    BY <1>0, <1>4, Others
  <2>2. plan[p] # <<>> => Head(plan[p]) = "lock"
    BY <2>1 DEF Waits
  <2>3. UNCHANGED <<file, enabled>>
    BY <2>2 DEF Return, Fail, Kill, disk
  <2>4. ASSUME NEW q \in Proc \ {p} PROVE Sound(q)'
    BY <1>1, <2>3 DEF WedgeInv, Sound
  <2>5. QED
    BY <1>2, <2>4
<1>5. QED
  BY <1>3, <1>4

LEMMA WedgeStep == ASSUME Guarded, WedgeInv, [Next]_vars PROVE WedgeInv'
<1>1. TypeOK /\ Holding /\ Holding'
  BY HoldingStep DEF WedgeInv
<1>2. TypeOK'
  <2>1. CASE UNCHANGED vars
    BY <1>1, <2>1 DEF TypeOK, vars
  <2>2. QED
    BY <1>1, <2>1, HandlerType, CallType, FailureType DEF Next
<1>3. CASE Reboot
  <2>1. ASSUME NEW q \in Proc PROVE op'[q] = "none" /\ plan'[q] = <<>>
    BY <1>3 DEF Reboot
  <2>2. QED
    BY <1>1, <1>2, <2>1, RestSound DEF WedgeInv
<1>4. CASE Expire \/ UNCHANGED vars
  <2>1. UNCHANGED <<file, enabled, op, plan, work>>
    BY <1>4 DEF Expire, vars, disk, procs
  <2>2. QED
    BY <1>1, <1>2, <2>1 DEF WedgeInv, Sound
<1>5. QED
  BY <1>1, <1>2, <1>3, <1>4, SoundHandler, SoundCall, SoundEnd DEF WedgeInv, Next

(* On an enabled firewall no command but an import and panic off stores a  *)
(* state that compile() rejects, not even from a stale copy and whatever   *)
(* fails: commitState applies, and so compiles, what it is about to save.  *)
THEOREM NothingWedges == ASSUME Checked PROVE Spec => NoWedge
<1> USE DEF Checked
<1>1. Init => WedgeInv
  <2> SUFFICES ASSUME Init PROVE WedgeInv
    OBVIOUS
  <2>1. TypeOK
    BY RulesetTypes, PlanTypes, RulesetAssumption DEF Init, TypeOK
  <2>2. \A p \in Proc : op[p] = "none" /\ plan[p] = <<>> /\ lock # p
    BY FirewallAssumption DEF Init
  <2>3. \A p \in Proc : Sound(p)
    BY <2>2 DEF Sound
  <2>4. QED
    BY <2>1, <2>2, <2>3 DEF WedgeInv, Holding
<1>2. Checked /\ WedgeInv /\ [Next]_vars => WedgeInv'
  BY WedgeStep
<1>3. Checked /\ WedgeInv /\ [Next]_vars => [enabled /\ Compiles(file) => Compiles(file')]_file
  <2> SUFFICES ASSUME WedgeInv, [Next]_vars, file' # file, enabled, Compiles(file)
               PROVE  Compiles(file')
    OBVIOUS
  <2>1. PICK p \in Proc : Save(p) \/ (Backup(p) /\ file' = Defaults)
    <3>1. ~UNCHANGED vars /\ ~Reboot /\ ~Expire
      BY DEF vars, Reboot, Expire, disk
    <3>2. PICK p \in Proc : Handler(p) \/ Call(p) \/ Fail(p) \/ Kill(p)
      BY <3>1 DEF Next
    <3>3. ~Handler(p)
      BY DEF Handler, NatAdd, NatDelete, ThreatUpdate, CmdSweep, PanicOn, PanicOff,
             CmdDefault, CmdLogging, CmdImport, CmdEnable, CmdDisable, CmdReload,
             CmdReset, BootLoad, BootUnload, LoadForRule, LockForRule, AppUpdate,
             AppDefault, LoadForApp, Begin, disk
    <3>4. ~Fail(p) /\ ~Kill(p)
      BY DEF Fail, Kill
    <3>5. QED
      BY <3>2, <3>3, <3>4 DEF Call, Load, Apply, ApplyFragments, Flush, SaveConf, ReadEtc,
                              WriteEtcDefault, Backup, IfEnabled, Return, disk
  <2>2. CASE file' = Defaults
    BY <2>2 DEF Compiles, Defaults
  <2>3. CASE Save(p)
    <3>1. plan[p] # <<>> /\ Head(plan[p]) = "save" /\ file' = work[p]
      BY <2>3 DEF Save, Next1
    <3>2. /\ op[p] \in Ops /\ Move(op[p], plan[p], Tail(plan[p])) /\ Sound(p)
          /\ op[p] \in Locked \cup {"rule"} /\ Follows(op[p], plan[p])
      BY <3>1, Caller DEF WedgeInv, Holding
    <3>3. CASE plan[p] = <<"save">>
      BY <3>1, <3>2, <3>3 DEF Sound
    <3>4. CASE op[p] \in Setters
      <4>1. op[p] \in {"default", "logging"}
        BY <3>2, <3>4 DEF Setters
      <4>2. Saving(plan[p])
        BY <3>1, <3>2, <4>1, SaveHead DEF Follows, Locked
      <4>3. QED
        BY <3>1, <3>2, <4>1, <4>2 DEF Sound
    <3>5. CASE op[p] = "reset"
      BY <3>1, <3>2, <3>5 DEF Sound
    <3>6. op[p] # "panicOff"
      BY <3>2
    <3>7. QED
      BY <3>1, <3>2, <3>3, <3>4, <3>5, <3>6 DEF Move
  <2>4. QED
    BY <2>1, <2>2, <2>3
<1>4. QED
  BY <1>1, <1>2, <1>3, PTL DEF Spec, NoWedge

-----------------------------------------------------------------------------
(* KernelInStep. *)

LEMMA SteadyOps ==
  ASSUME Steady
  PROVE  /\ Guarded
         /\ \A o \in Ops : o \notin Setters /\ o # "reset"
BY DEF Steady, Guarded, Locked, Setters

(* A table that enforces the file is one that agrees with it.              *)
LEMMA EnforcedAgrees ==
  ASSUME TypeOK, Enforced(file)
  PROVE  Agree
<1>1. file.panic \in BOOLEAN /\ inet.drop = file.panic
  BY EditTypes DEF TypeOK, Enforced, CompileInet
<1>2. file.panic => Enforced(PanicState)
  BY DEF Enforced, CompileInet, PanicState, Defaults
<1>3. QED
  BY <1>1, <1>2 DEF Agree

LEMMA RestKnows ==
  ASSUME NEW q \in Proc,
         \/ op'[q] = "none" /\ plan'[q] = <<>>
         \/ op'[q] = "rule" /\ plan'[q] = <<"lock">>
  PROVE  Knows(q)'
<1>1. op'[q] \notin {"panicOn", "panicOff", "reload", "bootLoad", "enable"}
  OBVIOUS
<1>2. plan'[q] \notin {<<"apply", "fragments", "save">>, <<"fragments", "save">>}
  OBVIOUS
<1>3. plan'[q] # <<"disable">>
  OBVIOUS
<1>4. QED
  BY <1>1, <1>2, <1>3 DEF Knows

LEMMA OthersKnow ==
  ASSUME Holding, NEW p \in Proc, NEW q \in Proc \ {p}, lock \in {p, Free},
         op'[q] = op[q], plan'[q] = plan[q]
  PROVE  Knows(q)'
<1>1. lock # q
  BY FirewallAssumption
<1>2. QED
  BY <1>1, Others, RestKnows DEF Waits

(* While nobody holds the flock, the table agrees with the file.           *)
LEMMA FreeAgrees ==
  ASSUME StepInv, lock = Free
  PROVE  Agree
BY FirewallAssumption DEF StepInv, InFlight

LEMMA StartKnows ==
  ASSUME TypeOK, NEW p \in Proc, NEW o, NEW st, NEW steps, Start(o, st, steps),
         op'[p] = o, plan'[p] = steps, work'[p] = st, UNCHANGED <<enabled, file, inet>>
  PROVE  Knows(p)'
<1>1. o = "panicOn" => st.panic
  BY DEF Start
<1>2. o = "panicOff" /\ Saving(steps) => file.panic /\ ~st.panic
  BY SavedPlans DEF Start
<1>3. steps \in {<<"apply", "fragments", "save">>, <<"fragments", "save">>}
        => enabled \/ o = "panicOn"
  <2>1. CommitPlan # <<"fragments", "save">>
        /\ (CommitPlan = <<"apply", "fragments", "save">> => enabled)
    BY DEF CommitPlan
  <2>2. QED
    BY <2>1 DEF Start
<1>4. o \in {"reload", "bootLoad"} /\ steps # <<>> => enabled
  BY DEF Start
<1>5. o = "panicOff" /\ steps \in {<<"save", "apply", "fragments">>,
                                  <<"apply", "fragments">>, <<"fragments">>}
        => enabled
  <2>1. {<<>>, <<"save", "flush">>} \cap {<<"save", "apply", "fragments">>,
                                        <<"apply", "fragments">>, <<"fragments">>} = {}
    OBVIOUS
  <2>2. o = "panicOff" => steps \in {<<>>, <<"save", "flush">>} \/ enabled
    BY DEF Start
  <2>3. QED
    BY <2>1, <2>2
<1>6. steps # <<"disable">>
  <2>1. CommitPlan # <<"disable">>
    BY DEF CommitPlan
  <2>2. \A t \in {<<>>, <<"apply", "fragments", "save">>,
                 <<"save", "apply", "fragments">>, <<"save", "flush">>,
                 <<"save", "etc", "ifEnabled", "apply", "fragments">>,
                 <<"save", "conf", "ifEnabled", "apply", "fragments">>,
                 <<"save", "ifEnabled", "apply", "fragments">>, <<"enable">>} :
          t # <<"disable">>
    OBVIOUS
  <2>3. \A t \in {<<"load", "apply", "fragments", "enable">>, <<"flush", "disable">>,
                 <<"flush", "load", "apply", "fragments", "enable">>,
                 <<"flush", "backupRules", "backupFragments", "save", "disable">>,
                 <<"backupRules", "backupFragments", "save", "disable">>,
                 <<"load", "apply", "fragments">>, <<"flush">>} :
          t # <<"disable">>
    OBVIOUS
  <2>4. QED
    BY <2>1, <2>2, <2>3 DEF Start
<1>7. o = "enable" => \/ steps = <<"load", "apply", "fragments", "enable">> /\ ~inet.loaded
                      \/ steps = <<"enable">>
  BY DEF Start
<1>8. QED
  BY <1>1, <1>2, <1>3, <1>4, <1>5, <1>6, <1>7 DEF Knows

LEMMA StepHandler ==
  ASSUME Steady, StepInv, NEW p \in Proc, Handler(p)
  PROVE  ((\E q \in Proc : InFlight(q)) \/ Agree)' /\ Unloaded'
         /\ \A q \in Proc : Knows(q)'
<1>0. TypeOK /\ Holding /\ Guarded
  BY SteadyOps DEF StepInv, EnforceInv
<1>1. CASE LoadForRule(p)
  <2>1. /\ op[p] = "none" /\ op'[p] = "rule" /\ plan'[p] = <<"lock">>
        /\ UNCHANGED <<file, enabled, etc, fragments, inet, expired, lock>>
        /\ \A q \in Proc \ {p} : /\ op'[q] = op[q] /\ plan'[q] = plan[q]
                                 /\ work'[q] = work[q]
    BY <1>0, <1>1 DEF LoadForRule, TypeOK, disk, kernel
  <2>2. lock # p
    BY <1>0, <2>1 DEF Holding, Waits
  <2>3. ASSUME NEW q \in Proc \ {p} PROVE Knows(q)' /\ (InFlight(q) => InFlight(q)')
    BY <2>1 DEF StepInv, Knows, InFlight
  <2>4. Agree => Agree'
    BY <2>1 DEF Agree, Enforced
  <2>5. Unloaded'
    BY <2>1, <2>2 DEF StepInv, Unloaded
  <2>6. ~InFlight(p)
    BY <2>2 DEF InFlight
  <2>7. QED
    BY <2>1, <2>3, <2>4, <2>5, <2>6, RestKnows DEF StepInv
<1>2. CASE ~LoadForRule(p)
  <2>1. /\ lock = Free /\ UNCHANGED <<file, enabled, etc, fragments, inet, expired>>
        /\ \A q \in Proc \ {p} : op'[q] = op[q] /\ plan'[q] = plan[q]
        /\ Knows(p)'
    <3>1. CASE LockForRule(p)
      <4>1. plan[p] # <<>> /\ lock = Free
        BY <3>1 DEF LockForRule, Next1
      <4>2. op[p] = "rule"
        BY <1>0, <4>1, Others, FirewallAssumption DEF Waits
      <4>3. /\ plan'[p] = CommitPlan /\ op'[p] = "rule"
            /\ UNCHANGED <<file, enabled, etc, fragments, inet, expired>>
            /\ \A q \in Proc \ {p} : op'[q] = op[q] /\ plan'[q] = plan[q]
        BY <1>0, <3>1, <4>2 DEF LockForRule, TypeOK, disk, kernel
      <4>4. /\ CommitPlan # <<"fragments", "save">> /\ CommitPlan # <<"disable">>
            /\ CommitPlan = <<"apply", "fragments", "save">> => enabled
        BY DEF CommitPlan
      <4>5. Knows(p)'
        BY <4>3, <4>4 DEF Knows
      <4>6. QED
        BY <4>1, <4>3, <4>5
    <3>2. CASE ~LockForRule(p)
      <4>1. PICK o, st, steps : Begin(p, o, st, steps) /\ Start(o, st, steps)
        BY <1>0, <1>2, <3>2, Starts
      <4>2. /\ op'[p] = o /\ plan'[p] = steps /\ work'[p] = st /\ lock = Free
            /\ UNCHANGED <<file, enabled, etc, fragments, inet, expired>>
            /\ \A q \in Proc \ {p} : op'[q] = op[q] /\ plan'[q] = plan[q]
        BY <1>0, <4>1 DEF Begin, TypeOK, disk, kernel
      <4>3. Knows(p)'
        BY <1>0, <4>1, <4>2, StartKnows
      <4>4. QED
        BY <4>2, <4>3
    <3>3. QED
      BY <3>1, <3>2
  <2>2. Agree'
    BY <2>1, FreeAgrees DEF Agree, Enforced
  <2>3. Unloaded'
    BY <2>1, FirewallAssumption DEF StepInv, Unloaded
  <2>4. QED
    BY <1>0, <2>1, <2>2, <2>3, OthersKnow
<1>3. QED
  BY <1>1, <1>2

(* The holder of the flock is the only command whose copy is in flight.    *)
LEMMA NotInFlight ==
  ASSUME StepInv, NEW p \in Proc, lock = p, plan[p] \notin Applied,
         plan[p] = <<"save">> => ~enabled /\ op[p] # "panicOn"
  PROVE  Agree
BY DEF StepInv, InFlight

(* What is left of a plan that touches neither what a commit knows, nor    *)
(* what disable does.                                                      *)
LEMMA NotKnowing ==
  ASSUME NEW t \in PreSave \cup Loading \cup {<<>>, <<"enable">>, <<"save">>, <<"flush">>,
                     <<"load", "apply", "fragments", "enable">>}
  PROVE  /\ t \notin {<<"apply", "fragments", "save">>, <<"fragments", "save">>}
         /\ t # <<"disable">>
<1>1. CASE t \in PreSave
  <2>1. t # <<"apply", "fragments", "save">>
    BY <1>1 DEF PreSave
  <2>2. t # <<"fragments", "save">> /\ t # <<"disable">>
    BY <1>1 DEF PreSave
  <2>3. QED
    BY <2>1, <2>2
<1>2. CASE t \in Loading
  BY <1>2 DEF Loading
<1>3. CASE t \in {<<>>, <<"enable">>, <<"save">>, <<"flush">>}
  BY <1>3
<1>4. CASE t = <<"load", "apply", "fragments", "enable">>
  BY <1>4
<1>5. QED
  BY <1>1, <1>2, <1>3, <1>4

(* A call of panic off, and one of enable.                                 *)
LEMMA PanicOffTail ==
  ASSUME NEW s, Fits("panicOff", s), s # <<>>
  PROVE  /\ Saving(Tail(s)) => Saving(s)
         /\ Head(s) = "save" => ~Saving(Tail(s)) /\ Saving(s)
         /\ Tail(s) \in {<<"save", "apply", "fragments">>, <<"apply", "fragments">>,
                         <<"fragments">>}
              => s \in {<<"save", "apply", "fragments">>, <<"apply", "fragments">>}
<1>1. "panicOff" \in Locked
  BY DEF Locked
<1>2. s \in PanicOffPlans
  BY DEF Fits
<1>3. CASE s \in {<<"save", "apply", "fragments">>, <<"apply", "fragments">>}
  BY <1>1, <1>3, SavingTail, SaveHead
<1>4. CASE s \in {<<"fragments">>, <<"flush">>}
  <2>1. Tail(s) = <<>>
    BY <1>4, Tails
  <2>2. QED
    BY <1>1, <2>1, SavingTail, SaveHead
<1>5. CASE s = <<"save", "flush">>
  <2>1. Tail(s) = <<"flush">>
    BY <1>5, Tails
  <2>2. QED
    BY <1>1, <2>1, SavingTail, SaveHead
<1>6. QED
  BY <1>2, <1>3, <1>4, <1>5 DEF PanicOffPlans

LEMMA EnableTail ==
  ASSUME NEW p \in Proc, Knows(p), op[p] = "enable", plan[p] # <<>>
  PROVE  \/ /\ plan[p] = <<"load", "apply", "fragments", "enable">>
            /\ Tail(plan[p]) = <<"apply", "fragments", "enable">>
            /\ Head(plan[p]) = "load" /\ ~inet.loaded
         \/ /\ plan[p] = <<"apply", "fragments", "enable">>
            /\ Tail(plan[p]) = <<"fragments", "enable">>
            /\ Head(plan[p]) = "apply" /\ ~inet.loaded
         \/ /\ plan[p] = <<"fragments", "enable">>
            /\ Tail(plan[p]) = <<"enable">> /\ Head(plan[p]) = "fragments"
         \/ /\ plan[p] = <<"enable">>
            /\ Tail(plan[p]) = <<>> /\ Head(plan[p]) = "enable"
<1>1. CASE plan[p] = <<"load", "apply", "fragments", "enable">>
  BY <1>1 DEF Knows
<1>2. CASE plan[p] = <<"apply", "fragments", "enable">>
  BY <1>2 DEF Knows
<1>3. CASE plan[p] = <<"fragments", "enable">>
  BY <1>3
<1>4. CASE plan[p] = <<"enable">>
  BY <1>4
<1>5. QED
  BY <1>1, <1>2, <1>3, <1>4 DEF Knows

LEMMA KnowsOn ==
  ASSUME NEW p \in Proc, Knows(p), op'[p] = op[p],
         op[p] \in {"panicOn", "panicOff"} => work'[p] = work[p],
         op[p] = "panicOff" /\ Saving(plan'[p]) => Saving(plan[p]) /\ file' = file,
         plan'[p] \in {<<"apply", "fragments", "save">>, <<"fragments", "save">>}
           => enabled' \/ op[p] = "panicOn",
         op[p] \in {"reload", "bootLoad"} /\ plan'[p] # <<>> => enabled',
         op[p] = "panicOff" /\ plan'[p] \in {<<"save", "apply", "fragments">>,
                                             <<"apply", "fragments">>, <<"fragments">>}
           => enabled',
         plan'[p] = <<"disable">> => ~inet'.loaded,
         op[p] = "enable" =>
           \/ plan'[p] \in {<<"load", "apply", "fragments", "enable">>,
                            <<"apply", "fragments", "enable">>} /\ ~inet'.loaded
           \/ plan'[p] \in {<<"fragments", "enable">>, <<"enable">>}
           \/ plan'[p] = <<>> /\ enabled'
  PROVE  Knows(p)'
BY DEF Knows

(* Every call of a steady instance keeps kernel and file in step: it       *)
(* starts a flight, ends it, or moves neither apart.                       *)
LEMMA StepCall ==
  ASSUME Steady, StepInv, EnforceInv', NEW p \in Proc, Call(p), ~Return(p)
  PROVE  ((\E q \in Proc : InFlight(q)) \/ Agree)' /\ Unloaded'
         /\ \A q \in Proc : Knows(q)'
<1> DEFINE s == plan[p]
           t == Tail(plan[p])
           o == op[p]
<1>0. /\ TypeOK /\ TypeOK' /\ Holding /\ Guarded /\ Progress(p) /\ Knows(p)
      /\ Progress(p)' /\ Unloaded
  BY SteadyOps DEF StepInv, EnforceInv
<1>1. /\ s # <<>> /\ Head(s) # "lock" /\ UNCHANGED <<lock, op, expired>>
  BY <1>0, CallMoves
<1>2. /\ lock = p /\ o # "none" /\ Move(o, s, t)
      /\ o \in Locked \cup {"rule"} /\ Follows(o, s)
      /\ o \notin Setters /\ o # "reset"
  <2>1. o \in Ops \cup {"none"}
    BY <1>0 DEF Holding
  <2>2. QED
    BY <1>0, <1>1, <2>1, Caller, SteadyOps
<1>3. plan' = [plan EXCEPT ![p] = t]
  BY <1>0, <1>2, CallMoves
<1>4. /\ plan'[p] = t /\ op'[p] = o /\ lock' = p
      /\ \A q \in Proc \ {p} : op'[q] = op[q] /\ plan'[q] = plan[q]
  BY <1>0, <1>1, <1>2, <1>3 DEF TypeOK
<1>5. ASSUME NEW q \in Proc \ {p} PROVE Knows(q)'
  BY <1>0, <1>2, <1>4, OthersKnow
<1>6. o = "panicOff" =>
        /\ Saving(t) => Saving(s)
        /\ Head(s) = "save" => ~Saving(t) /\ Saving(s)
        /\ t \in {<<"save", "apply", "fragments">>, <<"apply", "fragments">>,
                  <<"fragments">>} => enabled
  BY <1>0, <1>1, <1>2, PanicOffTail DEF Follows, Knows
<1>7. o \in {"reload", "bootLoad"} => enabled
  BY <1>0, <1>1 DEF Knows
<1> SUFFICES (InFlight(p)' \/ Agree') /\ Unloaded' /\ Knows(p)'
  BY <1>5
<1>8. CASE Load(p)
  <2>1. /\ Head(s) = "load" /\ UNCHANGED <<file, enabled, etc, fragments, inet>>
    BY <1>8 DEF Load, Next1, disk, kernel
  <2>2. /\ o \in Loaders /\ t \in PreSave
        /\ s \notin Applied /\ s # <<"save">>
    <3>1. s \in {<<"load", "apply", "fragments", "enable">>, <<"load", "apply", "fragments">>}
      BY <1>2, <2>1 DEF Move
    <3>2. s \notin Applied /\ s # <<"save">>
      BY <3>1 DEF Applied
    <3>3. QED
      BY <1>2, <2>1, <3>2 DEF Move, PreSave
  <2>3. Agree'
    BY <1>1, <1>2, <2>1, <2>2, NotInFlight DEF Agree, Enforced
  <2>4. Unloaded'
    BY <1>0, <1>1, <2>1 DEF Unloaded
  <2>5. o = "enable" => t = <<"apply", "fragments", "enable">> /\ ~inet.loaded
    BY <1>0, <1>1, <2>1, EnableTail
  <2>6. Knows(p)'
    BY <1>0, <1>4, <1>7, <2>1, <2>2, <2>5, NotKnowing, KnowsOn DEF Loaders
  <2>7. QED
    BY <2>3, <2>4, <2>6
<1>9. CASE Apply(p)
  <2>1. /\ Head(s) = "apply" /\ UNCHANGED <<file, enabled, etc, fragments, work>>
        /\ inet' = CompileInet(work[p], etc, expired)
    BY <1>9 DEF Apply, Next1, disk
  <2>2. \/ s = <<"apply", "fragments", "save">> /\ t = <<"fragments", "save">>
           /\ o \in Committing
        \/ /\ t \in Loading /\ o \in {"panicOff"} \cup Loaders
           /\ o = "panicOff" => t = <<"fragments">>
    BY <1>2, <2>1 DEF Move, Loading, Loaders
  <2>3. InFlight(p)'
    <3>1. t \in Applied
      BY <2>2 DEF Applied, Loading
    <3>2. QED
      BY <1>4, <3>1 DEF InFlight
  <2>4. /\ o \in Committing => enabled \/ work[p].panic
        /\ t = <<"fragments", "save">> => enabled \/ o = "panicOn"
    BY <1>0, <2>2, NotKnowing DEF Knows, Committing, Committers, Loaders
  <2>5. Unloaded'
    <3>1. enabled \/ work[p].panic \/ o = "enable"
      BY <1>6, <1>7, <2>2, <2>4 DEF Loaders
    <3>2. inet'.drop = work[p].panic
      BY <2>1 DEF CompileInet
    <3>3. QED
      BY <1>4, <2>1, <3>1, <3>2 DEF Unloaded
  <2>6. o = "enable" => t = <<"fragments", "enable">>
    BY <1>0, <1>1, <2>1, EnableTail
  <2>7. t # <<"disable">> /\ t # <<"apply", "fragments", "save">>
    <3>1. CASE t = <<"fragments", "save">>
      BY <3>1
    <3>2. CASE t \in Loading
      BY <3>2, NotKnowing
    <3>3. QED
      BY <2>2, <3>1, <3>2
  <2>8. Knows(p)'
    BY <1>0, <1>4, <1>6, <1>7, <2>1, <2>4, <2>6, <2>7, KnowsOn
  <2>9. QED
    BY <2>3, <2>5, <2>8
<1>10. CASE ApplyFragments(p)
  <2>1. /\ Head(s) = "fragments" /\ UNCHANGED <<file, enabled, etc, fragments, work>>
        /\ inet' = [inet EXCEPT !.frags = fragments]
    BY <1>10 DEF ApplyFragments, Next1, disk
  <2>2. /\ inet'.frags = fragments /\ inet'.loaded = inet.loaded
        /\ inet'.drop = inet.drop /\ inet'.policy = inet.policy
        /\ inet'.rules = inet.rules /\ inet'.bans = inet.bans
    BY <1>0, <2>1 DEF TypeOK, Table
  <2>3. \/ s = <<"fragments", "save">> /\ t = <<"save">>
        \/ s \in Loading /\ t \in {<<>>, <<"enable">>}
    BY <1>2, <2>1 DEF Move, Loading
  <2>4. InFlight(p)' \/ Agree'
    <3>1. CASE s = <<"fragments", "save">> /\ t = <<"save">>
      <4>1. enabled \/ o = "panicOn"
        BY <1>0, <3>1 DEF Knows
      <4>2. QED
        BY <1>4, <2>1, <3>1, <4>1 DEF InFlight
    <3>2. CASE s \in Loading
      <4>1. Mirrors(work[p]) /\ work[p] = file
        BY <1>0, <3>2, Told
      <4>2. Enforced(file)'
        BY <1>1, <2>1, <2>2, <4>1 DEF Mirrors, Enforced
      <4>3. file'.panic \in BOOLEAN /\ inet'.drop = file'.panic
        BY <1>0, <4>2, EditTypes DEF TypeOK, Enforced, CompileInet
      <4>4. file'.panic => Enforced(PanicState)'
        BY <4>2 DEF Enforced, CompileInet, PanicState, Defaults
      <4>5. QED
        BY <4>2, <4>3, <4>4 DEF Agree
    <3>3. QED
      BY <2>3, <3>1, <3>2
  <2>5. Unloaded'
    BY <1>0, <1>1, <2>1, <2>2 DEF Unloaded
  <2>6. o = "enable" => t = <<"enable">>
    BY <1>0, <1>1, <2>1, EnableTail
  <2>7. t \in {<<>>, <<"enable">>, <<"save">>}
    BY <2>3
  <2>8. t \notin {<<"apply", "fragments", "save">>, <<"fragments", "save">>}
        /\ t # <<"disable">>
    BY <2>7, NotKnowing
  <2>9. Knows(p)'
    BY <1>0, <1>4, <1>6, <1>7, <2>1, <2>6, <2>8, KnowsOn
  <2>10. QED
    BY <2>4, <2>5, <2>9
<1>11. CASE Flush(p)
  <2>1. Head(s) = "flush" /\ UNCHANGED <<file, enabled, work>> /\ inet'.loaded = FALSE
    BY <1>11 DEF Flush, Next1, disk, NoTable
  <2>2. Agree' /\ Unloaded'
    BY <2>1 DEF Agree, Unloaded
  <2>3. t \notin {<<"apply", "fragments", "save">>, <<"fragments", "save">>}
    <3>1. t \in {<<>>, <<"load", "apply", "fragments", "enable">>, <<"disable">>}
      BY <1>2, <2>1 DEF Move
    <3>2. <<"disable">> \notin {<<"apply", "fragments", "save">>, <<"fragments", "save">>}
      OBVIOUS
    <3>3. QED
      BY <3>1, <3>2, NotKnowing
  <2>4. o # "enable"
    BY <1>0, <1>1, <2>1, EnableTail
  <2>5. Knows(p)'
    BY <1>0, <1>4, <1>6, <1>7, <2>1, <2>3, <2>4, KnowsOn
  <2>6. QED
    BY <2>2, <2>5
<1>12. CASE Save(p)
  <2>1. /\ Head(s) = "save" /\ UNCHANGED <<enabled, etc, fragments, inet, work>>
        /\ file' = work[p]
    BY <1>12 DEF Save, Next1, kernel
  <2>2. \/ s = <<"save">> /\ t = <<>> /\ o \in Committing
        \/ /\ s = <<"save", "apply", "fragments">> /\ t = <<"apply", "fragments">>
           /\ o = "panicOff"
        \/ s = <<"save", "flush">> /\ t = <<"flush">> /\ o = "panicOff"
    BY <1>2, <2>1 DEF Move
  <2>3. Agree'
    <3>1. CASE s = <<"save">> /\ (enabled \/ o = "panicOn")
      <4>1. Enforced(work[p])
        BY <1>0, <3>1, Told
      <4>2. Enforced(file)'
        BY <1>1, <2>1, <4>1 DEF Enforced
      <4>3. file'.panic \in BOOLEAN /\ inet'.drop = file'.panic
        BY <1>0, <4>2, EditTypes DEF TypeOK, Enforced, CompileInet
      <4>4. file'.panic => Enforced(PanicState)'
        BY <4>2 DEF Enforced, CompileInet, PanicState, Defaults
      <4>5. QED
        BY <4>2, <4>3, <4>4 DEF Agree
    <3>2. CASE s = <<"save">> /\ ~enabled /\ o # "panicOn" /\ o \in Committing
      <4>1. Agree
        <5>1. s \notin Applied
          BY <3>2 DEF Applied
        <5>2. QED
          BY <1>2, <3>2, <5>1, NotInFlight
      <4>2. inet.loaded => inet.drop
        BY <1>0, <1>2, <3>2 DEF Unloaded, Committing, Committers
      <4>3. inet'.loaded => inet'.drop /\ Enforced(PanicState)'
        BY <1>1, <2>1, <4>1, <4>2 DEF Agree, Enforced
      <4>4. file'.panic \in BOOLEAN
        BY <1>0, EditTypes DEF TypeOK
      <4>5. inet'.loaded /\ file'.panic => Enforced(file)'
        BY <4>3 DEF Enforced, CompileInet, PanicState, Defaults
      <4>6. inet.drop \in BOOLEAN /\ inet'.drop = inet.drop
        BY <1>0, <2>1 DEF TypeOK, Table
      <4>7. inet'.loaded => (inet'.drop = file'.panic => file'.panic)
        BY <4>2, <4>4, <4>6, <2>1
      <4>8. QED
        BY <4>3, <4>5, <4>7 DEF Agree
    <3>3. CASE s \in {<<"save", "apply", "fragments">>, <<"save", "flush">>}
               /\ o = "panicOff"
      <4>1. Agree
        <5>1. s \notin Applied /\ s # <<"save">>
          BY <3>3 DEF Applied
        <5>2. QED
          BY <1>2, <5>1, NotInFlight
      <4>2. file.panic /\ ~file'.panic
        BY <1>0, <1>6, <2>1, <3>3 DEF Knows
      <4>3. inet'.loaded => inet'.drop /\ Enforced(PanicState)'
        BY <1>1, <2>1, <4>1, <4>2 DEF Agree, Enforced
      <4>4. file'.panic \in BOOLEAN
        BY <1>0, EditTypes DEF TypeOK
      <4>5. inet'.loaded => inet'.drop # file'.panic
        BY <4>2, <4>3
      <4>6. QED
        BY <4>2, <4>3, <4>5 DEF Agree
    <3>4. QED
      BY <2>2, <3>1, <3>2, <3>3
  <2>4. Unloaded'
    BY <1>0, <1>1, <2>1 DEF Unloaded
  <2>5. t \in PreSave \cup {<<>>, <<"flush">>}
    BY <2>2 DEF PreSave
  <2>6. t \notin {<<"apply", "fragments", "save">>, <<"fragments", "save">>}
        /\ t # <<"disable">>
    BY <2>5, NotKnowing
  <2>7. o # "enable"
    BY <2>2 DEF Committing, Committers
  <2>8. Knows(p)'
    BY <1>0, <1>4, <1>6, <1>7, <2>1, <2>6, <2>7, KnowsOn
  <2>9. QED
    BY <2>3, <2>4, <2>8
<1>13. CASE SaveConf(p)
  <2>1. /\ UNCHANGED <<file, etc, fragments, inet, work>>
        /\ \/ Head(s) = "enable" /\ enabled' = TRUE
           \/ Head(s) = "disable" /\ enabled' = FALSE
           \/ Head(s) = "conf"
    BY <1>13 DEF SaveConf, Next1, kernel
  <2>2. /\ t = <<>>
        /\ \/ s = <<"enable">> /\ o \in Loaders /\ enabled'
           \/ s = <<"disable">> /\ o \in Stoppers
    BY <1>2, <2>1 DEF Move
  <2>3. Agree'
    <3>1. s \notin Applied /\ s # <<"save">>
      BY <2>2 DEF Applied
    <3>2. QED
      BY <1>1, <1>2, <2>1, <3>1, NotInFlight DEF Agree, Enforced
  <2>4. Unloaded'
    BY <1>0, <2>1, <2>2 DEF Unloaded, Knows
  <2>5. t \notin {<<"apply", "fragments", "save">>, <<"fragments", "save">>}
        /\ t # <<"disable">>
    BY <2>2, NotKnowing
  <2>6. o \notin {"panicOn", "panicOff"} /\ (o = "enable" => enabled')
    BY <2>2 DEF Loaders, Stoppers
  <2>7. Knows(p)'
    BY <1>0, <1>4, <2>1, <2>2, <2>5, <2>6, KnowsOn
  <2>8. QED
    BY <2>3, <2>4, <2>7
<1>14. ~WriteEtcDefault(p) /\ ~Backup(p) /\ ~IfEnabled(p) /\ ~ReadEtc(p)
  BY <1>2 DEF Move, WriteEtcDefault, Backup, IfEnabled, ReadEtc, Next1
<1>15. QED
  BY <1>8, <1>9, <1>10, <1>11, <1>12, <1>13, <1>14 DEF Call

(* A command that ends in flight would leave the kernel ahead of the file: *)
(* it is the failing save and the kill that Steady leaves out.             *)
LEMMA StepEnd ==
  ASSUME Steady, StepInv, NEW p \in Proc, Return(p) \/ Fail(p) \/ Kill(p)
  PROVE  ((\E q \in Proc : InFlight(q)) \/ Agree)' /\ Unloaded'
         /\ \A q \in Proc : Knows(q)'
<1>0. /\ TypeOK /\ Holding /\ Guarded /\ Knows(p) /\ Unloaded /\ ~Kill(p)
      /\ {"save", "enable"} \cap Faults = {}
  BY SteadyOps DEF StepInv, EnforceInv, Steady, Kill
<1>1. /\ op'[p] = "none" /\ plan'[p] = <<>> /\ UNCHANGED <<file, fragments, expired>>
      /\ lock' = IF lock = p THEN Free ELSE lock
      /\ \A q \in Proc \ {p} : /\ op'[q] = op[q] /\ plan'[q] = plan[q]
                               /\ work'[q] = work[q]
  BY <1>0 DEF Return, Fail, Kill, Release, TypeOK, disk
<1>2. Knows(p)'
  BY <1>1, RestKnows
<1>3. CASE lock # p
  <2>1. (op[p] = "none" /\ plan[p] = <<>>) \/ Waits(p)
    BY <1>0, <1>3, Others
  <2>2. plan[p] # <<>> => Head(plan[p]) = "lock"
    BY <2>1 DEF Waits
  <2>3. UNCHANGED <<enabled, etc, inet, lock>>
    BY <1>1, <1>3, <2>2 DEF Return, Fail, Kill, disk, kernel
  <2>4. ASSUME NEW q \in Proc \ {p} PROVE Knows(q)' /\ (InFlight(q) => InFlight(q)')
    BY <1>1, <2>3 DEF StepInv, Knows, InFlight
  <2>5. ~InFlight(p) /\ (Agree => Agree')
    BY <1>1, <1>3, <2>3 DEF InFlight, Agree, Enforced
  <2>6. Unloaded'
    BY <1>0, <1>1, <1>3, <2>3 DEF Unloaded
  <2>7. QED
    BY <1>2, <2>4, <2>5, <2>6 DEF StepInv
<1>4. CASE lock = p
  <2>1. ASSUME NEW q \in Proc PROVE Knows(q)'
    BY <1>0, <1>1, <1>2, <1>4, OthersKnow
  <2>2. CASE Return(p)
    <3>1. plan[p] = <<>> /\ UNCHANGED <<enabled, etc, inet>>
      BY <2>2 DEF Return, Done, disk, kernel
    <3>2. <<>> \notin Applied /\ <<>> # <<"save">>
      BY DEF Applied
    <3>3. Agree'
      BY <1>1, <1>4, <3>1, <3>2, NotInFlight DEF Agree, Enforced
    <3>4. op[p] = "enable" => enabled
      BY <1>0, <3>1 DEF Knows
    <3>5. Unloaded'
      BY <1>0, <1>1, <1>4, <3>1, <3>4 DEF Unloaded
    <3>6. QED
      BY <2>1, <3>3, <3>5
  <2>3. CASE Fail(p)
    <3> DEFINE s == plan[p]
    <3>1. s # <<>>
      BY <2>3 DEF Fail
    <3>2. /\ op[p] # "none" /\ op[p] \notin Setters /\ op[p] # "reset"
          /\ op[p] \in Locked \cup {"rule"} /\ Follows(op[p], s)
      <4>1. op[p] # "none" /\ op[p] \in Ops /\ Follows(op[p], s)
        BY <1>0, <1>4 DEF Holding
      <4>2. QED
        BY <1>0, <4>1, SteadyOps DEF Guarded
    <3>3. Move(op[p], s, Tail(s))
      BY <3>1, <3>2, Moves
    <3>4. CASE Head(s) = "fragments"
      <4>1. inet'.loaded = FALSE
        BY <2>3, <3>4 DEF Fail, NoTable
      <4>2. QED
        BY <2>1, <4>1 DEF Agree, Unloaded
    <3>5. CASE Head(s) # "fragments"
      <4>1. /\ Head(s) # "lock" /\ Head(s) # "etc" /\ Head(s) # "conf"
            /\ Head(s) = "disable" => s = <<"disable">>
        BY <3>2, <3>3 DEF Move
      <4>2. /\ Head(s) # "save" /\ Head(s) # "enable"
            /\ UNCHANGED <<inet, etc>>
            /\ Head(s) # "disable" => UNCHANGED enabled
        BY <1>0, <2>3, <3>5, <4>1 DEF Fail, kernel
      <4>3. s \notin Applied /\ s # <<"save">>
        <5>1. Head(<<"save">>) = "save" /\ \A a \in Applied : Head(a) = "fragments"
          BY DEF Applied
        <5>2. QED
          BY <3>5, <4>2, <5>1
      <4>4. Agree'
        BY <1>1, <1>4, <4>2, <4>3, NotInFlight DEF Agree, Enforced
      <4>5. Head(s) = "disable" => ~inet.loaded
        BY <1>0, <4>1 DEF Knows
      <4>6. op[p] = "enable" => ~inet.loaded
        BY <1>0, <3>1, <3>5, <4>2, EnableTail
      <4>7. Unloaded'
        BY <1>0, <1>1, <1>4, <4>2, <4>5, <4>6 DEF Unloaded
      <4>8. QED
        BY <2>1, <4>4, <4>7
    <3>6. QED
      BY <3>4, <3>5
  <2>4. QED
    BY <1>0, <2>2, <2>3
<1>5. QED
  BY <1>3, <1>4

LEMMA StepStep == ASSUME Steady, StepInv, [Next]_vars PROVE StepInv'
<1>1. TypeOK /\ Holding /\ EnforceInv'
  BY SteadyOps, EnforceStep DEF StepInv, EnforceInv
<1>2. CASE Reboot
  <2>1. inet'.loaded = FALSE
    BY <1>2 DEF Reboot, NoTable
  <2>2. ASSUME NEW q \in Proc PROVE Knows(q)'
    BY <1>2, RestKnows DEF Reboot
  <2>3. QED
    BY <1>1, <2>1, <2>2 DEF StepInv, Agree, Unloaded
<1>3. CASE Expire \/ UNCHANGED vars
  <2>1. /\ expired \subseteq expired'
        /\ UNCHANGED <<file, enabled, etc, fragments, inet, lock, op, plan, work>>
    BY <1>3 DEF Expire, vars, disk, kernel, procs
  <2>2. \A st : Enforced(st) => Enforced(st)'
    BY <2>1 DEF Enforced
  <2>3. Agree => Agree'
    BY <2>1, <2>2 DEF Agree, PanicState, Defaults
  <2>4. ASSUME NEW q \in Proc PROVE Knows(q)' /\ (InFlight(q) => InFlight(q)')
    BY <2>1 DEF StepInv, Knows, InFlight
  <2>5. Unloaded'
    BY <2>1 DEF StepInv, Unloaded
  <2>6. QED
    BY <1>1, <2>3, <2>4, <2>5 DEF StepInv
<1>4. ASSUME NEW p \in Proc, Handler(p) \/ Call(p) \/ Fail(p) \/ Kill(p) PROVE StepInv'
  BY <1>1, <1>4, StepHandler, StepCall, StepEnd DEF StepInv
<1>5. QED
  BY <1>2, <1>3, <1>4 DEF Next

(* Whenever the flock is free, an enabled firewall that is loaded and      *)
(* agrees with rules.json about panic enforces rules.json (KernelInStep),  *)
(* however many commands race and whichever other call of theirs fails, if *)
(* they apply before they save and neither a save, the writing of ENABLED  *)
(* nor the process itself is cut off.                                      *)
THEOREM KernelStaysInStep == ASSUME Steady PROVE Spec => []KernelInStep
<1>1. Init => StepInv
  <2> SUFFICES ASSUME Init PROVE StepInv
    OBVIOUS
  <2>1. \A p \in Proc : op[p] = "none" /\ plan[p] = <<>> /\ lock # p
    BY FirewallAssumption DEF Init
  <2>2. EnforceInv
    BY EnforceInit
  <2>3. ~inet.loaded
    BY DEF Init, NoTable
  <2>4. ASSUME NEW p \in Proc PROVE Knows(p)
    <3>1. plan[p] # <<"disable">>
          /\ plan[p] \notin {<<"apply", "fragments", "save">>, <<"fragments", "save">>}
      BY <2>1
    <3>2. QED
      BY <2>1, <3>1 DEF Knows
  <2>5. QED
    BY <2>2, <2>3, <2>4 DEF StepInv, Agree, Unloaded
<1>2. Steady /\ StepInv /\ [Next]_vars => StepInv'
  BY StepStep
<1>3. StepInv => KernelInStep
  BY FreeAgrees DEF KernelInStep, Agree
<1>4. QED
  BY <1>1, <1>2, <1>3, PTL DEF Spec
=============================================================================
