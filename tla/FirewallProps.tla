---------------------------- MODULE FirewallProps ----------------------------
(***************************************************************************)
(* The correctness properties of the commands in Firewall.                 *)
(***************************************************************************)
EXTENDS Firewall

(* What the inet table must hold when it enforces st; entries that expired *)
(* since may still be in it, the sweep has up to a minute to notice.       *)
Enforced(st) ==
  LET ideal == CompileInet(st, etc, {}) IN
  /\ inet.loaded
  /\ inet.drop = ideal.drop
  /\ inet.policy = ideal.policy
  /\ inet.rules \subseteq ideal.rules /\ ideal.rules \ expired \subseteq inet.rules
  /\ inet.bans \subseteq ideal.bans /\ ideal.bans \ expired \subseteq inet.bans
  /\ inet.frags = fragments

Applying == {"nat", "rule", "default", "logging", "import", "reload", "bootLoad"}

Enforcing == Applying \cup {"threat", "sweep", "panicOn", "panicOff"}

(* p makes the last call of its plan, after which it exits with 0. *)
LastCall(p) == plan[p] # <<>> /\ plan'[p] = <<>> /\ op'[p] = op[p]

(* Whatever failed, was killed or was interleaved before: when a command   *)
(* that changes what is enforced has made its last call, and so exits with *)
(* 0, and the firewall is enabled, then the kernel enforces exactly what   *)
(* rules.json holds (commitState, cmdPanic, cmdDefault, cmdLogging,        *)
(* cmdReload, cmdBootLoad, applyImportedState; appUpdate if its last call  *)
(* is the apply's).  It is not claimed of commands that make no call, as a *)
(* sweep with nothing to drop; of app update over ssh, which saves, does   *)
(* not apply and exits with 0, nor of app update all and app default; of   *)
(* enable, which keeps the table it finds; nor of the commands that unload *)
(* (disable, reset, bootUnload).                                           *)
SuccessMeansEnforced ==
  [][\A p \in Proc :
       /\ LastCall(p) /\ enabled'
       /\ op[p] \in Enforcing \/ (op[p] = "appUpdate" /\ Next1(p, "fragments"))
       => Enforced(file)']_vars

(* commitState applies before it saves, so that an apply error leaves      *)
(* neither rules.json ahead of the kernel nor the kernel ahead of          *)
(* rules.json: when nobody holds the lock, an enabled firewall that is     *)
(* loaded and agrees with rules.json about panic enforces rules.json.      *)
KernelInStep ==
  lock = Free /\ enabled /\ inet.loaded /\ inet.drop = file.panic => Enforced(file)

(* On an enabled firewall no command stores a state that compile() rejects:*)
(* it would make every later command and the next boot fail.               *)
NoWedge == [][enabled /\ Compiles(file) => Compiles(file')]_file

(* While rules.json says panic, no ruleset that lets traffic through is    *)
(* ever loaded, not even between two calls of a command: panic on applies  *)
(* first and saves after, panic off saves first and applies after.         *)
PanicEnforced == file.panic /\ inet.loaded => inet.drop

(* Panic mode is ended by the commands that say so and never as the side   *)
(* effect of a concurrent command writing back an older copy of the state. *)
PanicStands ==
  [][file.panic /\ ~file'.panic =>
       \E p \in Proc : op[p] \in {"panicOff", "import", "reset"}
                       /\ (Next1(p, "save") \/ Next1(p, "backupRules"))]_file

(* Every change of rules.json is one command's edit of its current         *)
(* contents: no command loses what another has stored.                     *)
Promise == INSTANCE Transactions WITH store <- file, lapsed <- expired
NoLostUpdate == Promise!TSpec

(* A threat ban leaves rules.json when it expires, or by a threat update,  *)
(* an import or a reset, and not because some other command ran.           *)
BansStay ==
  [][\A b \in file.bans \ file'.bans :
       b \in expired \/ \E p \in Proc : op[p] \in {"threat", "import", "reset"}
                                        /\ lock = p]_file

(* The sweep takes every rule and ban whose time is over out of the        *)
(* kernel, if from some time on no call fails and no process is killed; a  *)
(* rule command may go on to find the flock taken.                         *)
CallFails(p) == Fail(p) /\ ~Next1(p, "lock")

ExpiryEnforced ==
  <>[][~\E p \in Proc : CallFails(p) \/ Kill(p)]_vars =>
    \A x \in Rule \cup Ban : x \in expired ~> x \notin inet.rules \cup inet.bans
=============================================================================
