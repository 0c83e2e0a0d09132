---------------------------- MODULE Transactions ----------------------------
(***************************************************************************)
(* What the commands promise about rules.json, concurrency left out: every *)
(* change is one command's edit of the current contents, taken whole.  An  *)
(* edit may drop entries that have expired, never anything else another    *)
(* command has stored.                                                     *)
(***************************************************************************)
EXTENDS Ruleset

CONSTANT Docs            \* the documents an import may read

VARIABLES store,         \* the contents of rules.json
          lapsed         \* the rules and bans whose time is over

tvars == <<store, lapsed>>

(* The contents one command may leave behind, before the expiry sweep. *)
RuleEdits(st) ==
       {[st EXCEPT !.rules = (@ \ {old}) \cup {r}] : old \in Rule, r \in Rule}
  \cup {[st EXCEPT !.rules = @ \ {r}] : r \in Rule}

NATEdits(st) ==
       {[st EXCEPT !.nat = @ \cup {n}] : n \in NATRule}
  \cup {[st EXCEPT !.nat = @ \ {n}] : n \in NATRule}

BanEdits(st) ==
       {[st EXCEPT !.bans = @ \cup {b}] : b \in Ban}
  \cup {[st EXCEPT !.bans = @ \ {b}] : b \in Ban}

ModeEdits(st) ==
       {[st EXCEPT !.panic = on] : on \in BOOLEAN}
  \cup {[st EXCEPT !.policy = pol] : pol \in Policy}

Imports(st) == {Import(st, doc, replace) : doc \in Docs, replace \in BOOLEAN}

Edits(st) == RuleEdits(st) \cup NATEdits(st) \cup BanEdits(st)
               \cup ModeEdits(st) \cup Imports(st) \cup {Defaults, st}

TInit == store = Defaults /\ lapsed = {}

Commit ==
  /\ \E st \in Edits(store), gone \in SUBSET lapsed : store' = Sweep(st, gone)
  /\ UNCHANGED lapsed

Lapse ==
  /\ \E x \in Rule \cup Ban : lapsed' = lapsed \cup {x}
  /\ UNCHANGED store

TNext == Commit \/ Lapse

TSpec == TInit /\ [][TNext]_tvars
=============================================================================
