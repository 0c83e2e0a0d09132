# A TLA+ verification project for better-firewall

`bfw` is a host firewall for Linux: a ufw-compatible command line whose state is
a JSON file that is compiled to nftables.  It has no daemon for its rules; every
command is a process of its own.  What can go wrong is between those processes
(they share files, a lock and the kernel's tables), between two calls of one of
them (one fails, the process is killed, the machine reboots), and in the one
service it does have, `bfw protect`, which bans addresses it reads from the
journal or from CrowdSec.  And what it is all for is the verdict on a packet: the
chains that a state compiles to, and the states that imports and migrations from
other firewalls make.  These modules model that, TLC checks them on small
instances, and TLAPS proves the main safety properties for all instances.

## 1. Inventory

| part (under `src/`) | state | operations | what makes it correct |
|---|---|---|---|
| state store (`internal/store`) | `rules.json`, `better-firewall.conf`, `/etc/default/better-firewall` | Load, Save (temporary file, rename), SaveConf and WriteEtcDefault (in place) | a reader sees a whole state; a change of one key keeps the others |
| lifecycle (`internal/cli/commands_lifecycle.go`) | `ENABLED`, fragments, the flock | enable, disable, reload, reset, default, logging, boot-load, boot-unload | success means the kernel enforces the file |
| rules engine (`commands_rules.go`) | the rule lists | insert, prepend, delete, by number; `commitState`; expiry sweep | no lost update; file and kernel in step; positions |
| sets, NAT, panic, sweep, toggle (`commands_ext.go`) | named sets, NAT rules, panic flag | set create/add/del/destroy, nat add/delete, panic, sweep, rule enable/disable | panic holds until it is ended; a set in use stays |
| application profiles (`commands_app.go`, `internal/appprof`) | app rules, app policy | app update, app default | a group is regenerated once, others untouched |
| protection (`commands_protect.go`, `internal/protect`) | failure windows, pending batch, threat bans | Observe, ScanJournal, Stream, applyThreatUpdate | bans exactly when due; the list mirrors CrowdSec |
| nft backend (`internal/backend/nft`) | the kernel tables | compile, Apply, Flush, readback, render | tables replaced whole; intervals right |
| import, migration (`internal/impexp`, `commands_impexp.go`, `commands_migrate.go`) | - | import, import-ufw, other importers, migrate | merge keeps what it should; a takeover never leaves the host open |
| parser, rule type, services, report, status, packaging | - | - | sequential or read-only |

How they interact.  A command takes the flock (`acquireLock`, never waiting),
loads `rules.json`, edits its copy, and calls `commitState`: compile and apply
one netlink batch if the firewall is live, load the administrator's fragments,
save.  Several commands deviate: rule commands load *before* they lock, `app
update` and `app default` never lock, `default`, `logging`, `import` and `panic
off` save before they apply, `panic on` applies even a disabled firewall.
`bfw protect` runs two goroutines that use the same lock and file.  The sweep
timer runs `bfw sweep` every minute; systemd runs `boot-load` at boot.

Hard behaviour: the interleaving of processes over the lock and the file;
partial failure of a plan of calls; kill and reboot between any two of them;
files written in place; a lock that is only tried; expiry in the middle of a
retry; lost answers of a server that keeps a cursor; restarts of a service that
keeps its bookkeeping in memory.  `PROJECT.json` lists each hazard at its line.
Some have no property, because the code does go wrong there in a way that its
documentation does not rule out; the model takes those steps where a run's bounds
let it, and section 3 describes what comes of them.

## 2. Modules

| module | models |
|---|---|
| `Ruleset` | the stored state, the sweep, the import, the compilation: pure functions |
| `Transactions` | abstract: each change of `rules.json` is one command's edit of its current contents |
| `Firewall` | all commands as processes over the files, the flock and the kernel |
| `FirewallProps` | its properties, among them that it implements `Transactions` |
| `FirewallInv` | the inductive invariants of its proofs |
| `MCFirewall` | its instances for TLC |
| `Firewall_proof` | its theorems |
| `Jails`, `Windows` | the jails; abstract: failures since the last ban, none forgotten |
| `Detector` | `Detector.Observe` and `prune` |
| `DetectorHistory` | `Detector` with a history variable, which implements `Windows` |
| `MCDetector` | its instances |
| `Protect` | the poller, the journal reader, systemd and CrowdSec's LAPI (external) |
| `MCProtect` | its instances |
| `RuleLists` | `setRuleEngine` and the numbering of rules: pure functions |
| `RuleEngine` | the rule commands, `app update` and the sweep on the lists of both families |
| `RuleProps` | their properties, and `setRuleEngine`'s loop entry by entry |
| `MCRuleEngine`, `RuleEngine_proof` | instances, theorems |
| `Addresses` | networks, `mergeIntervals` and the elements of interval sets, with their wrap-around |
| `Compile` | the whole inet table: every chain and rule that `compile` makes of a state |
| `Filter` | the kernel (external) walking that table, while states replace each other |
| `Promise` | abstract: a packet gets the verdict that the state in force calls for |
| `Verdicts` | that verdict, from policies, rules, bans and the packets on which users have no say |
| `Check` | the warnings of `bfw check` about shadowed rules and lockouts |
| `FilterProps`, `MCFilter` | their properties, among them that `Filter` implements `Promise`, and the inductive invariant of the walk; instances |
| `SequenceLemmas` | lemmas on least counterexamples, folds, flattened and sorted sequences, which `Filter_proof`, `RuleEngine_proof`, `Objects_proof`, `Importers_proof` and `Zones_proof` rest on |
| `Filter_proof` | lemmas on the intervals of a set and on what compiling a rule, a list and a chain gives; the theorems about the walk and the warnings of `check` |
| `Objects` | sets, NAT rules, rules with ids and switches, exported and imported documents |
| `ObjectsProps`, `MCObjects`, `Objects_proof` | properties, instances, theorems |
| `Migrate` | `bfw migrate` call by call, beside the manager it takes over from |
| `MigrateProps`, `MCMigrate` | properties, instances |
| `Services_proof` | theorems about `Protect`, `DetectorHistory` and `Migrate` |
| `Merge` | how the rules of an import join those that are there: pure functions |
| `Iptables`, `Nftables`, `Firewalld` | what an import makes of the files of iptables-persistent, of `nft -j list ruleset` and of firewalld's configuration: pure functions |
| `Importers` | imports in a row, of all three, into the stored state |
| `ImportersProps`, `MCImporters` | what iptables, nft and firewalld do with a packet, and what an import keeps of it; instances |
| `Importers_proof` | theorems about `Merge`, about what imports make the state of, and about dumps and rulesets |
| `Zones_proof` | lemmas on firewalld's templates, services, zones and policies; the theorem about configurations |

### Firewall

A process `p` runs one command at a time.  `op[p]` names it, `work[p]` is its
copy of the state, and `plan[p]` the calls its handler still has to make, in the
handler's order: `"apply"` is `be.Apply`, `"fragments"` the fragment files,
`"save"` `Store.Save`, `"ifEnabled"` the handler's `if !conf.Enabled { return }`
and so on.  A handler (`NatAdd`, `CmdDefault`, ...) takes the lock, loads, edits
and fixes the plan; that these happen in one step is sound because the flock
keeps the other locking commands out and what they read is read under it.  The
handlers that read outside the lock have steps of their own (`LoadForRule` then
`LockForRule`; `LoadForApp`; `ReadEtc` then `WriteEtcDefault`).  Each call is one
step; `Fail`, `Kill` and `Reboot` may come before any of them.  A rejected
fragment flushes the tables, as in `applyRuleset`; a file written in place may be
left empty by a failure or a kill, which reads as disabled, or as the
installation policy.  `Save` is atomic (a rename).

The data is abstract.  Rules, NAT rules and bans are identities; the three
directions are one, whose policy at installation is `InstallPolicy`; the four
fragment files are one boolean; a rule that `compile` rejects is in
`Uncompilable`.  An import merges as a union.  `app update` has the handler's
three endings: save and apply, save only (over ssh), and neither (`all`).

### Detector

`failures[k]` is the slice of a jail and address as a set of numbered failures;
`Observe` prunes, trims, counts and deletes as the code does, in that order.
Time is a tick; `PruneEvery` is the minute between prunings.  A message counts
for the jails that match its identifier and read an address from it.

### Protect

`pending` and `startup` are `pollCrowdSec`'s variables; `due` is the ban the
detector returned and `ScanJournal` has not applied yet.  `created`, `active`,
`over`, `fresh` and `gone` are CrowdSec's: what it decided, what is in force,
whose time has passed, and what this bouncer has yet to be told, as
`docs/crowdsec-lapi-research.md` describes the stream endpoint.  `missed` is a
history variable: what was in an answer the client lost since the last
snapshot.  A commit is one step here, since its failure points are `Firewall`'s.

### RuleEngine

A rule applies a template (addresses, interfaces, direction, applications) to an
item (protocol and ports); both together are `TupleKey`, and `Tuple` and `Ends`
give the parts of a template that name a group and that an insertion compares.
`RuleLists!SetRule` defines what `setRuleEngine` returns by the set of matches
and the first slot that splits no group; `RuleProps!Loop` is the code's one pass
with its flags, and `LoopAgrees` compares them on every list that arises.  An
expiry is `never`, `later` or `past`, and `Expire` turns all of `later` into
`past`.  A command is one step, since loading, locking, applying and saving are
`Firewall`'s.  IPv6 is on.  Left out: `Disabled` and the ids, which these
commands carry along, profiles for both ends of a rule, and the wording of
outcomes, of which only the kind is kept.

### Filter, Compile, Check

A packet is a record of what the expressions of a rule look at; a rule of a chain
is the set of packets it matches (`on`) and what it does (`do`, `to`), so that the
expressions of a rule are sets that are intersected.  `Chain(st, name)` is the
list of rules that `compile` adds to a chain, in its order; chains are named by
part and direction (`<<"before", "in">>` is `bfw-before-input`).  `Filter` walks
them as nf_tables does.  What depends on time is part of the packet: `over` says
that it exceeds a rule's 6 a minute, `calm` that fewer than 3 messages a minute
have been logged.  `Verdicts!Judge` says in a dozen lines, from the documentation
of the rules and without chains, what is to come out.  The policies in force are
those of `/etc/default/better-firewall`, which `compile` puts in the place of the
stored ones; its values are always there, since `EtcDefaults` has built-in ones.

An address space is `0 .. Top - 1`; an interval ends before its `end`, computed
modulo `Top` as `addOne` does.  Elements are merged as in `mergeIntervals`.

### Objects

An id is a number that is never given twice (`NewID` is random), 0 an empty one.
The halves of a rule for both families have one id and the items of a profile one
each, as `expandAppRules` gives them.  `Loads` is what `compile` refuses of all
this: two sets whose names give one kernel set (`x6` and the IPv6 half of `x`), a
rule in force that refers to a set that is gone, a translation into the other
family.  `CommitState` loads before it stores when the firewall is enabled.
Files and the flock are `Firewall`'s, positions `RuleEngine`'s.

### Migrate

`pc` is the call that `cmdMigrate` makes next, from the lock to the handoff and
the three calls that undo it.  Each may fail, having done nothing, all or a part;
the command may be killed at each; a reboot starts what is enabled at boot; other
managers are started and stopped by others at any time, also between the second
detection and the stop; other bfw commands run when the flock is free, and at any
time `app update` and `app default`, which never take it (`Unlocked`): they save or
load a copy that they read at any time before.  The migration that writes
`better-firewall.conf` in place may leave there the old `ENABLED`, none, which reads
as no, or the new one, when the write fails and when it is killed (`TornConf`,
`CutShort`).  A state
is the set of the sources its rules come from, and a file that is not there
(`Absent`) differs from one without rules.  `failed` keeps the calls whose failure
only prints a warning.  `MigrateProps` adds `start`, the host as the takeover
found it under the flock, forgotten when others have worked on it, and `crossed`,
which says that one of the two app commands has saved since the migration last read
or wrote `rules.json`.

### Importers

A state is read as its rules, sets, policies and IPv6; ids are in `Objects`.  A
file is what its syntax says, as a record; `odd` stands for any of the many parts
that are refused wherever they stand.  Each importer is a predicate (`Refused`,
`NftRefused`, `FwRefused`) and a function (`Merged`, `NftMerged`, `FwMerged`), as
the code checks before it touches its copy of the state.  `imported` remembers what
was imported, and into what.

In `Iptables` a dump is a list of lines (a policy, an appended rule, an inserted
rule).  `ParseSave` builds the chains, `Outcome` says what becomes of a rule (an
error that stops the import, the end of its chain, nothing, or a user rule),
`Merged` makes one policy and a last rule of the policies of both families.

In `Nftables`, `Catalogued` is the first pass (one chain for each family and hook,
policies that agree, families that are covered), `ConvertRule` the second:
`nftConv` with its restriction to families, folded over the expressions of a rule.

In `Firewalld`, `Effective` lays `/etc/firewalld` over `/usr/lib/firewalld`, file
by file; services take in what they include; a template (`fwTmpl`) of an element
of a zone becomes a rule for each binding of the zone (`Meet`, `EmitFor`) and for
each family.  The files are those that firewalld takes: the addresses that a service
gives for a family are of that family, which the importer does not ask.

`ImportersProps` models the three firewalls themselves: chains as iptables-restore
leaves them, nft's chains by family, firewalld's dispatch to one zone, where
denials go before what is accepted.

## 3. Runs

Passing:

| run | asks | instance |
|---|---|---|
| `locked` | panic never leaks and never ends by accident, bans stay, no update is lost | 2 processes, all locking commands, one rule, NAT rule and ban, two documents, every fault |
| `single` | the last call of a command that changes what is enforced, after which it exits with 0, leaves the kernel of an enabled firewall enforcing the file | 1 process, all commands, every fault |
| `commit` | a loaded table is the one the file compiles to; no state is stored that cannot be loaded; what expired leaves the kernel | 2 processes, rule, threat, sweep, load and unload commands, 2 rules of which one does not compile, one ban; apply, fragments, flush and reboot fail; fair |
| `windows` | the detector bans exactly when due and frees memory | 2 jails (2 in 1 tick, 3 in 3), 2 addresses, time to 5, 4 counting messages, pruning every 2 |
| `crowdsec` | nothing is lost or stale between CrowdSec and the file, which comes to mirror it | 3 decisions, one of them rejected, one address, every fault; fair |
| `rules` | a rule command changes what it names, in both families, and nothing else; no copies; groups stay together | at most 5 rules (`MaxRules`), 3 items, plain rules and one application whose profile has one entry, two or none |
| `filter` | the chains do to each packet what `Judge` says, bans cut flows that are up, sets load, the warnings of `check` are true | 48 stored rule lists and their combinations with policies, levels, bans, a set, panic and IPv6 off; about 90 packets of every kind; 16 addresses; any state may replace another between two packets |
| `objects` | ids stay those of one rule, what loads stays loadable, a switch hits the rule of the number shown with its half and nothing else, merging is idempotent and takes nothing away | any 4 changing commands in a row, a port, a profile of two items, two set names that are twins, three NAT rules of which two mix families, one so that it could not be loaded, three written documents, one with an id of its own, and every exported one, ufw files; at most 3 ids |
| `migrate` | a takeover happens whole or is undone, overwrites nothing but what an app command saved meanwhile, leaves no bare host | two managers, every option, every fault, any number of migrations in a row, app commands whose copy is that of before any import (`Copies`); fair |
| `importers` | what the source said to a new connection the imported state says; what it did not mention stays; rules that were there go first | dumps of up to two rules in a chain, of every accepted kind and of thirteen refused ones, every policy, both families; rulesets of any two of 20 conditions, of two rules, of chains of every family; zones with two elements, two bindings or two zones, services that include one another, policies and sets; 19 stored states, some with rules, one with a set |

Violations, each a disagreement of the code with its own documentation, quoted
under `findings`:

| run | shows |
|---|---|
| `stale_rule` | a rule command writes back the copy it loaded before it locked, and so undoes a ban |
| `policy_dropped` | an imported `OUTPUT DROP` is stored and not enforced: `/etc/default/better-firewall`, or its built-in value, still says accept |

More disagreements and surprises, met while modelling and without a run of their
own.

Of the commands: `panic` on a firewall that was disabled in panic mode prints
"Already in panic mode", exits with 0 and loads nothing (`commands_ext.go:1041`);
when the last NAT rule is deleted, or panic compiles none, the NAT tables stay in
the kernel, because only tables named in the new ruleset are deleted
(`apply.go:43`); a rule that does not compile goes unnoticed under panic and then
`panic off` stores a state that cannot be loaded (`commands_ext.go:1075`), as does
an imported document that says panic the other way round: it is stored over an
open ruleset; a CrowdSec batch with a ban that ran out before it was applied is
rejected whole and retried for ever (`commands_protect.go:136,248`);
`import --replace` and `reset` drop the CrowdSec bans, and the running poller asks
only for what is new; an unreadable `better-firewall.conf` counts as disabled
(`live()`), so that `panic off` flushes.  `app update` and `app
default` write without the lock (`commands_app.go:173,454`), so that `app
default` can put back a policy that `default` has just changed (it rewrites the
whole file), and `app update` over ssh saves, does not load what it saved, and
exits with 0; `reload` flushes before it loads, and a load that fails leaves an
enabled firewall without rules, as a rejected fragment does, under panic too;
`enable` keeps a table that is loaded, though it may be older than `rules.json`; a
write of `better-firewall.conf` that is cut leaves an enabled firewall disabled; prompts wait with the flock held, while every
sweep and ban gives up; `reset` leaves `/etc/default/better-firewall`, whose policies are
the ones enforced, and the drop-all table of a panic on a disabled firewall;
`import` saves before it applies, and so can store what does not compile; when
the save fails after the apply, the ban is in the kernel and the sweep, which
looks in `rules.json`, never removes it; an answer of CrowdSec's that the client
cannot read is not asked for again until a snapshot is; a jail's ban is dropped
with the failures it was made from when the lock is taken (`journal.go:47`,
`detector.go:97`), and the address has to fail as often again; when the journal
reader ends with an error, `cmdProtect` first waits for `journalctl`, which may
follow for ever (`commands_protect.go:71`).

Of the rule commands: `insert NUM` lands at another displayed number when
groups of several rules come before it, since numbers count a group once and
positions count rules (`cli.go:126`); a dual positional insertion of an
application's group does not come out in the profile's order in IPv6
(`commands_rules.go:129`); rules of different sets share an `AppTuple`
(`rule.go:171`), so that deleting or updating the group of one takes the
other; `app update` generates twice two interleaved groups of one application
(`commands_app.go:259`); `app update all` reports the updates and saves none; a
rule with an expiry that is added again without one still expires, because the
rule is "skipped"; a deletion of a group with mixed actions stops at the first
rule of another one.  A dual insertion places the IPv6 half at the twin's
place, and subtracts the number of IPv4 rules from it a second time when it
exceeds that (`commands_rules.go:291-293`), so that with IPv6-only rules it comes
too far up.

Of the objects: `rule enable` and `rule disable` read the IPv4 list at the place
of an IPv6 rule before they ask which list was meant (`commands_ext.go:1184`), and
panic when that list is shorter, so that `Objects!Crashes` ends the command;
`import --replace` stores rules without ids as they are, and switching one of
them switches all of them; a merge takes an id for free when the list of its family
has no rule with it (`idUsed`, `impexp.go:174`), so that a document with the id of a rule of
the other family links two rules (`IdsApart`); an import saves before it loads, and so can bring sets
whose names collide, though `set create` refuses them; a rule command does not
ask whether a set exists, and a disabled firewall stores a rule that cannot be
loaded, although `compile.go:525` says that lookups never reference a missing
set; toggling a number of an application hits the rules of one family; a
masquerade without a source is for IPv4 only.

Of the table: `mergeIntervals` compares the wrapped end of a network that
reaches the last address with the end of another (`compile.go:610`), so that a ban
on it and one inside it overlap, and the batch is refused, and so that of two networks side by side of
which the second reaches the last address (`0.0.0.0/1`, `128.0.0.0/1`) the second
is lost, which is then not banned; the set of ports of one
rule is not merged at all (`portExprs`); a rule of two applications, one with tcp
ports and one with udp ports, is compiled for both protocols, each with the ports
of one side only (`commands_app.go:341`, `compile.go:833`); `addrSuperset` ignores ports where a set
is named, although the comment above it says that both have to match, so that
`check` calls a rule for another port shadowed; `check` looks at the stored input
policy, and the one enforced is that of `/etc/default`; its test for ssh ignores
the sources of the rule and the denials before it, so that a lockout may go
unreported.

Of migrations: the second detection comes before a prompt without a time limit; what
`app update` or `app default` save during that prompt the migration then saves
over, and a copy that they read before it undoes an import that is done; a
takeover of a host on which bfw was already enabled, if it fails, leaves it
enabled and its tables flushed, or disabled, when it was the write of
`better-firewall.conf` that failed (`store.go:201`): nothing puts that file back, and
on a host that was disabled it may then say yes of a firewall that is off; the source is enabled at boot afterwards even if
it was only running before; "bfw state was restored" is printed also when it was
not (`commands_migrate.go:136`); killed between stop and enable, neither filters;
starting or stopping `nftables.service` flushes bfw's tables as well, which is why
`kernel` may become empty whenever a manager changes.

Of imports: two rules with the same conditions and other verdicts are one to
`mergeRules`, which takes the second for an update of the first (`Contradicts`,
`Rivals`); rules about packets that the before chains answer, such as a dropped
ping, never apply; a merge keeps the switch and the expiry of the rule it replaces.
From iptables: a last rule that is disabled still counts as the policy
(`iptables.go:1191`), and rules of a later import come after the last rule of an
earlier one; the warning at `iptables.go:125` cannot be printed, since line 104 has
just set `IPv6`.  From nft: of two addresses for one side a prefix that comes
second is kept and the first forgotten (`nftjson.go:761`), where nft wants both,
although the header of the file says that nothing is broadened (`Overwritten`); a
name such as `eth*` is a pattern to nft and is copied as it is, while bfw writes
one `eth+` (`Pattern`).  From firewalld: elements keep their order, so that what
an element accepts is let in although a later one denies it (`DeniedLate`); the
default zone of firewalld has the packets that no zone claims, and is here, when it
has bindings, only for those (`Unclaimed`); the destination of an included service
becomes that of the whole (`OneDestination`); zones are compared by the names of
their interfaces (`firewalld.go:1094`), so that of two zones for `eth+` and `eth0`
both open their ports to `eth0` (`TwoNames`), although the comment of
`checkZoneOverlap` calls such bindings unrepresentable; the stored input policy stays, so that
under `allow` what no zone accepts is let in; the elements of a set are added to the
set that is there of that name, whatever its family, and earlier rules that name it
match more (`Grows`, `impexp.go:188`).

Bounds.  Two processes suffice for the races of interest: each is between one
command that holds stale data and one that changes it, and a third actor only
adds another such pair.  One entry of each kind suffices where entries do not
interact; `commit` has two rules because good and bad ones do.  There is no
bound on the length of histories in `Firewall` and `Protect`: their state spaces
are finite.  `Detector` bounds the clock (`MaxTime`) and the counting messages
(`MaxEvents`): both windows and two prunings fit in 5 ticks, and 4 messages reach
each jail's limit with one to spare.  `commit` has no failing save and no kill:
after one between apply and save the kernel *is* ahead of the file (see above).
Five stored rules are a dual group of two and one rule between, or a group
with rules on either side: enough to split, slide over, duplicate or overtake.
`NoDuplicates`, `GroupsStayTogether` and `DeletesAll` need the one group per
application, `InsertsWhereAsked` a state without application rules and a rule of
none (both above).  `KernelInStep`
is stated for a table that is loaded and agrees about panic, since disable,
reload and reboot unload it and panic may cover a disabled firewall.  The
exceptions in `Converges` are an answer that was lost (`missed`), a pending ban
that ran out (see above), and a decision in force that `crowdSecUpdate` rejects, which blocks the stream by design.

In `Filter` every state is judged on every packet, so that a bound is only on what
a state or a packet may be: lists have up to seven rules that pit a host against
its network, a range against a port, each verdict, a limit, each direction, rules
that are off or over, and a set against one another; policies, levels and bans go
over these lists.  No network reaches the last address and no rule has a set and
ports (both above).  The lockout warning is claimed where `/etc/default` agrees
with the stored policy.  In `Objects` four commands are enough to create, fill,
refer to and destroy a set, and to export, change, delete and merge back a rule;
the bound counts only commands that change something.  `StaysLoadable` excepts
imports and rule commands on a disabled firewall, `StaysKept` an import with
`--replace` (both above).  `TogglesOneRule` says of every number shown what `rule
enable` and `rule disable` make of the state: the line of the number and its half,
the same rule under the same id in the other list, have the new switch, or the
members of an application in the list of that line, and all else is as it was.  It
speaks of lists whose rules have ids of their own (`Kept`) and not of numbers at
which the handler crashes (`Crashes`, above), where nothing is switched.

`SuccessMeansEnforced` is of the step that ends a command's plan of calls, since
what follows is only its exit with 0.  It is claimed of the commands that change
what is enforced, and of `app update` where its last call is that of the apply.  It
cannot be claimed of `app update` over ssh or for all profiles and of `app default`,
which do not apply; of `enable`, which may keep an older table; of those that
unload; or of a command that makes no call, such as a sweep with nothing to drop.

`Migrate` is finite without a bound but `Copies`, the states that an app command may
have read: `{own}` is one that knows of no import, so that its save undoes one and is
itself undone; the theorems are for any.  `NothingOverwritten` excepts what `crossed`
says was saved without the flock, and `AllOrNothing` each call that failed while
it put things back, and `ENABLED` when its own write failed (`conf` in `failed`).
`NeverLeftBare` excepts kills, hosts on which others have worked meanwhile, and
restoring calls that failed.  In `Importers` two
rules of a chain are what it takes for order, insertion and an early end to
matter, and `MaxImports` is 1 because the states it starts with include those that
imports made.  What the source said is kept in states without rules, since what a state has
comes first; how the two meet is `EarlierRulesStand`.  The exceptions named above
are those of `SourceKept`, `RulesetKept`, `ZonesKept` and `OthersStand`; each is
needed, as TLC finds a counterexample without it.  Two more are no disagreement:
`OthersStand` excepts states whose last rule of a direction is the catchall that
would keep the policy, but switched off or expired (`IdleCatchall`), and
`RulesetKept` ICMP in the other family's packets (`OwnIcmp`), since the importer
takes `l4proto icmp` for IPv4 only; `ZonesKept` likewise packets of a family with
the other's protocols (`OwnProto`).  Where a dump says nothing of a chain, `SourceKept` asks for what the
state said before.  ICMP that firewalld's configuration does not
mention is left to firewalld's own rules (`Mentioned`).

Fairness.  `Firewall!Fairness`: a process that has begun goes on to make its
calls or fails, because no call blocks; the sweep does not miss the free lock for ever,
because the timer fires every minute and commands hold the lock briefly.
`ExpiryEnforced` further supposes that calls stop failing.  `Protect!Fairness`:
the ticker ticks, requests time out, commands release the lock, and the poller's
attempts do not all collide with them; systemd restarts what fails
(`Restart=on-failure`; an administrator's stop is a `Killed` and a later start).  There is
none on `JournalctlExits`: `journalctl --follow` need not exit.
`MigrateProps!TFairSpec`: a migration makes its next call, which fails or not;
nobody has to answer its question.

## 4. Proofs

All for arbitrary constants.

- `TypeCorrect`, `DetectorType`, `ProtectType`: the types.
- `Inductive`: `IInv` is inductive, assuming `Disciplined`: the commands issued
  all take the flock, and no imported document says panic.  The run `stale_rule`
  shows what the first excludes; the second excludes a file that
  says panic before the import applies it.  `PanicEnforced` alone is not
  inductive: whether an apply may load an open ruleset depends on what the command
  has saved and what it has still to save.  `IInv` therefore says that a command
  at work holds the lock (`Exclusive`) and is somewhere on one of the plans of its
  kind (`Fits`), that its copy is one edit of the *current* file until it is saved
  and agrees with it about panic when it is applied (`Copies`), and that panic on
  has dropped traffic before it saves (`DropsFirst`).
- `PanicIsEnforced`, `PanicStandsUnderLock`, `BansStayUnderLock` follow from it,
  and so does `NoUpdateIsLost`: `Firewall` implements `Transactions`.
- `SuccessIsEnforced`, assuming `Guarded` (every command but `app update` and `app
  default`, so the stale rule commands too, and every fault).  `EnforceInv` says
  nothing of where a copy comes from, which a rule command cannot know; it follows
  the copy under one hold of the flock (`Holding`): what is saved is the copy, what
  is applied mirrors it but for the fragments, and with them enforces it
  (`Progress`).  The plans of these commands end with
  fragments, with a save or, for `panic off` on a firewall that is not enabled, with a
  flush (`Closing`).  The entries that expire meanwhile are why it says "between the
  copy and the copy without what is over".
- `NothingWedges`, assuming `Checked`: no import and no `panic off`, which save
  before they apply and do store states that `compile` rejects (3. above).  Its
  invariant `WedgeInv` says that a copy about to be saved on an enabled firewall
  has been compiled, or differs from the file only in what `compile` cannot reject.
- `KernelStaysInStep`, assuming `Steady`: the commands that apply before they save,
  with `enable`, `disable`, `reload`, the boot units and panic, no failing save or
  rewriting of `better-firewall.conf`, and no kill; with those the kernel is ahead
  of the file, as 3. says.  `StepInv` adds to `EnforceInv` that table and file
  agree unless the holder of the flock is between its apply and its save
  (`InFlight`), that a disabled firewall has no table but that of panic
  (`Unloaded`), without which `disable` in the middle of a later `enable` could not
  be told from one before it, and what each command knows while it holds the flock
  (`Knows`).
- `DetectorBansExactly`: `DetectorHistory` implements `Windows`.  The invariant
  `Kept` says that a window holds only failures since the last ban and at least
  those within `find_time`, so that trimming never changes the count.
- `DetectorFreesMemory`, from the invariant `Fresh`: what a prune left.
- `StoringMakesNoCopies`, `InsertionSplitsNoGroup`: of `SetRule`, for lists of any
  length.  An insertion comes only when no rule has the key, and shifts what
  follows; a replacement keeps the key of what it replaces; the slot chosen is
  the first that is not glued to its neighbour.
- All invariants of `rules`, for any commands, profiles and histories, of which
  `MaxRules` bounds only the numbers that are deleted.  `RulesTyped` is what all of
  them start from.  `LoopIsSetRule`: after `i` entries the pass of `setRuleEngine`
  that stores has passed them, replaced those it matches or slid its position to
  the next slot (`Storing`), and the one that deletes has left the entries
  that `Take` leaves (`Dropping`, where `Left` maps each to where it was).
  `OthersStand` and `GroupsStand` follow from `Keeps`, which says of two lists what
  a command must keep (other rules, groups, and no copies if there were none); each
  half, each rule and each family of a command keeps it (`ApplyHalfKeeps`,
  `ApplyDualKeeps`, `ApplyNextKeeps`), and keeping is transitive (`KeepsFollows`).
  `NothingTwice` is inductive with the types: deletions pick entries, insertions
  shift them, and an update (`Updated`) has put each group down once, with items that
  differ.  `DeletesAllAlways`: the deletion of a group goes along the group as it
  was stored, and each of its rounds takes the next of its rules (`Taken`).
  `InsertsThereAlways`: the position of the first rule of a command is its number,
  or that less the shown rules of the other family.  `UpdatesSettle`: what an update
  makes of a list is what it makes again (`Settling`, then `Standing`).
- `NoDecisionIsLost`, `NoBanIsStale`: from `BooksInv`, which adds to them how
  LAPI's sets relate and what a pending batch holds: a snapshot has everything in
  force but what is fresh, and everything it adds is in force or to be revoked.

- `MigrateInvariance`, and from it `MigrateType`, `NothingIsOverwritten` and
  `HandsOverOrPutsBack`: for any managers, faults, other commands and copies that app
  commands may have read, with the exceptions that the properties name.  That a
  takeover is whole or undone is a statement about its last step; the invariant
  says for each earlier one what has been done to the host since `start`: nothing
  until the save, then the file, then the source, then the tables, and on the way
  back what the calls that undo have undone or failed to (`failed`).
- `MergeKeepsPlaces`, `MergeMakesNoCopies`: of `MergeRule`, the merge of one foreign
  rule, for lists of any length and rules of any fields.  Its search yields the
  first rule of the same key or none (`Found`); what it puts there keeps key, switch
  and expiry (`ReplacedKeeps`), so that keys stay where they are.
- `FileKeepsPlaces`: so it is for `MergeRules`, a whole file of any length, along the
  trace of its fold (`FileTrace`); rules whose key the file does not have are as they
  were.  `FirstStaysFirst`: the first rule that matches a packet is the first after
  the import too, since rules of one key match the same packets (`KeyMatches`) and
  what is new comes last.  Both are of lists of a set of rules with the fields that
  matter, which replacement does not leave (`AreRules`); `Naming(N)`, the rules that
  refer to sets of `N` only, is one (`NamingAre`).
- `StateIsMade`, from which all that follows about imports starts: `Made` says that
  the stored state is one, and is what the last import made of the one it found.  It
  holds the types of all three importers' functions: what they give are rules that
  refer to sets which are there, through the services that include one another and
  the templates of firewalld's elements.
- `ParsedAsRestored`: `ParseSave` reads of a dump the chains that iptables-restore
  would leave.  It is of the two folds, line by line.
- `EarlierRulesDecide`: `EarlierRulesStand`, from `FirstStaysFirst` and `Made`.
- `OthersAreLeft`: `OthersStand`.  Two lists are `Alike` for a direction when the one
  has the rules of the other for it, in order, and behind them some that decide
  nothing new; an import keeps them so for chains it is silent on (`SilentDumps`,
  `OtherChain`, `OwnChain` for what `iptAppendPolicyCatchall` appends) and for all
  that does not come in (`ZonesAreIn`).
- `SourceIsKept`: `SourceKept`.  A rule matches what the options it was made of match
  (`SpecIs`).  After each line of a chain the rules so far say what the lines so far
  say, or the chain is over (`Answers`, `NextAnswers`, `ChainAnswers`); of the chains
  of a file only that of the packet's direction matters (`FileAnswers`, `FlatFirst`).
  A merge into nothing drops rules whose key came before, which then say the same or
  `Contradicts` (`FileAgrees`, `MergeDecides`, `FileDecides`).  Where no rule decides,
  the policy of the family does, as the stored one or as its last rule (`OwnPolicy`,
  `WithPolicies`, `DumpDecides`).
- `RulesetIsKept`: `RulesetKept`.  Each expression that is taken adds its condition to
  those of the rule so far and no other (`ExprReads`, from one lemma for each kind of
  expression), so that the rule made of a line matches what all of them match
  (`SoFar`, `ConvertReads`); at most one chain is for a packet (`OnePasses`), and the
  list of its family has one rule for each line of it (`OneReads`, `RulesetReads`);
  the policy stored for a direction is that of the chain, or is to accept what no
  chain is for (`PolicyKept`).
- `ZonesAreKept`: `ZonesKept`.  A rule is told by its `View`, what of it a packet is
  compared with.  The template of an element is about the packets that the element
  is about, `Hit` (`PortsHit`, `ProtoHit`, `TypeHit`, `RichRuleHits`, together
  `ElemHits`); that of a service is so for the service with what it includes, through
  the least fixpoint that firewalld takes and the recursion with its list of open
  services that the code has (`ServiceHoldsIs`, `ResolvedHolds`).  What a template
  becomes for a binding is about what both are about (`MeetHolds`, `EmitForHits`),
  and the rules of a zone about what its elements hold of and one of its bindings
  has (`ZoneHits`).  A packet has one zone: bindings of two zones that are not
  `TwoNames` and that `checkZoneOverlap` accepts have no packet in common
  (`BothBind`, `OneZone`), so that of all rules those of its zone are about it
  (`ZonesHits`).  What denies goes first, within a zone by `~DeniedLate`, and stays
  first when templates become the list of one family (`ListDecides`,
  `ZonesDecide`); policies decide for IPv6 before that (`PoliciesDecide`).
  `Made` has to say that the zones of an imported configuration have names in
  `ZoneOrder`, the order in which the importer goes through them.

These suppose nothing but what the modules say of their constants: rules with the
fields they have (`TextsAssumption`), states and sources that are some, and files in
finite directories (`ImportersAssumption`), packets with a direction and a family
(`ChainsAssumption`).  All three are evaluated by TLC.

- `WalkInvHolds`, and from it `PromiseKept`: `Filter` implements `Promise`, for any
  stored states, rule lists of any length, packets and interfaces.  `Within` says of
  each chain which packets can be in it, `LetGo` what is known of one that it let
  go; `WalkInv` carries both along the stack of chains (`Fits`): the rules before
  the one that is next did not match or let the packet on, and the chain on top is
  the one that the chain below jumped to.  Each chain `Obeys`: on the packets that
  can be in it, a rule that decides does so as `Judge` does, a jump leads to a chain
  that the packet can be in, and a return or the end leave what `LetGo` says
  (`ObeysBase`, `ObeysBeforeIn`, ..., `ObeysAll`).  For the users' chain this means
  that its first entry that matches and decides belongs to the first rule of the
  lists that matches (`UserActs`), through the protocols a rule is compiled for
  (`VariantsFit`), its log entry and its limit (`PassActs`).
- All five properties of `objects`, for any targets, sets, documents of any length
  and number of commands.  `ImportsSettle` and `ImportsKeepOthers` are of a merge
  alone: after `k` rules of a document (`Placed`) the list is the old one, entry for
  entry but for the fields that a rule of the same key replaced, and behind it the
  new rules; what was merged once then says nothing new (`Agrees`, `OnceAgrees`,
  `NothingNew`).  `StaysKept` is not inductive, since the document at hand and the
  file must agree on ids before they are merged: `Owned` says that wherever an id
  is found, in either, it is that of one key, and that no id above `ids` was given
  here.  Each command `Carries` it: a merge gives new ids (`MergeOwners`), ufw's
  document one to both halves of a rule (`UfwDocIs`), and the rest takes rules or
  changes what is no part of a key.  `StateStaysLoadable` goes through the set and
  NAT commands (`SetsLoad`, `NatStaysLoaded`).  `OneRuleToggled` needs that the
  number shown is that of a rule (`Nth`, by the least place with that many before it)
  and that the line and its half are all that has its id (`UnderOneId`, `HitsNumber`).
- `BansCut` and `LockoutReal` follow from the verdict being `Judge`'s;
  `BatchesLoad` from `ElementsHold`, which says that the intervals of a set of
  networks are apart and hold their addresses and no others; `ShadowedNever` from
  `SupersetMatches`: what `ruleSuperset` says to cover a rule matches every packet
  that the rule matches.

What these suppose of the stored states is named in `FilterProps`, and the code can
bring about states that it excludes (3. above).  `SetsApart` (for `WalkInvHolds`,
`PromiseKept`, `BansCut`, `BatchesLoad`, `LockoutReal`): no network of a set touches or overlaps
another one that reaches the last address.  `PortsFit` (for the same but
`BatchesLoad`): rules with ports are of tcp, udp or any protocol, and each side
that has ports has some for each protocol the rule is compiled for.  `SetsAlone`
(for `ShadowedNever`, which needs nothing else): a side of a rule that names a set
has no ports.  TLC evaluates the three on the states of `filter`, and has checked
`WalkInv` there.

What the theorems about rules suppose is named in `RuleProps`, and TLC evaluates it
on the instance of `rules`.  `GroupsAreApps` (for `NothingTwice`, `GroupsStand`,
`DeletesAllAlways`, `UpdatesSettle`): the rules of one application have one
`AppTuple`, since `updateAppRule` generates interleaved groups of one application
several times (3. above), which stores copies.  `OneTemplate` (for `UpdatesSettle`):
they have one template, since rules of different sets share a tuple, and an update
gives all of a group the fields of its first.  `ItemsOnce` (for
`NothingTwice`, `GroupsStand`, `DeletesAllAlways`): no profile gives an item twice;
`updateAppRule` appends what the profile gives and does not look for copies.
`LoopIsSetRule`, `OthersStand` and `InsertsThereAlways` suppose nothing.

Of the theorems about objects only `RulesStayKept` supposes something, `IdsApart`
of `ObjectsProps`: written documents have no id that was given here, and each id of
theirs is one rule's.  A document that says otherwise does break `StaysKept` (3.
above).  TLC evaluates it on the instance of `objects`.

The compiler's lists are folds, flattened sequences and sorted sets, and what holds
of them is shown by hand where the provers cannot do induction: the recursive
function that the operator chooses exists (`FlattenTrace`, `FoldExists`), so that
there is a trace of its rounds, and of a claim about each round there would be a
least counterexample (`Smallest`), whose predecessor rules it out.

Only model-checked: liveness (`ExpiryEnforced`, `Converges`, `NeverLeftBare`),
which this prover does not do.  Every other property of a passing run is stated by
a theorem.

## 5. Not modelled

Of the importers the decoding of files (XML, JSON, the words of an option, the
names of services and ICMP types), warnings, and whatever is refused wherever it
stands, which is `odd`.  NAT rules as translations of packets: of these
only what is loaded and what is refused is modelled.  Prompts, wording, rendering,
diffs and reports; init hooks, kernel modules and sysctls; dry runs, which change
nothing; reading errors of the configuration; parsing of rules, profiles and
documents; TLS and keys of the CrowdSec client.  `PROJECT.json` gives each part its
status.

## 6. What is left

1. `Protect` composed with the commands that wipe bans, and with a run for the
   batch that runs out once the code tells such bans apart.
2. NAT rules as translations, in `Compile` and `Filter`.
