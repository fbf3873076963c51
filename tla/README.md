# TLA+ models of sign-craze

sign-craze runs a proxy core (sing-box, xray or mihomo) on a Keenetic router and diverts
traffic into it with iptables. It is one Go binary that is many programs: a CLI whose
commands run for seconds, a watchdog daemon, a Web UI daemon, and a hook the router's own
firewall manager (NDM) calls. There is no server process that owns the state. What these
programs share is on disk (`state.json`, `routing.json`, PID files, a throttle marker, flock
files), in the kernel (iptables, ipset, routing, sysctl) and in NDM. The models are about
that: who may write what when, what a failure or a kill in the middle leaves, and what the
next command makes of it.

## Contents

1. [Inventory](#1-inventory)
2. [Modules](#2-modules)
3. [Runs, bounds and fairness](#3-runs-bounds-and-fairness)
4. [Proofs](#4-proofs)
5. [Where the code and its documents disagree](#5-where-the-code-and-its-documents-disagree)
6. [What is not modelled](#6-what-is-not-modelled)
7. [Plan](#7-plan)

`PROJECT.json` holds the same in machine-readable form: components, runs, the lines each
definition was translated from (`map`), the mutants that show that each property can fail,
hazards, findings and theorems.

## 1. Inventory

| Component (packages) | State it keeps | Operations | Talks to | What is hard | What makes it correct |
|---|---|---|---|---|---|
| State store (`state`, `locks`, `atomicfs`, parts of `cli`) | `state.json`, two flocks | load, managers (ports, excludes, DPI targets), mutations, watchdog and hostlist saves, `--core` | every other part loads it | whole-document read-modify-write under two different locks or none; lock timeouts; kills between temporary file and rename | an acknowledged change survives; the document is always old or new |
| Rule recovery (`service` hook and shim, `cli` reapply, reconcile, watchdog) | main flock, hook flock, pending and throttle markers, watchdog's clock | hook, `--reapply`, watchdog tick, shim `start`/`stop` | NDM, firewall applier, process lifecycle | four kinds of writers of the firewall, throttling, stop against restore | rules come back, one writer at a time, stay away after `--stop` |
| Firewall applier (`firewall`) | kernel tables and chains, policy routing, ipsets, fast-path sysctl and its saved value | Apply, Reconcile, Remove, AttachTUN | NDM rewrites the same tables | twenty external calls, each may fail; modes change between Apply and Remove | Remove leaves no capture; bypass rules first; one jump per chain |
| Process lifecycle (`service`, `peer`, `naiveproxy`, `dpi`) | PID files | Start, Stop, Status | the kernel's process table | no parent, number reuse, a status without a lock, deaths during stabilization | a PID file names the right process or none; no process is lost |
| Start and stop (`cli/cmd_lifecycle`, `core` registry) | none of its own | `--start`, `--stop`, `--restart`, Apply of the Web UI | all of the above | rollback of a list of steps, interrupts, `--core` in between | order of peers and cores, nothing left over |
| NDM policy (`ndm`, `cli` start, reconcile, uninstall) | a policy in the router's running and startup configuration; its mark and the WAN cached in `state.json` | EnsurePolicy, wait for its mark, SaveConfig, DetectWAN, delete, unbind | NDM's RCI, firewall applier | the router assigns the mark later and anew at a reboot; requests fail after they were carried out; the operator edits | rules match the mark the policy has; an uninstall leaves nothing |
| Routing UI (`web/routingui_*`, `routing`), presets (`preset`) | `routing.json` | add, change, move, delete rules, rule sets, inbounds, outbounds, final; presets; drafts; Apply | start and stop, rendering | no lock at all, Apply overlaps with edits and restarts | the file always loads; what Apply reported is what runs |
| Rendering (`singbox`, `core/xray`, `core/mihomo`) | each core's configuration file | render, compare, check | `routing.json`, `state.json` | three languages for one rule list | packets go where the document says, on every core |
| Release downloads (`ghrelease`) | a cache of archives and ETags | find, download, verify; mirrors | GitHub | ETag stored before the checksum | an archive that was not verified is never installed |
| Core installation and self update (`core/corearchive`, `singbox`, `core/xray`, `core/mihomo`, `naiveproxy`, `selfupdate`, `elfcheck`) | binaries and their `.bak` | back up, replace, check | downloads, rendering | failures between rename, write and check; `--core-install` takes no lock | there is always a binary or its backup; success means a pair the core accepted |
| Install, uninstall (`cli`) | everything | `--install`, `--reinstall`, `--uninstall` | all | partial installs | can be repeated |
| DPI (`dpi`, `cli/cmd_dpi`) | nfqws2, its lua and blob files, the host list, its fields of `state.json` | enable, strategy, targets, sources, update; the daemon's updater | state store, start and stop | one file with several writers, minutes between load and save, clocks that go back | never limited to nothing, never wider than asked, enabled means usable |
| ipset loader (`firewall/ipset*`) | kernel sets and a dump file | AtomicReplace, dump, restore | geo update | | readers see the old set or the new |
| Web server (`web`) | sessions of HTTP, nothing durable | REST, proxy to the core's API | state managers | request contexts cancel what they started | |
| Proxy links (`proxyparse`) | none | parse | | formats | |
| Peer ports (`peer/portalloc`) | ports in `state.json` | allocate | | collisions | distinct ports, stable |
| Geo data (`geo`), backup (`backup`), diagnostics (`diag`), dispatch (`cli/dispatch`), support (`log`, `exectx`, `netif`, `version`, `pkg/types`) | files they read or write once | | | mostly pure or plain I/O | |

### How the parts meet

* **Locks.** `withLock` (the *main* flock) serialises commands, the watchdog's tick and
  `--reapply`; `withStateLock` (the *state* flock) serialises the managers behind the Web UI
  and `--port-*`, `--exclude-*`, `--dpi-targets`. They are different files. `--core`, the
  hostlist updater, the status and the routing editor take neither.
* **Firewall.** `--start`, Web UI Apply, the watchdog, `--reapply`, `--stop` and the rollback
  of a start write it; NDM wipes tables at any time and then runs the hook.
* **Processes.** Only PID files say what runs. The hook looks at the PID file of the core,
  `--reapply` at its Status, the watchdog at neither.
* **Contexts.** A signal, or the browser that pressed Apply going away, cancels the context:
  every external command fails from then on, `Lifecycle.Stop` and the rest of the code do not.

## 2. Modules

| Module | Models | Composes |
|---|---|---|
| `AtomicDoc` | abstract: a document of independent settings, each changed in one step | |
| `StateStore` | `state.json` and its writers | refines `AtomicDoc` |
| `StateStoreProofs` | theorems about `StateStore` | extends it |
| `RuleRecovery` | hook, reapply, watchdog, shim and commands, with time | abstracts `Firewall` to "which tables hold their rules" and `Service` to "the core runs" |
| `RuleRecoveryProofs` | theorems about `RuleRecovery` | extends it |
| `Firewall` | the calls of Apply, Reconcile, Remove against kernel tables | one operation at a time, which the last conjunct of `RuleRecovery`'s `TypeOK` justifies |
| `FirewallProofs` | theorems about `Firewall` | extends it |
| `Service` | processes, PID files, the step lists of `doStart` and `doStop` | abstracts `Firewall` to "none, on, part" |
| `ServiceProofs` | theorems about `Service` | extends it |
| `Install` | release cache, binaries, their backups and checks | rendering is "plain" or "routed"; `Service` is the last step of `--start` |
| `InstallProofs` | theorems about `Install` | extends it |
| `Render` | operators: documents, presets, the three translations and what they mean | used by `Routing` |
| `Routing` | `routing.json`, its editors, Apply and `--restart` up to the running core | extends `Render`; the start of the core is one step |
| `RoutingProofs` | theorems about `Routing` | extends it, and takes nothing from `Render` but the fields of a document |
| `Dpi` | settings, files, host list and process of nfqws2 | downloads are `Install`'s, the start `Service`'s, both one step |
| `DpiProofs` | theorems about `Dpi` | extends it |
| `Policy` | the policy in NDM, its mark in `state.json` and in the rules | `Firewall` is "which mark the rules match", `RuleRecovery` the tick and `--reapply` |
| `PolicyProofs` | theorems about `Policy` | extends it |
| `MC...` | instances for TLC (`Policy` needs none) | |

### StateStore

A *process* is one flow of control: a CLI command, a Web request, a goroutine of the daemon.
`pc` walks through *main* lock, *state* lock, load, save; which locks it stops at depends on
the kind of handler (`Locks`). `doc` is the file, `snap[p]` what `p` loaded. Lists are one
cell per possible entry, so that two additions of different ports are different settings as
they are for the user. A port range is a job with several settings left, one manager call
each: the state lock is given back between two of them, as in `addPorts`. Timeouts of
`withStateLock`, refused saves and kills are actions. `intent` is a history variable: what each
setting was last asked to be. The rename of `atomicfs` is what makes `Save` one step; a kill
before it leaves the old document.

`Atomic!Spec` is the promise: every change is one step that touches its own settings only.

### RuleRecovery

`rules` has two sets of tables: those whose *critical* rules are in place, which is all `CheckCriticalRules`
looks at, and those that have the others too (bypass rules, the drop on the WAN). `Owned` are the tables the
mode needs; over TUN (`Tun`) the watchdog tests and does nothing if the critical rules are there, over TPROXY and REDIRECT
the test always misses a rule. NDM's rebuild empties a table and starts a hook. A Reconcile that fails may leave the critical rules
without the others. The hook follows the shell script line by line (flock or
exit with the pending marker, reapply, sleep, second reapply); `--reapply` tests the marker's
age before the lock, and may end without having written it (`ReapplyUntouched`: a failed write, a kill); `lapsed` remembers that. The watchdog acts when its clock is due and the lock is free. Commands walk
through the sub-steps of start, stop and restart, and through the shim, which starts or kills the
daemon outside the lock. Times keep the order of the code's 2 s, 5 s and 30 s.

### Firewall

A setting is a mode, whether ports, excluded destinations and admin ports are listed, and the variant of policy mode. A
rule in a system chain is a counter, because iptables keeps duplicates and `-D` removes one; a
chain of sign-craze (of the policy in mangle and nat, `signcraze`, `signcraze_ports`, ...) is the sequence of the kinds of rules in it. In ModeFull
bypass rules go to `signcraze` only, and only the kinds that are configured (`passes`). `op.todo`
is the list of calls left. Each call takes effect, fails and ends the operation, or fails
unnoticed where the code ignores the error; restoring the fast path forgets the saved value even if the write failed (`used.forgot`). Between two calls NDM may rebuild a table, the process
may be killed, the router may restart (which keeps the file with the saved sysctl). A failed Apply
goes on with the calls of the rollback.

`DeleteJumpAll` deletes up to `maxIter` = 16 copies of a jump. A deletion that fails is only logged, and the Apply
that follows adds a copy; after 16 of them one call no longer removes them all. `used.lost` counts them, and
`RemoveReleasesTraffic` and `AppliedCaptures` are stated for fewer (`Deletable`).

### Service

`pid[s]` says whose number the PID file of service `s` holds: a process, a dead one, or there is no
file. `Start` is three steps (look, fork and write the file, look again after the stabilization
delay), and a command may be killed between the fork and the file (`KilledAtFork`): the process runs, no file names it, and `bare`
remembers it. The kernel may give a new process the number in a stale file of the same program (`Stale`). `op.todo` is the list of steps of `doStart` or `doStop` left; a failing step replaces it by
`Undo(step)`, the list of what the code takes back at that place. `lost` are the processes that run
while their own PID file is gone. All mieru peers run one binary, so a stale file whose number was
given to another peer passes the name check of `processAlive`; `mixed` remembers these.

### Install

One binary of one of six kinds, with the archive cache of `ghrelease`. `cache[name]` is the archive and
the ETag beside it, two files written one after the other. A version is a number, `damage` says whether an
archive arrived whole, cut short or changed; `Breaks` says where unpacking of that kind notices. The
configuration a version accepts is chosen at the start (`accept`), so updates that refuse the current
configuration, and versions that do not run on the router, occur. Every command is the sequence of its file operations with a kill
possible between any two; `SIGKILL` leaves the cache as it is. `--uninstall` removes binary, configuration and cache one after the
other; each removal can fail, leaves its part (`stuck`), and completion is reported all the same. `loose` remembers the two situations the
code does not guard: two commands on the cache at once, and a command killed while an archive that was not verified counts
as known (`Unverified`), because the ETag beside it is already or still the one of that release.

### Render and Routing

A packet is a value, a condition the set of packets it matches (`Covers`), so that the meaning of a
configuration is a function from packets to outbounds: `Verdict` walks the lines a core got, `Wanted` is the
same of the document. The translations (`SingBoxLines`, `XrayLines`, `MihomoLines`, base rules, final outbound,
providers) follow the three renderers rule by rule, and `Expressible` names the rules a core can express, for which the
translations must agree. Matchers by full name, by keyword and by a suffix with a leading dot (`Literal`) catch nothing under xray (`Site`), as
`renderXrayRule` writes them in a form xray does not read as such. A destination counts only if the rendered configuration has that outbound
(`Delivers`); the renderers for xray and mihomo leave `direct` and `block` out of the list they copy and supply their own. `ApplyToConfig` and three built-in presets are operators too.

`routing.Save` refuses a document that is not valid; the handlers, the draft, the migration and the bootstrap from
`state.json` all go through it. A refused bootstrap ends an install and is a warning to `--ui`.

In `Routing` an edit is two steps, load with change and save, and nothing holds them together. Apply is load, render,
write, check, wait for the main lock, restart; commands take the lock first. `ver` counts the saves of `routing.json`,
`applied` is the newest that an apply or restart reported as running.

### Dpi

Each operation of the CLI, the Web UI and the watchdog is a `job` with the document it loaded and the day it began.
Commands hold the main lock, `targets` and the Web UI's `put` the lock of `state.json` for load and save, the daemon's
update neither. A source is a set of lines; what is not the name of a host is no host. `nfqws` records what
the running process was started with: the targets asked for and its sequence of strategies, separated by `--new` on the command line, each with the list it
is kept to; `--hostlist` stands at the end and limits the last one (the built-in one for TCP, or the last of the user's own, `Own`). What of the lua and
blob files an archive holds is chosen when it is fetched (`holds`): `InstallAssets` takes any subset for success.

### Policy

`run` and `saved` are NDM's two configurations. A request is `ok`, `refused` (a status below 500, which `Client.do` hands
back without an error and which callers mostly take for success) or `failed`, when NDM may have carried it out all the same.
One operation is under way at a time, because all hold the main lock; NDM, the operator, reboots and kills act between any two
requests. `calm` and `clean` are history: nobody else acted, no request failed.

## 3. Runs, bounds and fairness

| Run | Checks | Shows |
|---|---|---|
| `store_atomic` | `TypeOK`, `NoLostUpdate`, `AtomicSpec`, `LocksAreReleased` | writers that share a lock, with timeouts and crashes, behave as the atomic document, and every flock comes back |
| `store_all` | `StaleOnlyAcrossLocks` | with all disciplines mixed, an update is lost only between writers that share no lock |
| `recovery` | `TypeOK`, `StopsForGood`, `ThrottleHolds`, `WatchdogRestores` | the hook, the daemon and commands of one shell, with rebuilds and a fault, over TUN |
| `firewall` | `TypeOK`, `RemoveReleasesTraffic`, `FastPathComesBack`, `AppliedCaptures`, `BypassComesFirst` | operations in any order and mode with failures and rebuilds |
| `service` | `TypeOK`, `PidFilesAreTrue`, `StopLeavesNothing`, `FailedStartIsUndone`, `PeersOutliveCores` | three commands, two events |
| `service_orphan` | `NoOrphan` (violated) | a status takes away a PID file just written |
| `install` | `TypeOK`, `BinaryOrBackup`, `OnlyVerified`, `UninstallClears`, `CheckedPair` | three commands, two at a time, on every kind of binary, with two faults anywhere, removals included |
| `install_current` | `UpToDateIsInstalled` (violated) | an update whose installation failed is "already installed" the next time |
| `routing` | `TypeOK`, `SavedFileLoads`, `SettledCoreIsCurrent`, `InboundsFitMode`, `WrittenConfigRoutesAsDocument`, `AddedPresetYields` | edits, presets, applies and restarts that overlap; every configuration written means what the document says |
| `routing_presets` | `BogonPresetSparesOthers` (violated) | a preset against NetBIOS blocks all UDP under mihomo |
| `dpi` | `TypeOK`, `ListNamesHosts`, `EnabledIsUsable`, `UpdateTimeIsEarned`, `NeverWiderThanAsked`, `AutoUpdateCatchesUp` | commands, Web requests, the daemon's update, reboots and a clock that goes back |
| `policy` | `TypeOK`, `StartMakesPolicy`, `UninstallForgets`, `MarkIsFollowed` | starts, ticks and uninstalls against NDM and an operator |

**Bounds.** *Store:* two processes suffice for a lost update, two ports for a port range and for
changes of different entries. `MCStateStore` picks a team of handler kinds at the start, so that the
run whose guarantee needs a shared lock only mixes kinds that share one. *Recovery:* `MaxEvents`
rebuilds, `MaxCmds` commands, `MaxFaults` crashes or failures; two hooks, because the second one is
what the pending marker is for; two rebuilds reach the trailing reapply. The three times keep their order.
`recovery` has one shell, for which `StopsForGood` holds; with two that use the shim it does not (section 5). It goes over TUN, where
the watchdog's test for critical rules matters. *Firewall:* three operations give
Apply, Apply in another mode, Remove; two events give a failure and a rebuild in one behaviour. The settings are policy mode over TUN and over the others,
and ModeFull with and without lists (3.7 million states, as many as the time allows; the theorems have no bound).
*Service:* three commands give start, restart, stop; two events give `--core` or a crash and an
interrupt in one behaviour; two cores give a former and an active one; two peers give a peer that is
up when the next fails, and a number passed from one to the other. *Install:* three commands give an installation, an
update that fails and one that follows; two releases give a stale ETag and a version whose predecessor is in the cache. Two
faults give an archive that is refused and removed, while its ETag stays, and a kill in the next download of the same release. The run
has one mirror; a second one is in `install_current`, and the theorems hold for any number of them. *Routing:* two processes and three edits, runs or
events in all give an edit between the steps of an apply, a second apply in the gap, and an install before both; the rules a user types are by suffix, by keyword and by addresses behind a port; packets are every combination of a
destination, UDP, a NetBIOS port and BitTorrent, so that two lines that differ in one condition differ in a packet. *Dpi:* three
jobs, two days and two faults give an update that fails on one day and is due on the next, a command inside it and a
reboot with the clock set back; a router without nfqws2 and one set up with targets are both starting points. *Policy:* two
interfaces, marks and devices, two commands with any number of ticks, three events of NDM or the operator and two failed
requests: a policy found in any state, changed under the request that follows, with a failure of the repair.

**Stopping.** Every run but the store's may stop: the bounds are used up and
nobody gives a command. They do not check deadlock; the store's runs do.

**Fairness.** `FairTeamSpec` has weak fairness on the steps of every process: a process that holds a
flock runs, and the operating system gives the flock back when it dies. It does not assume that a
waiting process ever gets the flock, since Acquire gives up after a timeout. `FairSpec` of `RuleRecovery`
has weak fairness on the passing of time and on the steps of the hook, of the running command and of
the daemon: every process that can run does at last. Commands, rebuilds and faults are finitely many, so the
daemon, which skips a tick when the lock is busy, finds it free at last; nothing is assumed of NDM, of users or of faults.
`Dpi` has weak fairness on the daemon's ticker and on its own update, whose client has time limits; of commands nothing is
assumed. `Policy` has it on the ticker, on the requests of the operation under way (they have a time limit) and on NDM giving a
mark at last; that it does so within the 5 s the code waits is not assumed.

**Mutants.** Each property of a passing run has a mutant in the module, marked `Mutant:`, of the
definition that keeps it true; no specification uses them.

## 4. Proofs

`StateStoreProofs` is checked by TLAPS. It assumes the assumptions of `StateStore` on its constants
(names that do not collide, `DefVal` among the values) and nothing about their size.

* `TypeCorrect`: `Spec => []TypeOK`.
* `StaleWindow`: `Spec => []StaleOnlyAcrossLocks` for any set of kinds of handlers. The property is not
  inductive alone. `HoldInv` says that a process past an Acquire is the holder of that flock, and the
  history variable `author` ties the last writer of a setting to its kind; a writer that shares a
  lock with the owner of a snapshot cannot save while that snapshot is in use.
* `SharedLockLosesNothing`: if every two kinds of the instance share a lock, `Spec => []NoLostUpdate`. The
  strengthening `FreshInv` says that a snapshot between load and save is the document, except where
  the process itself changes it.
* `SharedLockIsAtomic`: under the same hypothesis `Spec => AtomicSpec`, by the refinement that is
  the identity on `doc`; every step is a `Change` or leaves `doc` alone.

So an update is lost for one reason, handlers that share no lock, and a common lock is
the whole remedy: this is what the theorems add to the runs.

`RuleRecoveryProofs` assumes the assumptions of `RuleRecovery` on its constants: actors that are distinct, periods and
bounds that are naturals. The run has two hooks and one shell; the theorems hold for any number.

* `TypeCorrect`: `Spec => []TypeOK`, whose last conjunct is the mutual exclusion of firewall writers. It is inductive together
  with the types. The proof gives each kind of process a frame lemma: what a step does with the lock, and that it leaves the
  others where they are.
* `ThrottleKept`: with flock, `Spec => ThrottleHolds`. handleReapply reads the marker before it takes the main lock and not
  again, so the main lock is not what keeps two reapplies apart. `ThrottleInv` says what does: the hook's own flock is held
  from the throttle to the exit (`HookMutex`), the marker is never older than the last reapply unless a hook is just about
  to touch it or the last one ended without (`MarkerLags`, `lapsed`), so who was let through still finds a whole period gone by (`LetThrough`).
* `StopLasts`: `Spec => []StopsForGood` with one shell, or with any number when none of them uses the init.d shim. `StopInv`
  adds that after `--stop` nobody can start the core or the daemon or is about to restore a rule (`Quiet`), and that between its two halves doStop has
  the core and the daemon down already (`Halted`). The hypothesis is the one the code needs: with the shim and two
  shells a `--stop` can come between `--service-start` and `start_watchdog` (section 5).

`FirewallProofs` assumes the modes to be `policy` and `full` and bounds that are naturals; it holds for any number of operations,
failures and rebuilds. All five invariants of the run are theorems: `TypeCorrect`, `RemoveReleases`, `FastPathReturns` (unless a restore that failed
forgot the value, section 5), `CapturesOnce` for each capturing chain, `BypassFirst` for the chain that has the bypass rules. None says anything of the middle of an operation, so `FirewallInv` does: `Course` relates the list of
calls still to make to the tables. While something is removed, what is still there is still on the list (`Removing`), and the list has jumps
before chains before ipsets (`Tidy`), as iptables refuses to delete a chain somebody refers to. While something is applied the list is early
calls, one batch, late calls (`Staged`), and what the batch is to bring is there or the batch is still to come (`Applying`). `Fronts` keeps
bypass rules before captures in every chain. `Bound` says that a jump has one copy and one more per lost deletion; it is what
led to `Deletable`: for any number of lost deletions the two properties are false, and the two events of the run are too few to show it.

`ServiceProofs` assumes names that do not collide and says nothing of how many cores, peers or commands there are: `TypeCorrect`,
`FilesNameTheLiving`, `StopIsComplete`, `FailureIsUndone` and, as an action property, `PeersComeFirst`. `ServiceInv` has the same form: `Course` says
what the list of steps left owes. In `doStop` whatever has to go is gone or on the list, and no peer is on it before a
core (`Down`); in `doStart` the rules are as they were found or nothing but core, attach and DPI is left, and every peer of an outbound is known
or on the list (`Up`); a start that takes itself back has the removal of its rules ahead (`Back`). `Files` adds that a peer's file names another one
only if it was stale, which is what `mixed` is for. `FilesNameTheLiving` excepts `lost` processes, and there are two ways to get lost, a reader and a
kill at the fork: `NoOrphan`, which excepts the second, is violated by the first alone (`service_orphan`).

`InstallProofs` assumes that no process is called "none", the kinds of binaries, and counts that are naturals: `TypeCorrect`, `NeverWithoutBinary`,
`VerifiedOnly`, `UninstallLeavesNothing`, `SuccessIsChecked`, for any number of commands, releases, mirrors and faults. `UninstallLeavesNothing` says, whichever removals fail, what is gone: everything but the parts of
the removals that failed. `InstallInv` is the mutual
exclusion of the commands that take the main lock (`Locks`), that nobody else is on the cache (`Alone`), that no ETag is of a release newer than
the newest (`Levels`), that what is about to be put in place is a binary (`Present`), and what the command knows at each step (`Holding`): between ETag and checksum
the file in the cache is the one just read, after it no archive that verification refuses. `Orphans` carries that from command to command: a bad
archive is being verified or does not count as known. It was not inductive with the first form of the exception of `OnlyVerified`, which
took a kill between ETag and checksum for the only gap; section 5 has the other one.

`DpiProofs` assumes that the watchdog is not one of the processes and that a router starts with a document that has no date of an update. `TypeCorrect`,
`ListNeverEmpty`, `EnablingCompletes`, `DatesAreEarned` and `Limited` cover the run's invariants but for the liveness one. `DpiInv` says where each
job can be and which locks it holds there (`Right`), that a document in hand has a date only of a day on which a list
was written (`InHand`), and that the files an enabling command has fetched stay until its end, because only holders of the main lock touch them. `EnablingCompletes` is about what the archive
held, as nothing looks for the rest; `DatesAreEarned` says that a date is of a day on which the list was written, from the targets alone if every source
failed; `Limited` is about the last strategy. Their stronger readings (every file nfqws2 needs, every strategy) are false, see section 5.

`PolicyProofs` assumes that `None` is no interface, mark, device or policy: `TypeCorrect`, `StartDelivers` and `UninstallDelivers`. `PolicyInv` has for each
request of `ensureKeeneticPolicy` what the operation has in hand (`Shape`), and, as long as nobody else acted, what that says of NDM (`Promise`: the mark
in hand is the policy's, the WAN is permitted, what was saved is what runs), of `state.json` (`Stored`), and how far an `--uninstall` has come (`Forgotten`).

`RoutingProofs` assumes that no process is called as the free lock is, and that the program starts with a `routing.json` that is missing, does not
load, or is valid. `TypeCorrect`, `WrittenDocumentLoads` and `CoreCatchesUp` hold for any number of requests and any sets of rules, tags
and rule sets. `RoutingInv` says what a request has in hand at each step (`Request`), who needs the lock there (`Holder`), and how new that is
(`Fresh`): under the lock, what was rendered or lies in the file is no older than what was reported as running so far and than what this request will
report, or somebody is `Behind`: an apply wrote the file without the lock and has yet to take it, or gave up. So the restart
of an apply has to read the document again under the lock: what it wrote before may have been overwritten by an older apply.

Only model-checked: `LocksAreReleased`, `WatchdogRestores`, `AutoUpdateCatchesUp` and `MarkIsFollowed`, which are liveness (fairness is outside this prover), and three action
properties of `Routing`, `InboundsFitMode`, `WrittenConfigRoutesAsDocument` and `AddedPresetYields`. These are about what `Render` computes from lists of
rules with `SelectSeq` and `FlattenSeq`; for every list that would be an induction over data, which the installed provers cannot do, so they are checked over
the documents the run reaches. Every safety invariant of a passing run is a theorem.

## 5. Where the code and its documents disagree

With a run (details and quotations in `PROJECT.json`, `findings`):

* `service_orphan`: a status without a lock can remove the PID file of a process that has just started.
* `install_current`: the ETag is kept when an installation fails, and the next update takes 304 for "already installed".
* `routing_presets`: mihomo gets one line per condition, so "UDP and these ports" becomes "UDP, or these ports".

Found by TLC too, with properties that made room for these. Each is a short behaviour of the modules as they are:

* *Store.* CLI mutations and Web UI edits use different flocks, so the save of one undoes the other (ARCHITECTURE.md:153-156 says of
  `withStateMutation` that it has nothing to do with that race). `StaleOnlyAcrossLocks` says that there is no other way. The hostlist updater and
  `--core` take no flock at all.
* *Recovery.* A `--stop` between the two halves of the shim's start is undone by the daemon the shim then starts
  (`cmd_lifecycle.go:221-223` says why the daemon must end first). `--restart` and Apply of the Web UI end the daemon, which only the shim
  starts (BEHAVIOR_SPEC.md:854: it ends with `S99signcraze stop`).
* *Recovery.* The hook's second reapply always falls into the throttle of the first (`netfilter_hook.go:41-42` says it
  catches what the first one missed).
* *Firewall.* Reconcile appends its FORWARD rules again (`applier.go:38-39`: "no-op"). The saved fast-path value is removed even if it could not be
  restored; the next Apply saves its own zeros (`fastpath.go:98-100`: restored, then removed). In ModeFull `signcraze_ports` has no RETURN and
  captures excluded destinations and admin ports that are on the port list (BEHAVIOR_SPEC.md:236: past sing-box).
* *Service.* `--start` of a running service removes its rules and stops its peers under a live core (BEHAVIOR_SPEC.md:1086).
* *Install.* With xray or mihomo a complete `--uninstall` leaves `state.json`, and `--install` refuses and advises `--uninstall` (`cmd_install.go`,
  OPERATIONS.md:420-424).
* *Routing.* xray gets `domain:full:x` and `domain:keyword:x`, which it reads as the domains "full:x" and "keyword:x", so that such a rule catches
  nothing (ARCHITECTURE.md:182 and Routing-Reference.md:45 have `full:` and `keyword:`). With `direct` or `block` among the
  outbounds `xray/render.go` leaves out the one its rules name (63-66: added automatically).
* *DPI.* Nobody looks whether the files nfqws2 needs are there once the archive is unpacked (`cmd_dpi.go:119-124` says it dies without them).
  `--hostlist` limits the last strategy only; UDP and QUIC are desynced for everybody (`state.go:72-74`: only what matches). After `--dpi-targets clear` the list stays, so nfqws2 remains limited to it (`cmd_dpi.go:310` and BEHAVIOR_SPEC.md:280 say
  all traffic is processed again).
* *Policy.* A failed DeletePolicy skips SaveConfig, so a reboot undoes the unbinding (BEHAVIOR_SPEC.md:827-834: errors do not interrupt). The policy is created with the WAN permitted, and EnsurePolicy insists on it, so a bound device goes out unproxied between a
  rebuild and the hook; BEHAVIOR_SPEC.md:781-788 describes a policy without permit that leaks nothing.

Seen while modelling, not stated as properties:

* A rollback runs in the command's own context. Once that is cancelled (Ctrl-C, or the browser leaves
  during Apply) no iptables call of the rollback runs; `FailedStartIsUndone` excepts interrupted commands.
* Over TUN a Reconcile that fails after its batches leaves the critical rules without bypass rules or the drop on the WAN, and the watchdog, which tests
  the critical ones only, does not repair that (`WatchdogRestores` is about the critical rules there).
* A throttle marker that cannot be written is a line in the debug log; the next reapply is not held back (`lapsed`).
* `--uninstall` reports a complete clean-up although removals failed. An update of the host list whose every source failed writes the targets alone and is dated.
* naive is not taken back when a later step of a start fails; peers that were removed from `state.json`
  are stopped by nobody; several naive outbounds share one PID file.
* `CheckCriticalRules` always misses a rule in the TPROXY and REDIRECT variants of policy mode, so
  the watchdog reconciles on every tick there.
* `InvalidateWANCache` has no effect: the first detection is copied into the configuration.
* The `-D` of the DPI jump repeats options the rule was not added with.
* Killed between ETag and checksum, a download leaves an unverified archive that the next 304 installs
  (BEHAVIOR_SPEC.md:166; the exception of `OnlyVerified`). So does a kill before the ETag is written, if an earlier archive of that
  release was refused: the file was removed then, its ETag was not.
* `DeleteJumpAll` gives up after 16 copies of a jump without an error; each lost deletion can leave one (`Deletable`).
* The rollback of BEHAVIOR_SPEC.md:68 does not run for xray and mihomo: their adapters pass no configuration to check. `--update-core`
  overwrites the configuration with one rendered without `routing.json`, and checks that. An archive that breaks off in mid-stream
  leaves only the backup. A configuration that failed its check is started by the second `--start`, which finds it unchanged.
* The `*.bak.*` files stay after every `--uninstall`.
* A `routing.json` that does not load is an empty document to the editor, so the next edit replaces it. Overlapping edits
  of `routing.json` lose one another (two drafts, two editors, an edit and the migration's save). Rule indexes are those of the list the browser
  saw. A rule cannot be moved down by one place.
* A preset applied again after a switch of the core keeps the former core's rule set URL; applied under xray it adds no rule sets,
  which a later sing-box misses. `final` "block" is accepted, but sing-box has no such outbound. A "mixed" inbound keeps the tproxy inbound away in
  TPROXY mode. xray: a rule with nothing but a source port catches everything; a rule set it has no name for makes a rule with another
  condition broader. xray and mihomo ignore `invert`.
* An apply that is cancelled between its write and its restart leaves a configuration nothing runs (`gaveUp`).
* `--dpi-update-now` and then a restart replaces the list by the targets alone. The interval's default is 0, not 24
  (BEHAVIOR_SPEC.md:347). `--dpi-strategy default` is passed to nfqws2 as it is (OPERATIONS.md:337). `--dpi-update` with 304 does not bring a missing
  binary back. The backup that step 3 of the installation should restore is not.
* The WAN interface is cached in `state.json` for ever: after a change of WAN EnsurePolicy rebuilds the policy for the old interface, over
  an operator's repair. Every tick of the watchdog calls SaveConfig, which by BEHAVIOR_SPEC.md:733-734 may itself make NDM rebuild its tables. After `--mode full` an uninstall leaves the policy.

## 6. What is not modelled

Components marked `not_modelled` in `PROJECT.json`, with the reason: proxy links, geo data and command dispatch are functions over
bytes without state; the ipset loader, backup, diagnostics, peer ports and the support packages are plain I/O whose steps meet no
other actor; the web server is plumbing before the managers and handlers that are modelled.

Inside the modelled ones: IP families
(the code runs the same calls for both), port lists and ipset contents, texts of error messages, the
migration of old documents, log rotation, the wait for the default route and the retry of a missing
kernel module in `--service-start`, and the UI daemon that `--restart` stops and starts. The clock of
`RuleRecovery` is monotonic; the marker's age in the code is wall-clock time. `Install`: `--install-offline`, interactive
questions, opkg. `Render`: source ports, `invert`, inbound matchers, DNS, the details of outbound protocols. `Routing`: validate and
preview, which write nothing, and requests a handler refuses, which change nothing. `Dpi`: `nfqws2.conf`, which is for the operator, and `--dpi-exclude-ips`,
which is about the firewall. `Policy`: the modes without a policy.

## 7. Plan

Done: the modules above, and every safety invariant of their runs as a theorem. What would come next, most useful first: the composition
of `Policy` and `RuleRecovery` (a tick that repairs the policy while the hook restores rules for the former mark); the refinement of
`Install` to a slot that holds a verified binary, whose steps `InstallInv` already classifies; that of `Firewall`'s operations to
the "complete or not" of `RuleRecovery`.
