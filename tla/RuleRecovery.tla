---------------------------- MODULE RuleRecovery ----------------------------
(***************************************************************************)
(* Who keeps the iptables rules in place while the router's own firewall   *)
(* (NDM) rebuilds its tables behind sign-craze's back:                     *)
(*                                                                         *)
(*  - NDM runs the netfilter.d hook once per rebuilt table; the hook calls *)
(*    `sign-craze --reapply`, which is throttled by the age of a marker;   *)
(*  - the watchdog daemon restores missing rules every WatchdogPeriod;     *)
(*  - --start, --stop, --restart put the rules in place and take them away *)
(*    under the main lock, directly or through the init.d shim, which also *)
(*    starts and stops the watchdog.                                       *)
(*                                                                         *)
(* Time is discrete: one Tick is one unit (a second in the code).          *)
(***************************************************************************)
EXTENDS Naturals, FiniteSets

CONSTANTS Hook,            \* hook processes that can run at the same time
          Cmd,             \* shells from which commands are given
          Watchdog, NoOne, \* the daemon, and nobody, as holders of a lock
          Owned,           \* tables the rules of the current mode live in
          Tun,             \* the mode goes through the TUN device
          Ops,             \* commands given in this instance
          ViaShim,         \* the ways they are given: TRUE for S99signcraze
          HaveFlock,       \* the router has a flock binary
          Throttle,        \* reapplyThrottlePeriod
          TrailSleep,      \* sleep of the hook between its two reapplies
          WatchdogPeriod,  \* DefaultWatchdogInterval
          MaxEvents, MaxCmds, MaxFaults   \* bounds of the exploration

Table == {"mangle", "nat", "filter"}
AllOps == {"start", "stop", "restart", "other"}

ASSUME OwnedAssumption == Owned \subseteq Table /\ Owned # {}
ASSUME OpsAssumption == Ops \subseteq AllOps
ASSUME SwitchAssumption == HaveFlock \in BOOLEAN /\ Tun \in BOOLEAN /\ ViaShim \subseteq BOOLEAN
ASSUME TimeAssumption == /\ Throttle \in Nat /\ TrailSleep \in Nat
                         /\ WatchdogPeriod \in Nat
ASSUME BoundAssumption == MaxEvents \in Nat /\ MaxCmds \in Nat /\ MaxFaults \in Nat
ASSUME ActorAssumption == /\ NoOne # Watchdog
                          /\ {NoOne, Watchdog} \cap (Hook \cup Cmd) = {}
                          /\ Hook \cap Cmd = {}

VARIABLES rules,     \* tables whose critical rules are there, and tables whose other rules are
          coreUp,    \* the core runs
          pidFile,   \* its PID file exists
          lock,      \* holder of the main lock
          hookLock,  \* holder of sign-craze-hook.lock
          pending,   \* sign-craze-hook.pending exists
          hook,      \* hook[h]: its place in the script, whether it is in the trailing reapply, its nap
          wd,        \* the watchdog: alive, at, time to the next tick
          cmd,       \* cmd[c]: its place, the command, whether it came through the shim
          age,       \* age of the throttle marker, Throttle and more are one value
          quiet,     \* history: time since a reapply last put the rules back
          lapsed,    \* history: that reapply ended without its marker
          stopped,   \* history: the last command that took the lock for the service was --stop
          used       \* events, commands and faults so far

svc == <<coreUp, pidFile, stopped>>
hooks == <<hookLock, pending, hook>>
clocks == <<age, quiet, lapsed>>
vars == <<rules, coreUp, pidFile, lock, hookLock, pending, hook, wd, cmd, age, quiet, lapsed, stopped, used>>

HookAt == {"off", "flock", "throttle", "lock", "apply", "touch", "sleep", "exit"}
CmdAt == {"idle", "prep", "lock", "halt", "remove", "apply", "launch", "rollback", "other", "tail"}

\* Critical rules are what CheckCriticalRules asks for (the jumps and the FORWARD
\* ACCEPTs of the TUN device); the others are the bypass at the top of a chain
\* and the drop of the Web UI's ports on the WAN.
Rules == [critical : SUBSET Owned, others : SUBSET Owned]
NoRules == [critical |-> {}, others |-> {}]
AllRules == [critical |-> Owned, others |-> Owned]

NoHook == [at |-> "off", trailing |-> FALSE, nap |-> 0]
NoCmd == [at |-> "idle", op |-> "other", shim |-> FALSE]

Init ==
  /\ rules = NoRules /\ coreUp = FALSE /\ pidFile = FALSE
  /\ lock = NoOne /\ hookLock = NoOne /\ pending = FALSE
  /\ hook = [h \in Hook |-> NoHook]
  /\ wd = [alive |-> FALSE, at |-> "idle", next |-> 0]
  /\ cmd = [c \in Cmd |-> NoCmd]
  /\ age = Throttle /\ quiet = Throttle /\ lapsed = FALSE
  /\ stopped = FALSE
  /\ used = [events |-> 0, cmds |-> 0, faults |-> 0]

Spend(what, max) == used[what] < max /\ used' = [used EXCEPT ![what] = @ + 1]

-----------------------------------------------------------------------------
(* NDM and the hook.                                                       *)

\* Which rebuilds get past the case statement and the PID-file test.
Heeded(t) == t = "mangle" /\ pidFile

\* NDM rebuilds table t (our rules in it are gone) and runs the hook. A hook
\* that exits at once leaves no trace.
Rebuild(t) ==
  /\ Spend("events", MaxEvents)
  /\ rules' = [critical |-> rules.critical \ {t}, others |-> rules.others \ {t}]
  /\ \/ ~Heeded(t) /\ hook' = hook
     \/ /\ Heeded(t)
        /\ \E h \in Hook :
             /\ hook[h].at = "off"
             /\ hook' = [hook EXCEPT ![h] = [NoHook EXCEPT !.at = IF HaveFlock THEN "flock" ELSE "throttle"]]
  /\ UNCHANGED <<svc, lock, hookLock, pending, wd, cmd, clocks>>

\* flock -x -n 9, or touch pending and leave.
HookFlock(h) ==
  /\ hook[h].at = "flock"
  /\ \/ /\ hookLock = NoOne
        /\ hookLock' = h
        /\ hook' = [hook EXCEPT ![h].at = "throttle"]
        /\ UNCHANGED pending
     \/ /\ hookLock # NoOne
        /\ pending' = TRUE
        /\ hook' = [hook EXCEPT ![h] = NoHook]
        /\ UNCHANGED hookLock
  /\ UNCHANGED <<rules, svc, lock, wd, cmd, clocks, used>>

\* --reapply is over, however it ended: the hook sleeps, or ends after the
\* trailing one; without flock there is only one.
Reapplied(h) ==
  hook' = [hook EXCEPT ![h] = IF ~HaveFlock THEN NoHook
                              ELSE IF hook[h].trailing THEN [@ EXCEPT !.at = "exit"]
                              ELSE [@ EXCEPT !.at = "sleep", !.nap = TrailSleep]]

\* handleReapply looks at the marker before it takes the lock.
ReapplyThrottled(h) ==
  /\ hook[h].at = "throttle"
  /\ IF age < Throttle THEN Reapplied(h) ELSE hook' = [hook EXCEPT ![h].at = "lock"]
  /\ UNCHANGED <<rules, svc, lock, hookLock, pending, wd, cmd, clocks, used>>

\* Mutant: --reapply does not ask whether the core runs.
ReapplyLockUnasked(h) ==
  /\ hook[h].at = "lock"
  /\ IF lock = NoOne
       THEN lock' = h /\ hook' = [hook EXCEPT ![h].at = "apply"]
       ELSE Reapplied(h) /\ UNCHANGED lock
  /\ UNCHANGED <<rules, coreUp, pidFile, stopped, hookLock, pending, wd, cmd, clocks, used>>

\* TryAcquire, then Status of the core, which removes a stale PID file.
ReapplyLock(h) ==
  /\ hook[h].at = "lock"
  /\ \/ lock # NoOne /\ Reapplied(h) /\ UNCHANGED <<lock, pidFile>>
     \/ /\ lock = NoOne /\ coreUp
        /\ lock' = h /\ hook' = [hook EXCEPT ![h].at = "apply"] /\ UNCHANGED pidFile
     \/ /\ lock = NoOne /\ ~coreUp
        /\ pidFile' = FALSE /\ Reapplied(h) /\ UNCHANGED lock
  /\ UNCHANGED <<rules, coreUp, stopped, hookLock, pending, wd, cmd, clocks, used>>

\* Reconcile puts every rule back.
ReapplyApply(h) ==
  /\ hook[h].at = "apply"
  /\ rules' = AllRules /\ quiet' = 0
  /\ hook' = [hook EXCEPT ![h].at = "touch"]
  /\ UNCHANGED <<svc, lock, hookLock, pending, wd, cmd, age, lapsed, used>>

\* Reconcile fails or is killed on the way: the jump it deleted first may be
\* missing, some tables may be done, or all of them but for the bypass and the
\* drop that come last. The marker is not touched.
ReapplyFails(h) ==
  /\ hook[h].at = "apply"
  /\ Spend("faults", MaxFaults)
  /\ rules' \in Rules
  /\ lock' = NoOne /\ Reapplied(h)
  /\ UNCHANGED <<svc, hookLock, pending, wd, cmd, clocks>>

\* Mutant: the marker is created once and never touched again.
ReapplyTouchNever(h) ==
  /\ hook[h].at = "touch"
  /\ lapsed' = FALSE
  /\ lock' = NoOne /\ Reapplied(h)
  /\ UNCHANGED <<rules, svc, hookLock, pending, wd, cmd, age, quiet, used>>

ReapplyTouch(h) ==
  /\ hook[h].at = "touch"
  /\ age' = 0 /\ lapsed' = FALSE
  /\ lock' = NoOne /\ Reapplied(h)
  /\ UNCHANGED <<rules, svc, hookLock, pending, wd, cmd, quiet, used>>

\* The marker can be neither touched nor created (a Debug line), or --reapply is
\* killed before it gets there: the rules are back and the marker is old.
ReapplyUntouched(h) ==
  /\ hook[h].at = "touch"
  /\ Spend("faults", MaxFaults)
  /\ lapsed' = TRUE
  /\ lock' = NoOne /\ Reapplied(h)
  /\ UNCHANGED <<rules, svc, hookLock, pending, wd, cmd, age, quiet>>

\* The sleep is over: one trailing reapply if somebody left the marker.
HookWake(h) ==
  /\ hook[h].at = "sleep" /\ hook[h].nap = 0
  /\ pending' = FALSE
  /\ hook' = [hook EXCEPT ![h] = IF pending THEN [@ EXCEPT !.at = "throttle", !.trailing = TRUE]
                                            ELSE [@ EXCEPT !.at = "exit"]]
  /\ UNCHANGED <<rules, svc, lock, hookLock, wd, cmd, clocks, used>>

\* The shell exits, descriptor 9 is closed.
HookExit(h) ==
  /\ hook[h].at = "exit"
  /\ hookLock' = NoOne
  /\ hook' = [hook EXCEPT ![h] = NoHook]
  /\ UNCHANGED <<rules, svc, lock, pending, wd, cmd, clocks, used>>

-----------------------------------------------------------------------------
(* The watchdog daemon: reconcileFirewall under its ticker.                *)

WatchdogSkip ==
  /\ wd.alive /\ wd.at = "idle" /\ wd.next = 0 /\ lock # NoOne
  /\ wd' = [wd EXCEPT !.next = WatchdogPeriod]
  /\ UNCHANGED <<rules, svc, lock, hooks, cmd, clocks, used>>

WatchdogLock ==
  /\ wd.alive /\ wd.at = "idle" /\ wd.next = 0 /\ lock = NoOne
  /\ lock' = Watchdog
  /\ wd' = [wd EXCEPT !.at = "apply", !.next = WatchdogPeriod]
  /\ UNCHANGED <<rules, svc, hooks, cmd, clocks, used>>

\* Mutant: CheckCriticalRules does not ask for the FORWARD rules.
MissingJump == ~Tun \/ "mangle" \notin rules.critical

\* CheckCriticalRules. It asks for the TUN device's rules in every mode: over
\* TPROXY and REDIRECT, which have none, something is always missing.
Missing == ~Tun \/ rules.critical # Owned

\* Where a critical rule is missing every rule is put back, the core running or
\* not; where none is, nothing is done, whatever else is missing.
WatchdogApply ==
  /\ wd.at = "apply"
  /\ rules' = IF Missing THEN AllRules ELSE rules
  /\ lock' = NoOne /\ wd' = [wd EXCEPT !.at = "idle"]
  /\ UNCHANGED <<svc, hooks, cmd, clocks, used>>

\* Mutant: the error path of reconcileFirewall returns without Release.
WatchdogFailsLocked ==
  /\ wd.at = "apply"
  /\ Spend("faults", MaxFaults)
  /\ rules' = rules \/ (Missing /\ rules' \in Rules)
  /\ wd' = [wd EXCEPT !.at = "idle"]
  /\ UNCHANGED <<lock, svc, hooks, cmd, clocks>>

\* loadState, newFirewallApplier or Reconcile fails, or the process is told to
\* end in the middle: a warning, and the next tick tries again.
WatchdogFails ==
  /\ wd.at = "apply"
  /\ Spend("faults", MaxFaults)
  /\ rules' = rules \/ (Missing /\ rules' \in Rules)
  /\ lock' = NoOne /\ wd' = [wd EXCEPT !.at = "idle"]
  /\ UNCHANGED <<svc, hooks, cmd, clocks>>

-----------------------------------------------------------------------------
(* Commands.                                                               *)

Submit(c, op, shim) ==
  /\ cmd[c].at = "idle" /\ op \in Ops
  /\ Spend("cmds", MaxCmds)
  /\ cmd' = [cmd EXCEPT ![c] = [at |-> IF shim /\ op \in {"stop", "restart"} THEN "prep" ELSE "lock",
                                op |-> op, shim |-> shim]]
  /\ UNCHANGED <<rules, svc, lock, hooks, wd, clocks>>

\* stop_watchdog of the shim: a signal and no wait, outside any lock.
ShimStopWatchdog(c) ==
  /\ cmd[c].at = "prep"
  /\ wd' = [wd EXCEPT !.alive = FALSE]
  /\ cmd' = [cmd EXCEPT ![c].at = "lock"]
  /\ UNCHANGED <<rules, svc, lock, hooks, clocks, used>>

First(op) == CASE op = "start" -> "apply" [] op = "other" -> "other" [] OTHER -> "halt"

CmdLock(c) ==
  /\ cmd[c].at = "lock" /\ lock = NoOne
  /\ lock' = c
  /\ cmd' = [cmd EXCEPT ![c].at = First(cmd[c].op)]
  /\ stopped' = (stopped /\ cmd[c].op \in {"stop", "other"})
  /\ UNCHANGED <<rules, coreUp, pidFile, hooks, wd, clocks, used>>

\* doStop: stopWatchdog first, then every core.
CmdHalt(c) ==
  /\ cmd[c].at = "halt"
  /\ wd' = [wd EXCEPT !.alive = FALSE]
  /\ coreUp' = FALSE /\ pidFile' = FALSE
  /\ cmd' = [cmd EXCEPT ![c].at = "remove"]
  /\ UNCHANGED <<rules, stopped, lock, hooks, clocks, used>>

\* The command is over: the lock is free; the shim goes on only after success.
Done(c, ok) ==
  /\ lock' = NoOne
  /\ cmd' = [cmd EXCEPT ![c] = IF ok /\ cmd[c].shim /\ cmd[c].op \in {"start", "restart"}
                                 THEN [@ EXCEPT !.at = "tail"] ELSE NoCmd]

\* doStop: applier.Remove.
CmdRemove(c) ==
  /\ cmd[c].at = "remove"
  /\ rules' = NoRules
  /\ stopped' = (cmd[c].op = "stop")
  /\ IF cmd[c].op = "stop" THEN Done(c, TRUE)
     ELSE cmd' = [cmd EXCEPT ![c].at = "apply"] /\ UNCHANGED lock
  /\ UNCHANGED <<coreUp, pidFile, hooks, wd, clocks, used>>

\* doStart: applier.Apply.
CmdApply(c) ==
  /\ cmd[c].at = "apply"
  /\ rules' = AllRules
  /\ cmd' = [cmd EXCEPT ![c].at = "launch"]
  /\ UNCHANGED <<svc, lock, hooks, wd, clocks, used>>

\* Apply fails and rolls back; --service-start tries again when a netfilter
\* module was missing.
CmdApplyFails(c) ==
  /\ cmd[c].at = "apply"
  /\ Spend("faults", MaxFaults)
  /\ rules' = NoRules
  /\ \/ Done(c, FALSE)
     \/ /\ cmd[c].shim /\ cmd[c].op = "start"
        /\ lock' = NoOne /\ cmd' = [cmd EXCEPT ![c].at = "lock"]
  /\ UNCHANGED <<svc, hooks, wd, clocks>>

\* coreLC.Start writes the PID file; the service is up.
CmdLaunch(c) ==
  /\ cmd[c].at = "launch" /\ ~coreUp
  /\ coreUp' = TRUE /\ pidFile' = TRUE
  /\ Done(c, TRUE)
  /\ UNCHANGED <<rules, stopped, hooks, wd, clocks, used>>

\* Start refuses because the core runs already, or the core dies at once.
CmdLaunchFails(c) ==
  /\ cmd[c].at = "launch"
  /\ \/ coreUp /\ UNCHANGED <<pidFile, used>>
     \/ ~coreUp /\ Spend("faults", MaxFaults) /\ pidFile' = FALSE
  /\ cmd' = [cmd EXCEPT ![c].at = "rollback"]
  /\ UNCHANGED <<rules, coreUp, stopped, lock, hooks, wd, clocks>>

\* doStart removes the firewall again, whatever was there before.
CmdRollback(c) ==
  /\ cmd[c].at = "rollback"
  /\ rules' = NoRules
  /\ Done(c, FALSE)
  /\ UNCHANGED <<svc, hooks, wd, clocks, used>>

\* --port-add, --update-geo, ...: hold the lock and leave the firewall alone.
CmdOther(c) ==
  /\ cmd[c].at = "other"
  /\ Done(c, TRUE)
  /\ UNCHANGED <<rules, svc, hooks, wd, clocks, used>>

\* start_watchdog of the shim, after `run` came back: no lock is held.
ShimStartWatchdog(c) ==
  /\ cmd[c].at = "tail"
  /\ wd' = IF wd.alive THEN wd ELSE [wd EXCEPT !.alive = TRUE, !.next = WatchdogPeriod]
  /\ cmd' = [cmd EXCEPT ![c] = NoCmd]
  /\ UNCHANGED <<rules, svc, lock, hooks, clocks, used>>

\* The command is killed: the kernel frees the flock, nothing is undone.
CmdCrash(c) ==
  /\ cmd[c].at # "idle"
  /\ Spend("faults", MaxFaults)
  /\ lock' = IF lock = c THEN NoOne ELSE lock
  /\ cmd' = [cmd EXCEPT ![c] = NoCmd]
  /\ UNCHANGED <<rules, svc, hooks, wd, clocks>>

\* The core dies; its PID file stays until somebody asks for the status.
CoreCrash ==
  /\ coreUp
  /\ Spend("faults", MaxFaults)
  /\ coreUp' = FALSE
  /\ UNCHANGED <<rules, pidFile, stopped, lock, hooks, wd, cmd, clocks>>

-----------------------------------------------------------------------------

Down(n) == IF n = 0 THEN 0 ELSE n - 1

Up(n) == IF n < Throttle THEN n + 1 ELSE Throttle

Tick ==
  /\ age' = Up(age) /\ quiet' = Up(quiet) /\ lapsed' = lapsed
  /\ hook' = [h \in Hook |-> [hook[h] EXCEPT !.nap = Down(@)]]
  /\ wd' = [wd EXCEPT !.next = Down(@)]
  /\ UNCHANGED <<rules, svc, lock, hookLock, pending, cmd, used>>

HookStep(h) == \/ HookFlock(h) \/ ReapplyThrottled(h) \/ ReapplyLock(h) \/ ReapplyApply(h)
               \/ ReapplyFails(h) \/ ReapplyTouch(h) \/ ReapplyUntouched(h)
               \/ HookWake(h) \/ HookExit(h)

WatchdogStep == WatchdogSkip \/ WatchdogLock \/ WatchdogApply \/ WatchdogFails

CmdStep(c) == \/ ShimStopWatchdog(c) \/ CmdLock(c) \/ CmdHalt(c) \/ CmdRemove(c) \/ CmdApply(c)
              \/ CmdApplyFails(c) \/ CmdLaunch(c) \/ CmdLaunchFails(c) \/ CmdRollback(c)
              \/ CmdOther(c) \/ ShimStartWatchdog(c)

Next == \/ \E t \in Table : Rebuild(t)
        \/ \E h \in Hook : HookStep(h)
        \/ WatchdogStep
        \/ \E c \in Cmd : \/ \E op \in Ops, shim \in ViaShim : Submit(c, op, shim)
                          \/ CmdStep(c) \/ CmdCrash(c)
        \/ CoreCrash
        \/ Tick

Spec == Init /\ [][Next]_vars

\* Time passes and every process that can take a step is run at last.
FairSpec == /\ Spec
            /\ WF_vars(Tick)
            /\ WF_vars(WatchdogStep)
            /\ \A h \in Hook : WF_vars(HookStep(h))
            /\ \A c \in Cmd : WF_vars(CmdStep(c))

-----------------------------------------------------------------------------
(* Properties.                                                             *)

Holder == {NoOne, Watchdog} \cup Hook \cup Cmd

Writing(x) == \/ x \in Hook /\ hook[x].at \in {"apply", "touch"}
              \/ x = Watchdog /\ wd.at = "apply"
              \/ x \in Cmd /\ cmd[x].at \in {"halt", "remove", "apply", "launch", "rollback", "other"}

\* The variables have their types, and whoever is between TryAcquire and Release
\* of the main lock is its holder, so firewall writers never overlap.
TypeOK ==
  /\ rules \in Rules
  /\ coreUp \in BOOLEAN /\ pidFile \in BOOLEAN /\ pending \in BOOLEAN
  /\ stopped \in BOOLEAN /\ lapsed \in BOOLEAN
  /\ lock \in Holder /\ hookLock \in Hook \cup {NoOne}
  /\ hook \in [Hook -> [at : HookAt, trailing : BOOLEAN, nap : 0..TrailSleep]]
  /\ wd \in [alive : BOOLEAN, at : {"idle", "apply"}, next : 0..WatchdogPeriod]
  /\ cmd \in [Cmd -> [at : CmdAt, op : AllOps, shim : BOOLEAN]]
  /\ age \in 0..Throttle /\ quiet \in 0..Throttle
  /\ used \in [events : 0..MaxEvents, cmds : 0..MaxCmds, faults : 0..MaxFaults]
  /\ \A x \in Hook \cup Cmd \cup {Watchdog} : Writing(x) <=> lock = x

\* After --stop no rule comes back, whoever was about to restore one: the hook
\* asks for the core under the lock, the daemon is told to end before Remove.
StopsForGood == stopped => rules = NoRules

\* Two reapplies put the rules back at least Throttle apart (reapplyThrottled),
\* unless the earlier could not write its marker or was killed before it did.
ThrottleHolds ==
  [][\A h \in Hook : hook[h].at = "apply" /\ hook'[h].at = "touch" => (quiet >= Throttle \/ lapsed)]_vars

\* While the daemon lives, critical rules that a rebuild or a failed command
\* took away come back, and over TPROXY and REDIRECT every rule does
\* (Watchdog.Run retries for ever, a busy lock only costs a tick).
Whole == rules.critical = Owned /\ (Tun \/ rules.others = Owned)
WatchdogRestores == (wd.alive /\ ~Whole) ~> (Whole \/ ~wd.alive)
=============================================================================
