------------------------- MODULE RuleRecoveryProofs -------------------------
(***************************************************************************)
(* Theorems about RuleRecovery: types and the main lock, the throttle of   *)
(* --reapply, and that no rule comes back after --stop.                    *)
(***************************************************************************)
EXTENDS RuleRecovery, TLAPS

HookType == [at : HookAt, trailing : BOOLEAN, nap : 0..TrailSleep]
CmdType == [at : CmdAt, op : AllOps, shim : BOOLEAN]
WdType == [alive : BOOLEAN, at : {"idle", "apply"}, next : 0..WatchdogPeriod]
UsedType == [events : 0..MaxEvents, cmds : 0..MaxCmds, faults : 0..MaxFaults]

\* The two halves of TypeOK.
Types ==
  /\ rules \in Rules
  /\ coreUp \in BOOLEAN /\ pidFile \in BOOLEAN /\ pending \in BOOLEAN
  /\ stopped \in BOOLEAN /\ lapsed \in BOOLEAN
  /\ lock \in Holder /\ hookLock \in Hook \cup {NoOne}
  /\ hook \in [Hook -> HookType] /\ wd \in WdType /\ cmd \in [Cmd -> CmdType]
  /\ age \in 0..Throttle /\ quiet \in 0..Throttle
  /\ used \in UsedType
Exclusive == \A x \in Hook \cup Cmd \cup {Watchdog} : Writing(x) <=> lock = x

\* TypeOK is the two of them.
LEMMA Halves == TypeOK <=> Types /\ Exclusive
BY DEF TypeOK, Types, Exclusive, HookType, CmdType, WdType, UsedType

-----------------------------------------------------------------------------
(* Types.                                                                  *)

\* A budget that is spent stays within its bound.
LEMMA SpendType ==
  ASSUME used \in UsedType, NEW what \in {"events", "cmds", "faults"}, NEW max,
         max = IF what = "events" THEN MaxEvents ELSE IF what = "cmds" THEN MaxCmds ELSE MaxFaults,
         Spend(what, max)
  PROVE  used' \in UsedType
BY BoundAssumption DEF Spend, UsedType

\* The record of a hook keeps its type when an action changes a field or two.
LEMMA HookRecord ==
  ASSUME NEW r \in HookType
  PROVE  /\ NoHook \in HookType
         /\ \A at \in HookAt : [r EXCEPT !.at = at] \in HookType /\ [NoHook EXCEPT !.at = at] \in HookType
         /\ \A at \in HookAt, trailing \in BOOLEAN : [r EXCEPT !.at = at, !.trailing = trailing] \in HookType
         /\ \A at \in HookAt, nap \in 0..TrailSleep : [r EXCEPT !.at = at, !.nap = nap] \in HookType
         /\ \A nap \in 0..TrailSleep : [r EXCEPT !.nap = nap] \in HookType
<1>1. NoHook \in HookType
  BY TimeAssumption DEF HookType, HookAt, NoHook
<1>2. QED
  BY <1>1 DEF HookType

\* The daemon's record, likewise.
LEMMA WdRecord ==
  ASSUME NEW r \in WdType
  PROVE  /\ \A alive \in BOOLEAN : [r EXCEPT !.alive = alive] \in WdType
         /\ \A next \in 0..WatchdogPeriod : [r EXCEPT !.next = next] \in WdType
         /\ \A at \in {"idle", "apply"} : [r EXCEPT !.at = at] \in WdType
         /\ \A at \in {"idle", "apply"}, next \in 0..WatchdogPeriod : [r EXCEPT !.at = at, !.next = next] \in WdType
         /\ \A alive \in BOOLEAN, next \in 0..WatchdogPeriod : [r EXCEPT !.alive = alive, !.next = next] \in WdType
BY DEF WdType

\* A clock counts down to 0 and up to the throttle.
LEMMA Clocks ==
  /\ \A n \in 0..TrailSleep : Down(n) \in 0..TrailSleep
  /\ \A n \in 0..WatchdogPeriod : Down(n) \in 0..WatchdogPeriod
  /\ \A n \in 0..Throttle : Up(n) \in 0..Throttle
  /\ 0 \in 0..Throttle /\ TrailSleep \in 0..TrailSleep /\ WatchdogPeriod \in 0..WatchdogPeriod
BY TimeAssumption DEF Down, Up

\* The hook after its --reapply.
LEMMA ReappliedType ==
  ASSUME hook \in [Hook -> HookType], NEW h \in Hook, Reapplied(h)
  PROVE  hook' \in [Hook -> HookType]
<1>1. {"exit", "sleep"} \subseteq HookAt
  BY DEF HookAt
<1>2. \E after \in HookType : hook' = [hook EXCEPT ![h] = after]
  BY <1>1, HookRecord, Clocks DEF Reapplied
<1>3. QED
  BY <1>2

\* A command and the lock after it is over.
LEMMA DoneType ==
  ASSUME cmd \in [Cmd -> CmdType], NEW c \in Cmd, NEW ok, Done(c, ok)
  PROVE  cmd' \in [Cmd -> CmdType] /\ lock' \in Holder
<1> DEFINE after == IF ok /\ cmd[c].shim /\ cmd[c].op \in {"start", "restart"}
                      THEN [cmd[c] EXCEPT !.at = "tail"] ELSE NoCmd
<1>1. after \in CmdType
  BY DEF CmdType, CmdAt, AllOps, NoCmd
<1>2. cmd' = [cmd EXCEPT ![c] = after]
  BY DEF Done
<1>3. QED
  BY <1>1, <1>2 DEF Done, Holder

\* All rules, none, and what a rebuild leaves of some.
LEMMA RuleSets ==
  /\ NoRules \in Rules /\ AllRules \in Rules
  /\ \A r \in Rules, t \in Table : [critical |-> r.critical \ {t}, others |-> r.others \ {t}] \in Rules
BY OwnedAssumption DEF NoRules, AllRules, Rules

\* The types hold at first, and after every step of each kind.
LEMMA TypesInit == Init => Types
<1> SUFFICES ASSUME Init PROVE Types
  OBVIOUS
<1>1. NoHook \in HookType /\ NoCmd \in CmdType
  BY TimeAssumption DEF HookType, HookAt, NoHook, CmdType, CmdAt, AllOps, NoCmd
<1>2. wd \in WdType /\ used \in UsedType
  BY TimeAssumption, BoundAssumption DEF Init, WdType, UsedType
<1>3. age \in 0..Throttle /\ quiet \in 0..Throttle
  BY TimeAssumption DEF Init
<1>4. QED
  BY <1>1, <1>2, <1>3, RuleSets DEF Init, Types, Holder

\* A step of a hook keeps the types.
LEMMA TypesHook == ASSUME Types, NEW h \in Hook, HookStep(h) PROVE Types'
<1> USE DEF Types
<1>1. CASE HookFlock(h)
  <2>1. {"throttle"} \subseteq HookAt
    BY DEF HookAt
  <2>2. hook' \in [Hook -> HookType]
    <3>1. hook[h] \in HookType
      OBVIOUS
    <3>2. \E after \in HookType : hook' = [hook EXCEPT ![h] = after]
      BY <1>1, <2>1, <3>1, HookRecord DEF HookFlock
    <3>3. QED
      BY <3>2
  <2>3. QED
    BY <1>1, <2>2 DEF HookFlock, svc, clocks
<1>2. CASE ReapplyThrottled(h)
  <2>1. hook' \in [Hook -> HookType]
    BY <1>2, ReappliedType DEF ReapplyThrottled, HookType, HookAt
  <2>2. QED
    BY <1>2, <2>1 DEF ReapplyThrottled, svc, clocks
<1>3. CASE ReapplyLock(h)
  <2>1. hook' \in [Hook -> HookType]
    BY <1>3, ReappliedType DEF ReapplyLock, HookType, HookAt
  <2>2. QED
    BY <1>3, <2>1 DEF ReapplyLock, Holder, clocks
<1>4. CASE ReapplyApply(h)
  BY <1>4, TimeAssumption, RuleSets DEF ReapplyApply, HookType, HookAt, svc
<1>5. CASE ReapplyFails(h)
  BY <1>5, ReappliedType, SpendType DEF ReapplyFails, Holder, svc, clocks
<1>6. CASE ReapplyTouch(h)
  <2>1. hook' \in [Hook -> HookType]
    BY <1>6, ReappliedType DEF ReapplyTouch
  <2>2. age' \in 0..Throttle
    BY <1>6, TimeAssumption DEF ReapplyTouch
  <2>3. lapsed' \in BOOLEAN
    BY <1>6, Zenon DEF ReapplyTouch
  <2>4. UNCHANGED <<rules, coreUp, pidFile, stopped, hookLock, pending, wd, cmd, quiet, used>> /\ lock' \in Holder
    BY <1>6 DEF ReapplyTouch, Holder, svc
  <2>5. QED
    BY <2>1, <2>2, <2>3, <2>4
<1>7. CASE ReapplyUntouched(h)
  <2>1. used' \in UsedType
    BY <1>7, SpendType DEF ReapplyUntouched
  <2>2. QED
    BY <1>7, <2>1, ReappliedType DEF ReapplyUntouched, Holder, svc
<1>8. CASE HookWake(h) \/ HookExit(h)
  <2>1. {"throttle", "exit"} \subseteq HookAt
    BY DEF HookAt
  <2>2. hook' \in [Hook -> HookType]
    <3>1. hook[h] \in HookType
      OBVIOUS
    <3>2. \E after \in HookType : hook' = [hook EXCEPT ![h] = after]
      BY <1>8, <2>1, <3>1, HookRecord DEF HookWake, HookExit
    <3>3. QED
      BY <3>2
  <2>3. QED
    BY <1>8, <2>2 DEF HookWake, HookExit, svc, clocks
<1>9. QED
  BY <1>1, <1>2, <1>3, <1>4, <1>5, <1>6, <1>7, <1>8 DEF HookStep

\* A step of the daemon keeps the types.
LEMMA TypesWatchdog == ASSUME Types, WatchdogStep PROVE Types'
<1>1. CASE WatchdogFails
  BY <1>1, SpendType DEF Types, WatchdogFails, WdType, Holder, svc, hooks, clocks
<1>2. CASE WatchdogSkip \/ WatchdogLock \/ WatchdogApply
  <2>1. wd' \in WdType
    BY <1>2, WdRecord, Clocks DEF Types, WatchdogSkip, WatchdogLock, WatchdogApply
  <2>2. QED
    BY <1>2, <2>1, RuleSets DEF Types, WatchdogSkip, WatchdogLock, WatchdogApply, Holder, svc, hooks, clocks
<1>3. QED
  BY <1>1, <1>2 DEF WatchdogStep

\* A step of a command keeps the types.
LEMMA TypesCmd ==
  ASSUME Types, NEW c \in Cmd, CmdStep(c) \/ CmdCrash(c) \/ \E op \in Ops, shim \in ViaShim : Submit(c, op, shim)
  PROVE  Types'
<1> USE DEF Types, svc, hooks, clocks
<1>1. CASE \E op \in Ops, shim \in ViaShim : Submit(c, op, shim)
  BY <1>1, SpendType, OpsAssumption, SwitchAssumption DEF Submit, CmdType, CmdAt
<1>2. CASE ShimStopWatchdog(c) \/ CmdHalt(c) \/ CmdApply(c)
  <2>1. wd' \in WdType
    BY <1>2, WdRecord DEF ShimStopWatchdog, CmdHalt, CmdApply
  <2>2. cmd' \in [Cmd -> CmdType]
    BY <1>2 DEF ShimStopWatchdog, CmdHalt, CmdApply, CmdType, CmdAt
  <2>3. QED
    BY <1>2, <2>1, <2>2, RuleSets DEF ShimStopWatchdog, CmdHalt, CmdApply
<1>3. CASE CmdLock(c)
  BY <1>3 DEF CmdLock, First, CmdType, CmdAt, Holder
<1>4. CASE CmdRemove(c)
  BY <1>4, DoneType, RuleSets DEF CmdRemove, CmdType, CmdAt
<1>5. CASE CmdApplyFails(c)
  <2>1. cmd' \in [Cmd -> CmdType] /\ lock' \in Holder
    BY <1>5, DoneType DEF CmdApplyFails, CmdType, CmdAt, Holder
  <2>2. QED
    BY <1>5, <2>1, SpendType, RuleSets DEF CmdApplyFails
<1>6. CASE CmdLaunch(c) \/ CmdRollback(c) \/ CmdOther(c)
  BY <1>6, DoneType, RuleSets DEF CmdLaunch, CmdRollback, CmdOther
<1>7. CASE CmdLaunchFails(c)
  BY <1>7, SpendType DEF CmdLaunchFails, CmdType, CmdAt
<1>8. CASE ShimStartWatchdog(c)
  <2>1. wd' \in WdType
    BY <1>8, WdRecord, Clocks DEF ShimStartWatchdog
  <2>2. NoCmd \in CmdType
    BY DEF CmdType, CmdAt, NoCmd, AllOps
  <2>3. QED
    BY <1>8, <2>1, <2>2 DEF ShimStartWatchdog
<1>9. CASE CmdCrash(c)
  BY <1>9, SpendType DEF CmdCrash, CmdType, CmdAt, NoCmd, AllOps, Holder
<1>10. QED
  BY <1>1, <1>2, <1>3, <1>4, <1>5, <1>6, <1>7, <1>8, <1>9 DEF CmdStep

\* Every step keeps the types.
LEMMA TypesNext == ASSUME Types, [Next]_vars PROVE Types'
<1>1. CASE \E t \in Table : Rebuild(t)
  <2>1. {"flock", "throttle"} \subseteq HookAt
    BY DEF HookAt
  <2>2. hook' \in [Hook -> HookType]
    BY <1>1, <2>1, HookRecord DEF Types, Rebuild
  <2>3. QED
    BY <1>1, <2>2, SpendType, RuleSets DEF Types, Rebuild, svc, clocks
<1>2. CASE CoreCrash
  BY <1>2, SpendType DEF Types, CoreCrash, hooks, clocks
<1>3. CASE Tick
  <2>1. hook' \in [Hook -> HookType] /\ wd' \in WdType
    <3>1. \A h \in Hook : [hook[h] EXCEPT !.nap = Down(@)] \in HookType
      <4>1. \A h \in Hook : hook[h] \in HookType /\ hook[h].nap \in 0..TrailSleep
        BY DEF Types, HookType
      <4>2. QED
        BY <4>1, HookRecord, Clocks
    <3>2. wd.next \in 0..WatchdogPeriod
      BY DEF Types, WdType
    <3>3. QED
      BY <1>3, <3>1, <3>2, WdRecord, Clocks DEF Types, Tick
  <2>2. age' \in 0..Throttle /\ quiet' \in 0..Throttle
    BY <1>3, TimeAssumption DEF Types, Tick, Up
  <2>3. QED
    BY <1>3, <2>1, <2>2 DEF Types, Tick, svc
<1>4. CASE UNCHANGED vars
  BY <1>4 DEF Types, vars
<1>5. QED
  BY <1>1, <1>2, <1>3, <1>4, TypesHook, TypesWatchdog, TypesCmd DEF Next

-----------------------------------------------------------------------------
(* The main lock.                                                          *)

WritingAt == {"halt", "remove", "apply", "launch", "rollback", "other"}
HookHolds == \A h \in Hook : hook[h].at \in {"apply", "touch"} <=> lock = h
WdHolds == wd.at = "apply" <=> lock = Watchdog
CmdHolds == \A c \in Cmd : cmd[c].at \in WritingAt <=> lock = c

\* Exclusive, by the kind of who writes.
LEMMA Kinds == Exclusive <=> HookHolds /\ WdHolds /\ CmdHolds
BY ActorAssumption DEF Exclusive, Writing, HookHolds, WdHolds, CmdHolds, WritingAt

\* Where the hook is after its --reapply.
LEMMA ReappliedAt ==
  ASSUME hook \in [Hook -> HookType], NEW h \in Hook, Reapplied(h)
  PROVE  hook'[h].at \in {"off", "sleep", "exit"}
<1>1. CASE ~HaveFlock
  BY <1>1 DEF Reapplied, NoHook
<1>2. CASE HaveFlock /\ hook[h].trailing
  BY <1>2 DEF Reapplied, HookType
<1>3. CASE HaveFlock /\ ~hook[h].trailing
  BY <1>3 DEF Reapplied, HookType
<1>4. QED
  BY <1>1, <1>2, <1>3

\* With flock it stays in the script.
LEMMA FlockedAt ==
  ASSUME HaveFlock, hook \in [Hook -> HookType], NEW h \in Hook, Reapplied(h)
  PROVE  hook'[h].at \in {"sleep", "exit"}
<1>1. CASE hook[h].trailing
  BY <1>1 DEF Reapplied, HookType
<1>2. CASE ~hook[h].trailing
  BY <1>2 DEF Reapplied, HookType
<1>3. QED
  BY <1>1, <1>2

\* Nowhere but in ReapplyLock does a hook come to Reconcile.
LEMMA EndsElsewhere ==
  ASSUME Types, NEW h \in Hook, HookStep(h), ~ReapplyLock(h)
  PROVE  hook'[h].at # "apply"
<1>1. CASE HookFlock(h) \/ ReapplyApply(h) \/ HookExit(h)
  BY <1>1 DEF HookFlock, ReapplyApply, HookExit, NoHook, Types, HookType
<1>2. CASE ReapplyThrottled(h)
  BY <1>2, ReappliedAt DEF ReapplyThrottled, Types, HookType
<1>3. CASE ReapplyFails(h) \/ ReapplyTouch(h) \/ ReapplyUntouched(h)
  BY <1>3, ReappliedAt DEF ReapplyFails, ReapplyTouch, ReapplyUntouched, Types
<1>4. CASE HookWake(h)
  <2>1. CASE pending
    BY <1>4, <2>1 DEF HookWake, Types, HookType
  <2>2. CASE ~pending
    BY <1>4, <2>2 DEF HookWake, Types, HookType
  <2>3. QED
    BY <2>1, <2>2
<1>5. QED
  BY <1>1, <1>2, <1>3, <1>4 DEF HookStep

\* A step of a hook leaves the other hooks alone; what it does with the lock
\* goes with where it is.
LEMMA HookFrame ==
  ASSUME Types, NEW h \in Hook, HookStep(h)
  PROVE  /\ \A g \in Hook \ {h} : hook'[g] = hook[g]
         /\ UNCHANGED <<wd, cmd>>
         /\ \/ /\ lock' = lock
               /\ hook[h].at \in {"apply", "touch"} <=> hook'[h].at \in {"apply", "touch"}
            \/ lock = NoOne /\ lock' = h /\ hook'[h].at = "apply"
            \/ hook[h].at \in {"apply", "touch"} /\ lock' = NoOne /\ hook'[h].at \notin {"apply", "touch"}
<1>1. /\ hook' \in [Hook -> HookType] /\ UNCHANGED <<wd, cmd>>
      /\ \E after : hook' = [hook EXCEPT ![h] = after]
  BY TypesHook DEF Types, HookStep, HookFlock, ReapplyThrottled, ReapplyLock, ReapplyApply, ReapplyFails,
                   ReapplyTouch, ReapplyUntouched, HookWake, HookExit, Reapplied
<1>2. \A g \in Hook \ {h} : hook'[g] = hook[g]
  BY <1>1 DEF Types
<1>3. CASE HookFlock(h) \/ HookWake(h) \/ HookExit(h) \/ ReapplyApply(h)
  <2>1. CASE ReapplyApply(h)
    BY <1>1, <1>2, <2>1 DEF ReapplyApply, Types, HookType
  <2>2. CASE HookFlock(h) \/ HookExit(h)
    BY <1>1, <1>2, <2>2 DEF HookFlock, HookExit, NoHook, Types, HookType
  <2>3. CASE HookWake(h)
    <3>1. hook[h].at = "sleep" /\ hook'[h].at \in {"throttle", "exit"} /\ lock' = lock
      <4>1. CASE pending
        BY <2>3, <4>1 DEF HookWake, Types, HookType
      <4>2. CASE ~pending
        BY <2>3, <4>2 DEF HookWake, Types, HookType
      <4>3. QED
        BY <4>1, <4>2
    <3>2. QED
      BY <1>1, <1>2, <3>1
  <2>4. QED
    BY <1>3, <2>1, <2>2, <2>3
<1>4. CASE ReapplyThrottled(h)
  <2>1. hook'[h].at \notin {"apply", "touch"}
    BY <1>4, ReappliedAt DEF ReapplyThrottled, Types, HookType
  <2>2. QED
    BY <1>1, <1>2, <1>4, <2>1 DEF ReapplyThrottled
<1>5. CASE ReapplyLock(h)
  <2>1. \/ lock' = lock /\ hook'[h].at \notin {"apply", "touch"}
        \/ lock = NoOne /\ lock' = h /\ hook'[h].at = "apply"
    BY <1>5, ReappliedAt DEF ReapplyLock, Types, HookType
  <2>2. QED
    BY <1>1, <1>2, <1>5, <2>1 DEF ReapplyLock
<1>6. CASE ReapplyFails(h) \/ ReapplyTouch(h) \/ ReapplyUntouched(h)
  BY <1>1, <1>2, <1>6, ReappliedAt DEF ReapplyFails, ReapplyTouch, ReapplyUntouched, Types
<1>7. QED
  BY <1>3, <1>4, <1>5, <1>6 DEF HookStep

\* The same of the daemon.
LEMMA WatchdogFrame ==
  ASSUME Types, WatchdogStep
  PROVE  /\ UNCHANGED <<hook, cmd>>
         /\ \/ lock' = lock /\ wd'.at = wd.at
            \/ wd.alive /\ lock = NoOne /\ lock' = Watchdog /\ wd'.at = "apply"
            \/ wd.at = "apply" /\ lock' = NoOne /\ wd'.at = "idle"
BY DEF Types, WdType, WatchdogStep, WatchdogSkip, WatchdogLock, WatchdogApply, WatchdogFails, hooks

\* Where a command is when it is over.
LEMMA DoneAt ==
  ASSUME cmd \in [Cmd -> CmdType], NEW c \in Cmd, NEW ok, Done(c, ok)
  PROVE  cmd'[c].at \in {"idle", "tail"} /\ lock' = NoOne
<1>1. CASE ok /\ cmd[c].shim /\ cmd[c].op \in {"start", "restart"}
  BY <1>1 DEF Done, CmdType
<1>2. CASE ~(ok /\ cmd[c].shim /\ cmd[c].op \in {"start", "restart"})
  BY <1>2 DEF Done, NoCmd
<1>3. QED
  BY <1>1, <1>2

\* The same of a command.
LEMMA CmdFrame ==
  ASSUME Types, NEW c \in Cmd, CmdStep(c) \/ CmdCrash(c) \/ \E op \in Ops, shim \in ViaShim : Submit(c, op, shim)
  PROVE  /\ UNCHANGED hook
         /\ wd'.at = wd.at
         /\ \A d \in Cmd \ {c} : cmd'[d] = cmd[d]
         /\ \/ /\ lock' = lock
               /\ cmd[c].at \in WritingAt <=> cmd'[c].at \in WritingAt
            \/ lock = NoOne /\ lock' = c /\ cmd'[c].at \in WritingAt
            \/ cmd[c].at \in WritingAt /\ lock' = NoOne /\ cmd'[c].at \notin WritingAt
            \/ cmd'[c].at \notin WritingAt /\ lock' = IF lock = c THEN NoOne ELSE lock
<1> USE DEF Types, hooks
<1>1. /\ UNCHANGED hook
      /\ wd'.at = wd.at
      /\ \E after : cmd' = [cmd EXCEPT ![c] = after]
  <2>1. UNCHANGED hook /\ \E after : cmd' = [cmd EXCEPT ![c] = after]
    BY DEF Submit, CmdStep, ShimStopWatchdog, CmdLock, CmdHalt, CmdRemove, CmdApply, CmdApplyFails, CmdLaunch,
           CmdLaunchFails, CmdRollback, CmdOther, ShimStartWatchdog, CmdCrash, Done
  <2>2. wd'.at = wd.at
    BY DEF WdType, Submit, CmdStep, ShimStopWatchdog, CmdLock, CmdHalt, CmdRemove, CmdApply, CmdApplyFails, CmdLaunch,
           CmdLaunchFails, CmdRollback, CmdOther, ShimStartWatchdog, CmdCrash
  <2>3. QED
    BY <2>1, <2>2
<1>2. \A d \in Cmd \ {c} : cmd'[d] = cmd[d]
  BY <1>1
<1>3. cmd[c] \in CmdType /\ c \in Cmd
  OBVIOUS
<1> USE DEF CmdType, WritingAt
<1>4. CASE \E op \in Ops, shim \in ViaShim : Submit(c, op, shim)
  BY <1>1, <1>2, <1>4 DEF Submit
<1>5. CASE ShimStopWatchdog(c) \/ CmdHalt(c) \/ CmdApply(c) \/ CmdLaunchFails(c)
  <2>1. lock' = lock /\ (cmd[c].at \in WritingAt <=> cmd'[c].at \in WritingAt)
    BY <1>5 DEF ShimStopWatchdog, CmdHalt, CmdApply, CmdLaunchFails
  <2>2. QED
    BY <1>1, <1>2, <2>1
<1>6. CASE ShimStartWatchdog(c)
  <2>1. lock' = lock /\ (cmd[c].at \in WritingAt <=> cmd'[c].at \in WritingAt)
    BY <1>6 DEF ShimStartWatchdog, NoCmd
  <2>2. QED
    BY <1>1, <1>2, <2>1
<1>7. CASE CmdLock(c)
  <2>1. lock = NoOne /\ lock' = c /\ cmd'[c].at \in WritingAt
    BY <1>7 DEF CmdLock, First
  <2>2. QED
    BY <1>1, <1>2, <2>1
<1>8. CASE CmdRemove(c)
  <2>1. cmd[c].at \in WritingAt
    BY <1>8 DEF CmdRemove
  <2>2. CASE cmd[c].op = "stop"
    <3>1. lock' = NoOne /\ cmd'[c].at \notin WritingAt
      BY <1>8, <2>2, DoneAt DEF CmdRemove
    <3>2. QED
      BY <1>1, <1>2, <2>1, <3>1
  <2>3. CASE cmd[c].op # "stop"
    <3>1. lock' = lock /\ cmd'[c].at \in WritingAt
      BY <1>8, <2>3 DEF CmdRemove
    <3>2. QED
      BY <1>1, <1>2, <2>1, <3>1
  <2>4. QED
    BY <2>2, <2>3
<1>9. CASE CmdLaunch(c) \/ CmdRollback(c) \/ CmdOther(c)
  <2>1. cmd[c].at \in WritingAt /\ lock' = NoOne /\ cmd'[c].at \notin WritingAt
    BY <1>9, DoneAt DEF CmdLaunch, CmdRollback, CmdOther
  <2>2. QED
    BY <1>1, <1>2, <2>1
<1>10. CASE CmdApplyFails(c)
  <2>1. cmd[c].at \in WritingAt /\ lock' = NoOne /\ cmd'[c].at \notin WritingAt
    BY <1>10, DoneAt DEF CmdApplyFails
  <2>2. QED
    BY <1>1, <1>2, <2>1
<1>11. CASE CmdCrash(c)
  <2>1. cmd'[c].at \notin WritingAt
    BY <1>11 DEF CmdCrash, NoCmd
  <2>2. QED
    BY <1>1, <1>2, <1>11, <2>1 DEF CmdCrash
<1>12. QED
  BY <1>4, <1>5, <1>6, <1>7, <1>8, <1>9, <1>10, <1>11 DEF CmdStep

\* Whoever takes a step, the writers of the firewall stay the lock's holder.
LEMMA ExclusiveNext == ASSUME Types, Exclusive, [Next]_vars PROVE Exclusive'
<1>1. HookHolds /\ WdHolds /\ CmdHolds
  BY Kinds
<1> USE ActorAssumption
<1>2. ASSUME NEW h \in Hook, HookStep(h) PROVE (HookHolds /\ WdHolds /\ CmdHolds)'
  BY <1>1, <1>2, HookFrame DEF HookHolds, WdHolds, CmdHolds
<1>3. ASSUME WatchdogStep PROVE (HookHolds /\ WdHolds /\ CmdHolds)'
  BY <1>1, <1>3, WatchdogFrame DEF HookHolds, WdHolds, CmdHolds, Types, WdType
<1>4. ASSUME NEW c \in Cmd, CmdStep(c) \/ CmdCrash(c) \/ \E op \in Ops, shim \in ViaShim : Submit(c, op, shim)
      PROVE  (HookHolds /\ WdHolds /\ CmdHolds)'
  BY <1>1, <1>4, CmdFrame DEF HookHolds, WdHolds, CmdHolds
<1>5. ASSUME \E t \in Table : Rebuild(t) PROVE (HookHolds /\ WdHolds /\ CmdHolds)'
  BY <1>1, <1>5 DEF Rebuild, HookHolds, WdHolds, CmdHolds, Types, HookType, NoHook
<1>6. ASSUME CoreCrash \/ UNCHANGED vars PROVE (HookHolds /\ WdHolds /\ CmdHolds)'
  BY <1>1, <1>6 DEF CoreCrash, vars, hooks, HookHolds, WdHolds, CmdHolds
<1>7. ASSUME Tick PROVE (HookHolds /\ WdHolds /\ CmdHolds)'
  BY <1>1, <1>7 DEF Tick, HookHolds, WdHolds, CmdHolds, Types, HookType, WdType
<1>8. (HookHolds /\ WdHolds /\ CmdHolds)'
  BY <1>2, <1>3, <1>4, <1>5, <1>6, <1>7 DEF Next
<1>9. QED
  BY <1>8, ActorAssumption DEF Exclusive, Writing, HookHolds, WdHolds, CmdHolds, WritingAt

\* At first nobody writes and nobody holds the lock.
LEMMA ExclusiveInit == Init => Exclusive
<1>1. Init => HookHolds /\ WdHolds /\ CmdHolds
  BY ActorAssumption DEF Init, HookHolds, WdHolds, CmdHolds, WritingAt, NoHook, NoCmd
<1>2. QED
  BY <1>1, Kinds

\* The types, and that whoever works between TryAcquire and Release of the main
\* lock is its holder, for any number of hooks and shells and any times.
THEOREM TypeCorrect == Spec => []TypeOK
<1>1. Init => Types /\ Exclusive
  BY TypesInit, ExclusiveInit
<1>2. (Types /\ Exclusive) /\ [Next]_vars => (Types /\ Exclusive)'
  BY TypesNext, ExclusiveNext
<1>3. Types /\ Exclusive => TypeOK
  BY Halves
<1>4. QED
  BY <1>1, <1>2, <1>3, PTL DEF Spec

-----------------------------------------------------------------------------
(* The throttle.                                                           *)

Flocked == {"throttle", "lock", "apply", "touch", "sleep", "exit"}

\* Past flock -n a hook holds its lock, so there is one at a time; while none
\* is between Reconcile and the touch, the marker is no older than the last
\* reapply, unless that one wrote none; a hook the marker let through finds
\* nobody who has reapplied since.
HookMutex == \A h \in Hook : hook[h].at \in Flocked <=> hookLock = h
MarkerLags == (\A h \in Hook : hook[h].at # "touch") => age <= quiet \/ lapsed
LetThrough == \A h \in Hook : hook[h].at \in {"lock", "apply"} => quiet >= Throttle \/ lapsed
ThrottleInv == Types /\ HookMutex /\ MarkerLags /\ LetThrough

\* What a step of a hook does with the hook's lock, the marker and the clock.
LEMMA ThrottleFrame ==
  ASSUME HaveFlock, Types, NEW h \in Hook, HookStep(h)
  PROVE  /\ \/ /\ hookLock' = hookLock
               /\ hook[h].at \in Flocked /\ hook'[h].at \in Flocked
            \/ hook[h].at = "flock" /\ hookLock' = hookLock /\ hook'[h].at = "off"
            \/ hook[h].at = "flock" /\ hookLock = NoOne /\ hookLock' = h /\ hook'[h].at = "throttle"
            \/ hook[h].at = "exit" /\ hookLock' = NoOne /\ hook'[h].at = "off"
         /\ \/ UNCHANGED clocks /\ hook[h].at # "touch" /\ hook'[h].at # "touch"
            \/ hook[h].at = "apply" /\ quiet' = 0 /\ UNCHANGED <<age, lapsed>> /\ hook'[h].at = "touch"
            \/ hook[h].at = "touch" /\ age' = 0 /\ UNCHANGED quiet /\ hook'[h].at # "touch"
            \/ hook[h].at = "touch" /\ lapsed' = TRUE /\ UNCHANGED <<age, quiet>> /\ hook'[h].at # "touch"
         /\ \/ hook'[h].at \notin {"lock", "apply"}
            \/ hook[h].at = "throttle" /\ age >= Throttle /\ UNCHANGED clocks
            \/ hook[h].at = "lock" /\ UNCHANGED clocks
<1> USE HaveFlock DEF Flocked, clocks
<1>1. hook[h] \in HookType
  BY DEF Types
<1>2. CASE HookFlock(h)
  BY <1>2 DEF HookFlock, NoHook, Types, HookType
<1>3. CASE ReapplyThrottled(h)
  <2>1. CASE age < Throttle
    <3>1. hook'[h].at \in {"sleep", "exit"}
      BY <1>3, <2>1, FlockedAt DEF ReapplyThrottled, Types
    <3>2. QED
      BY <1>3, <3>1 DEF ReapplyThrottled
  <2>2. CASE ~(age < Throttle)
    <3>1. hook'[h].at = "lock" /\ age >= Throttle
      BY <1>3, <2>2, TimeAssumption DEF ReapplyThrottled, Types, HookType
    <3>2. QED
      BY <1>3, <3>1 DEF ReapplyThrottled
  <2>3. QED
    BY <2>1, <2>2
<1>4. CASE ReapplyLock(h)
  <2>1. hook'[h].at \in {"apply", "sleep", "exit"}
    BY <1>4, FlockedAt DEF ReapplyLock, Types, HookType
  <2>2. QED
    BY <1>4, <2>1 DEF ReapplyLock
<1>5. CASE ReapplyApply(h)
  BY <1>5 DEF ReapplyApply, Types, HookType
<1>6. CASE ReapplyFails(h) \/ ReapplyTouch(h) \/ ReapplyUntouched(h)
  <2>1. hook'[h].at \in {"sleep", "exit"}
    BY <1>6, FlockedAt DEF ReapplyFails, ReapplyTouch, ReapplyUntouched, Types
  <2>2. QED
    BY <1>6, <2>1 DEF ReapplyFails, ReapplyTouch, ReapplyUntouched
<1>7. CASE HookWake(h)
  <2>1. hook'[h].at \in {"throttle", "exit"}
    <3>1. CASE pending
      BY <1>7, <3>1 DEF HookWake, Types, HookType
    <3>2. CASE ~pending
      BY <1>7, <3>2 DEF HookWake, Types, HookType
    <3>3. QED
      BY <3>1, <3>2
  <2>2. QED
    BY <1>7, <2>1 DEF HookWake
<1>8. CASE HookExit(h)
  BY <1>8 DEF HookExit, NoHook, Types
<1>9. QED
  BY <1>2, <1>3, <1>4, <1>5, <1>6, <1>7, <1>8 DEF HookStep

\* The invariant of the throttle holds at first.
LEMMA ThrottleInit == Init => ThrottleInv
<1>1. Init => HookMutex /\ MarkerLags /\ LetThrough
  BY ActorAssumption, TimeAssumption DEF Init, HookMutex, MarkerLags, LetThrough, Flocked, NoHook
<1>2. QED
  BY <1>1, TypesInit DEF ThrottleInv

\* Every step keeps it.
LEMMA ThrottleNext == ASSUME HaveFlock, ThrottleInv, [Next]_vars PROVE ThrottleInv'
<1> DEFINE Rest == HookMutex /\ MarkerLags /\ LetThrough
<1>1. Types /\ Rest
  BY DEF ThrottleInv
<1>2. Types'
  BY <1>1, TypesNext
<1>3. age \in 0..Throttle /\ quiet \in 0..Throttle /\ age' \in 0..Throttle /\ quiet' \in 0..Throttle
  BY <1>1, <1>2 DEF Types
<1> USE TimeAssumption, ActorAssumption
<1>4. ASSUME NEW h \in Hook, HookStep(h) PROVE Rest'
  <2>1. \A g \in Hook \ {h} : hook'[g] = hook[g]
    BY <1>1, <1>4, HookFrame
  <2>2. HookMutex'
    BY <1>1, <1>4, <2>1, ThrottleFrame DEF HookMutex, Flocked
  <2>3. hook[h].at \in Flocked => \A g \in Hook \ {h} : hook[g].at \notin Flocked
    BY <1>1 DEF HookMutex
  <2>4. hook[h].at \in {"apply", "touch"} \/ hook'[h].at \in {"lock", "apply"} =>
          \A g \in Hook \ {h} : hook'[g].at \notin {"lock", "apply", "touch"}
    BY <1>1, <1>4, <2>1, <2>3, ThrottleFrame DEF Flocked
  <2>5. CASE UNCHANGED clocks /\ hook[h].at # "touch" /\ hook'[h].at # "touch"
    <3>1. MarkerLags'
      BY <1>1, <2>1, <2>5 DEF MarkerLags, clocks
    <3>2. hook'[h].at \in {"lock", "apply"} => quiet >= Throttle \/ lapsed
      <4>1. CASE hook[h].at = "throttle" /\ age >= Throttle
        <5>1. \A g \in Hook : hook[g].at # "touch"
          BY <2>3, <4>1 DEF Flocked
        <5>2. age <= quiet \/ lapsed
          BY <1>1, <5>1 DEF MarkerLags
        <5>3. QED
          BY <1>3, <4>1, <5>2
      <4>2. CASE hook[h].at = "lock"
        BY <1>1, <4>2 DEF LetThrough
      <4>3. QED
        BY <1>1, <1>4, <4>1, <4>2, ThrottleFrame
    <3>3. LetThrough'
      BY <1>1, <2>1, <2>5, <3>2 DEF LetThrough, clocks
    <3>4. QED
      BY <2>2, <3>1, <3>3
  <2>6. CASE hook[h].at = "apply" /\ quiet' = 0 /\ hook'[h].at = "touch"
    <3>1. MarkerLags' /\ LetThrough'
      BY <2>4, <2>6 DEF MarkerLags, LetThrough
    <3>2. QED
      BY <2>2, <3>1
  <2>7. CASE /\ hook[h].at = "touch" /\ hook'[h].at # "touch"
             /\ (age' = 0 \/ lapsed' = TRUE)
    <3>1. MarkerLags'
      BY <1>3, <2>7 DEF MarkerLags
    <3>2. hook'[h].at \notin {"lock", "apply"}
      BY <1>1, <1>4, <2>7, ThrottleFrame
    <3>3. LetThrough'
      BY <2>4, <2>7, <3>2 DEF LetThrough
    <3>4. QED
      BY <2>2, <3>1, <3>3
  <2>8. QED
    BY <1>1, <1>4, <2>5, <2>6, <2>7, ThrottleFrame
<1>5. ASSUME \E t \in Table : Rebuild(t) PROVE Rest'
  <2>1. UNCHANGED <<age, quiet, lapsed, hookLock>>
    BY <1>5 DEF Rebuild, clocks
  <2>2. \A g \in Hook : \/ hook'[g] = hook[g]
                        \/ hook[g].at = "off" /\ hook'[g].at = "flock"
    BY <1>1, <1>5 DEF Rebuild, NoHook, Types
  <2>3. QED
    BY <1>1, <2>1, <2>2 DEF HookMutex, MarkerLags, LetThrough, Flocked
<1>6. ASSUME WatchdogStep \/ CoreCrash \/ UNCHANGED vars PROVE Rest'
  <2>1. UNCHANGED <<age, quiet, lapsed, hookLock, hook>>
    BY <1>6 DEF WatchdogStep, WatchdogSkip, WatchdogLock, WatchdogApply, WatchdogFails, CoreCrash, hooks, clocks, vars
  <2>2. QED
    BY <1>1, <2>1 DEF HookMutex, MarkerLags, LetThrough
<1>7. ASSUME NEW c \in Cmd, CmdStep(c) \/ CmdCrash(c) \/ \E op \in Ops, shim \in ViaShim : Submit(c, op, shim)
      PROVE  Rest'
  <2>1. UNCHANGED <<age, quiet, lapsed, hookLock, hook>>
    BY <1>7 DEF CmdStep, ShimStopWatchdog, CmdLock, CmdHalt, CmdRemove, CmdApply, CmdApplyFails, CmdLaunch,
                CmdLaunchFails, CmdRollback, CmdOther, ShimStartWatchdog, CmdCrash, Submit, hooks, clocks
  <2>2. QED
    BY <1>1, <2>1 DEF HookMutex, MarkerLags, LetThrough
<1>8. ASSUME Tick PROVE Rest'
  <2>1. /\ hookLock' = hookLock
        /\ \A h \in Hook : hook'[h].at = hook[h].at
        /\ lapsed' = lapsed
    BY <1>1, <1>8 DEF Tick, Types, HookType
  <2>2. (age <= quiet => age' <= quiet') /\ (quiet >= Throttle => quiet' >= Throttle)
    BY <1>3, <1>8 DEF Tick, Up
  <2>3. QED
    BY <1>1, <2>1, <2>2 DEF HookMutex, MarkerLags, LetThrough
<1>9. QED
  BY <1>2, <1>4, <1>5, <1>6, <1>7, <1>8 DEF Next, ThrottleInv

\* With flock on the router two reapplies put the rules back at least the
\* throttle's period apart, unless the earlier could not write its marker or was
\* killed before it did, however many hooks NDM starts and whatever commands run
\* between them.
THEOREM ThrottleKept == ASSUME HaveFlock PROVE Spec => ThrottleHolds
<1>1. Init => ThrottleInv
  BY ThrottleInit
<1>2. ThrottleInv /\ [Next]_vars => ThrottleInv'
  BY ThrottleNext
<1>3. ThrottleInv /\ [Next]_vars =>
        [\A h \in Hook : hook[h].at = "apply" /\ hook'[h].at = "touch" => (quiet >= Throttle \/ lapsed)]_vars
  BY DEF ThrottleInv, LetThrough
<1>4. QED
  BY <1>1, <1>2, <1>3, PTL DEF Spec, ThrottleHolds

-----------------------------------------------------------------------------
(* No rule comes back after --stop.                                        *)

\* The service is down: nobody is about to restore a rule, start the core or
\* start the daemon.
Quiet ==
  /\ rules = NoRules /\ ~coreUp /\ ~wd.alive /\ wd.at = "idle"
  /\ \A h \in Hook : hook[h].at # "apply"
  /\ \A c \in Cmd : cmd[c].at \notin {"apply", "launch", "rollback", "tail"}

\* Between doStop's two halves the core and the daemon are down already; a
\* command that leaves the service alone is one of those that do.
Halted == \A c \in Cmd : cmd[c].at = "remove" => ~coreUp /\ ~wd.alive
Others == \A c \in Cmd : cmd[c].at = "other" => cmd[c].op = "other"

\* The shim starts the daemon after `run` came back, under no lock: commands go
\* around it, or there is a single shell.
Direct == TRUE \notin ViaShim
OneShell == \A c, d \in Cmd : c = d
Unshimmed == Direct => \A c \in Cmd : ~cmd[c].shim /\ cmd[c].at \notin {"prep", "tail"}

StopInv == Types /\ Exclusive /\ Halted /\ Others /\ Unshimmed /\ (stopped => Quiet)

\* The invariant of --stop holds at first.
LEMMA StopInit == Init => StopInv
<1>1. Init => Halted /\ Others /\ Unshimmed /\ (stopped => Quiet)
  BY DEF Init, Halted, Others, Unshimmed, Quiet, NoCmd
<1>2. QED
  BY <1>1, TypesInit, ExclusiveInit DEF StopInv

\* A hook keeps it: under the lock it finds the core down.
LEMMA StopHook == ASSUME StopInv, NEW h \in Hook, HookStep(h) PROVE (Halted /\ Others /\ Unshimmed /\ (stopped => Quiet))'
<1>1. /\ UNCHANGED <<coreUp, stopped, wd, cmd>>
      /\ \A g \in Hook \ {h} : hook'[g] = hook[g]
  BY HookFrame DEF StopInv, HookStep, HookFlock, ReapplyThrottled, ReapplyLock, ReapplyApply, ReapplyFails,
                   ReapplyTouch, ReapplyUntouched, HookWake, HookExit, svc
<1>2. (Halted /\ Others /\ Unshimmed)'
  BY <1>1 DEF StopInv, Halted, Others, Unshimmed
<1>3. ASSUME stopped PROVE Quiet'
  <2>1. Quiet
    BY <1>3 DEF StopInv
  <2>2. rules' = rules
    BY <2>1 DEF Quiet, HookStep, HookFlock, ReapplyThrottled, ReapplyLock, ReapplyApply, ReapplyFails,
                ReapplyTouch, ReapplyUntouched, HookWake, HookExit
  <2>3. hook'[h].at # "apply"
    <3>1. CASE ReapplyLock(h)
      <4>1. Reapplied(h)
        BY <2>1, <3>1 DEF Quiet, ReapplyLock
      <4>2. QED
        BY <4>1, ReappliedAt DEF StopInv, Types
    <3>2. CASE ~ReapplyLock(h)
      BY <2>1, <3>2, EndsElsewhere DEF StopInv, Quiet
    <3>3. QED
      BY <3>1, <3>2
  <2>4. QED
    BY <1>1, <2>1, <2>2, <2>3 DEF Quiet
<1>4. QED
  BY <1>1, <1>2, <1>3

\* The daemon keeps it: once it is told to end it takes no lock.
LEMMA StopWatchdog == ASSUME StopInv, WatchdogStep PROVE (Halted /\ Others /\ Unshimmed /\ (stopped => Quiet))'
<1>1. UNCHANGED <<coreUp, stopped, hook, cmd>> /\ wd'.alive = wd.alive
  BY DEF StopInv, Types, WdType, WatchdogStep, WatchdogSkip, WatchdogLock, WatchdogApply, WatchdogFails, svc, hooks
<1>2. (Halted /\ Others /\ Unshimmed)'
  BY <1>1 DEF StopInv, Halted, Others, Unshimmed
<1>3. ASSUME stopped PROVE Quiet'
  <2>1. Quiet
    BY <1>3 DEF StopInv
  <2>2. FALSE
    BY <2>1 DEF Quiet, WatchdogStep, WatchdogSkip, WatchdogLock, WatchdogApply, WatchdogFails
  <2>3. QED
    BY <2>2
<1>4. QED
  BY <1>1, <1>2, <1>3

\* A step of a command.
LEMMA StopCmd ==
  ASSUME Direct \/ OneShell, StopInv, NEW c \in Cmd,
         CmdStep(c) \/ CmdCrash(c) \/ \E op \in Ops, shim \in ViaShim : Submit(c, op, shim)
  PROVE  (Halted /\ Others /\ Unshimmed /\ (stopped => Quiet))'
<1>1. hook' = hook /\ wd'.at = wd.at /\ \A d \in Cmd \ {c} : cmd'[d] = cmd[d]
  BY CmdFrame DEF StopInv
<1>2. Types /\ cmd \in [Cmd -> CmdType] /\ cmd[c] \in CmdType /\ wd \in WdType
  BY DEF StopInv, Types
<1>3. cmd[c].at \in WritingAt => \A d \in Cmd \ {c} : cmd[d].at \notin WritingAt
  BY Kinds DEF StopInv, CmdHolds
<1>4. cmd[c].at = "tail" => \A d \in Cmd : d = c
  BY DEF StopInv, Unshimmed, OneShell
<1>5. cmd[c].at \in WritingAt => \A d \in Cmd \ {c} : cmd[d].at # "tail"
  BY DEF StopInv, Unshimmed, OneShell
<1> DEFINE Goal == (Halted /\ Others /\ Unshimmed /\ (stopped => Quiet))'
           Plain == Direct => ~cmd'[c].shim /\ cmd'[c].at \notin {"prep", "tail"}
<1> USE DEF StopInv, Halted, Others, Unshimmed, Quiet
<1>6. ASSUME \E op \in Ops, shim \in ViaShim : Submit(c, op, shim) PROVE Goal
  <2>1. PICK op \in Ops, shim \in ViaShim : Submit(c, op, shim)
    BY <1>6
  <2>2. cmd'[c] = [at |-> IF shim /\ op \in {"stop", "restart"} THEN "prep" ELSE "lock", op |-> op, shim |-> shim]
    BY <1>2, <2>1 DEF Submit
  <2>3. Direct => ~shim
    BY SwitchAssumption DEF Direct
  <2>4. cmd'[c].at \in {"prep", "lock"} /\ Plain
    BY <2>2, <2>3
  <2>5. UNCHANGED <<rules, coreUp, stopped, wd>>
    BY <2>1 DEF Submit, svc
  <2>6. QED
    BY <1>1, <1>2, <2>4, <2>5
<1>7. ASSUME ShimStopWatchdog(c) PROVE Goal
  <2>1. cmd'[c].at = "lock" /\ Plain /\ ~wd'.alive /\ UNCHANGED <<rules, coreUp, stopped>>
    BY <1>2, <1>7 DEF ShimStopWatchdog, svc, WdType, CmdType
  <2>2. QED
    BY <1>1, <1>2, <2>1
<1>8. ASSUME CmdLock(c) PROVE Goal
  <2>1. /\ cmd'[c].at = First(cmd[c].op) /\ cmd'[c].op = cmd[c].op /\ cmd'[c].shim = cmd[c].shim
        /\ stopped' => stopped /\ cmd[c].op \in {"stop", "other"}
        /\ UNCHANGED <<rules, coreUp, wd>>
    BY <1>2, <1>8 DEF CmdLock, CmdType
  <2>2. QED
    BY <1>1, <1>2, <2>1 DEF First, CmdType, AllOps
<1>9. ASSUME CmdHalt(c) PROVE Goal
  <2>1. cmd'[c].at = "remove" /\ Plain /\ ~wd'.alive /\ ~coreUp' /\ UNCHANGED <<rules, stopped>>
    BY <1>2, <1>9 DEF CmdHalt, WdType, CmdType
  <2>2. QED
    BY <1>1, <1>2, <2>1
<1>10. ASSUME CmdRemove(c) PROVE Goal
  <2>1. UNCHANGED <<coreUp, wd>> /\ rules' = NoRules /\ stopped' = (cmd[c].op = "stop") /\ cmd[c].at \in WritingAt
    BY <1>10 DEF CmdRemove, WritingAt
  <2>2. ~coreUp /\ ~wd.alive
    BY <1>10 DEF CmdRemove
  <2>3. \A d \in Cmd \ {c} : cmd[d].at \notin {"apply", "launch", "rollback", "tail"}
    BY <1>3, <1>5, <2>1 DEF WritingAt
  <2>4. CASE cmd[c].op = "stop"
    <3>1. cmd' = [cmd EXCEPT ![c] = NoCmd]
      BY <1>10, <2>4 DEF CmdRemove, Done
    <3>2. cmd'[c].at = "idle" /\ ~cmd'[c].shim
      BY <1>2, <3>1 DEF NoCmd
    <3>3. wd.at = "idle" /\ \A h \in Hook : hook[h].at # "apply"
      <4>1. lock = c
        BY <2>1, Kinds DEF CmdHolds
      <4>2. QED
        BY <1>2, <4>1, Kinds, ActorAssumption DEF HookHolds, WdHolds, WdType
    <3>4. QED
      BY <1>1, <1>2, <2>1, <2>2, <2>3, <3>2, <3>3
  <2>5. CASE cmd[c].op # "stop"
    <3>1. cmd'[c].at = "apply" /\ Plain
      BY <1>2, <1>10, <2>5 DEF CmdRemove, CmdType
    <3>2. QED
      BY <1>1, <1>2, <2>1, <2>5, <3>1
  <2>6. QED
    BY <2>4, <2>5
<1>11. ASSUME CmdApply(c) PROVE Goal
  <2>1. cmd[c].at = "apply" /\ cmd'[c].at = "launch" /\ Plain /\ UNCHANGED <<coreUp, stopped, wd>>
    BY <1>2, <1>11 DEF CmdApply, svc, CmdType
  <2>2. QED
    BY <1>1, <1>2, <2>1
<1>12. ASSUME CmdApplyFails(c) \/ CmdLaunch(c) \/ CmdRollback(c) PROVE Goal
  <2>1. cmd[c].at \in {"apply", "launch", "rollback"} /\ UNCHANGED <<stopped, wd>>
    BY <1>12 DEF CmdApplyFails, CmdLaunch, CmdRollback, svc
  <2>2. cmd'[c].at \in {"idle", "tail", "lock"}
    <3>1. \/ \E ok \in BOOLEAN : Done(c, ok)
          \/ cmd' = [cmd EXCEPT ![c].at = "lock"]
      BY <1>12 DEF CmdApplyFails, CmdLaunch, CmdRollback
    <3>2. QED
      BY <1>2, <3>1, DoneAt DEF Types, CmdType
  <2>3. ASSUME Direct PROVE cmd' = [cmd EXCEPT ![c] = NoCmd]
    BY <1>12, <2>3 DEF CmdApplyFails, CmdLaunch, CmdRollback, Done
  <2>4. Plain
    BY <1>2, <2>3 DEF NoCmd
  <2>5. \A d \in Cmd : cmd'[d].at # "remove"
    BY <1>1, <1>3, <2>1, <2>2 DEF WritingAt
  <2>6. QED
    BY <1>1, <1>2, <2>1, <2>2, <2>4, <2>5
<1>13. ASSUME CmdLaunchFails(c) PROVE Goal
  <2>1. cmd[c].at = "launch" /\ cmd'[c].at = "rollback" /\ Plain /\ UNCHANGED <<coreUp, stopped, wd>>
    BY <1>2, <1>13 DEF CmdLaunchFails, CmdType
  <2>2. QED
    BY <1>1, <1>2, <2>1
<1>14. ASSUME CmdOther(c) PROVE Goal
  <2>1. cmd[c].at = "other" /\ cmd[c].op = "other" /\ UNCHANGED <<rules, coreUp, stopped, wd>>
    BY <1>14 DEF CmdOther, svc
  <2>2. cmd' = [cmd EXCEPT ![c] = NoCmd]
    BY <1>14, <2>1 DEF CmdOther, Done
  <2>3. cmd'[c].at = "idle" /\ ~cmd'[c].shim
    BY <1>2, <2>2 DEF NoCmd
  <2>4. QED
    BY <1>1, <1>2, <2>1, <2>3
<1>15. ASSUME ShimStartWatchdog(c) PROVE Goal
  <2>1. cmd[c].at = "tail" /\ cmd'[c].at = "idle" /\ ~cmd'[c].shim /\ UNCHANGED stopped
    BY <1>2, <1>15 DEF ShimStartWatchdog, svc, NoCmd
  <2>2. QED
    BY <1>1, <1>2, <1>4, <2>1
<1>16. ASSUME CmdCrash(c) PROVE Goal
  <2>1. cmd'[c].at = "idle" /\ ~cmd'[c].shim /\ UNCHANGED <<rules, coreUp, stopped, wd>>
    BY <1>2, <1>16 DEF CmdCrash, svc, NoCmd
  <2>2. QED
    BY <1>1, <1>2, <2>1
<1>17. QED
  BY <1>6, <1>7, <1>8, <1>9, <1>10, <1>11, <1>12, <1>13, <1>14, <1>15, <1>16 DEF CmdStep

\* Every step keeps it.
LEMMA StopNext == ASSUME Direct \/ OneShell, StopInv, [Next]_vars PROVE StopInv'
<1> DEFINE Rest == Halted /\ Others /\ Unshimmed /\ (stopped => Quiet)
<1>1. (Types /\ Exclusive)'
  BY TypesNext, ExclusiveNext DEF StopInv
<1>2. ASSUME \E t \in Table : Rebuild(t) PROVE Rest'
  <2>1. UNCHANGED <<coreUp, stopped, wd, cmd>> /\ (rules = NoRules => rules' = NoRules)
    BY <1>2 DEF Rebuild, NoRules, svc
  <2>2. \A g \in Hook : hook'[g].at = "apply" => hook[g].at = "apply"
    BY <1>2 DEF Rebuild, NoHook, StopInv, Types
  <2>3. QED
    BY <2>1, <2>2 DEF StopInv, Halted, Others, Unshimmed, Quiet
<1>3. ASSUME CoreCrash PROVE Rest'
  BY <1>3 DEF CoreCrash, hooks, StopInv, Halted, Others, Unshimmed, Quiet
<1>4. ASSUME Tick PROVE Rest'
  <2>1. /\ UNCHANGED <<rules, coreUp, stopped, cmd>> /\ wd'.alive = wd.alive /\ wd'.at = wd.at
        /\ \A h \in Hook : hook'[h].at = hook[h].at
    BY <1>4 DEF Tick, svc, StopInv, Types, HookType, WdType
  <2>2. QED
    BY <2>1 DEF StopInv, Halted, Others, Unshimmed, Quiet
<1>5. ASSUME UNCHANGED vars PROVE Rest'
  BY <1>5 DEF vars, StopInv, Halted, Others, Unshimmed, Quiet
<1>6. Rest'
  BY <1>2, <1>3, <1>4, <1>5, StopHook, StopWatchdog, StopCmd DEF Next
<1>7. QED
  BY <1>1, <1>6 DEF StopInv

\* With one shell, or with any number that go around the init.d shim, no rule
\* comes back after --stop, however many hooks run and wherever the daemon, a
\* crash or a fault strikes.
THEOREM StopLasts == ASSUME Direct \/ OneShell PROVE Spec => []StopsForGood
<1>1. StopInv /\ [Next]_vars => StopInv'
  BY StopNext
<1>2. StopInv => StopsForGood
  BY DEF StopInv, Quiet, StopsForGood
<1>3. QED
  BY <1>1, <1>2, StopInit, PTL DEF Spec

=============================================================================
