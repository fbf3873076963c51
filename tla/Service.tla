------------------------------ MODULE Service -------------------------------
(***************************************************************************)
(* The supervised processes and the commands that start and stop them.     *)
(*                                                                         *)
(* sign-craze has no supervisor: every process (the cores, the mieru       *)
(* peers, naive, nfqws2) is known by the PID file package service keeps    *)
(* for it. --start, --stop, --restart and the Apply button of the Web UI   *)
(* walk the same lists under the main lock, so one command runs at a time. *)
(* Around them processes die, the router restarts, the user edits          *)
(* state.json or interrupts the command, and readers ask for the status.   *)
(***************************************************************************)
EXTENDS Naturals, Sequences, FiniteSets

CONSTANTS Core,      \* registered cores (core.Names)
          TunCore,   \* the one that creates the TUN device, and waits for AttachTUN
          Peer,      \* mieru outbounds that may be configured
          Command,   \* commands given in this instance
          MaxOps, MaxEvents  \* bounds of the exploration

Svc == Core \cup Peer \cup {"naive", "dpi"}

ASSUME NameAssumption == /\ TunCore \in Core /\ Core \cap Peer = {}
                         /\ (Core \cup Peer) \cap {"naive", "dpi", "none", "dead"} = {}
ASSUME CommandAssumption == Command \subseteq {"start", "stop", "restart"}
ASSUME BoundAssumption == MaxOps \in Nat /\ MaxEvents \in Nat

VARIABLES live,   \* processes that run and that their own PID file names
          lost,   \* processes that run without it
          pid,    \* pid[s]: whose number the PID file of s holds: a process, "dead", "none" (no file)
          fw,     \* the rules: "none", "on", "part" (an Apply stopped in the middle)
          conf,   \* state.json: the active core, the mieru outbounds, naive and DPI
          op,     \* the running command: steps left, the process it watches come up, what it loaded
          read,   \* a reader between finding the PID file of this service stale and removing it
          done,   \* history: how the last command ended
          died,   \* history: processes that died by themselves during the last command
          mixed,  \* history: peers not started since their stale PID file named another
          bare,   \* history: processes whose command was killed before it wrote their PID file
          used

procs == <<live, lost, pid>>
hist == <<done, died, mixed, bare>>
vars == <<procs, fw, conf, op, read, hist, used>>

Conf == [core : Core, outs : SUBSET Peer, extra : BOOLEAN]
Idle == [name |-> "idle", todo |-> <<>>, phase |-> "stop", new |-> "none",
         core |-> "none", outs |-> {}, cut |-> FALSE, ok |-> TRUE, fw |-> "none"]

Init ==
  /\ live = {} /\ lost = {} /\ pid = [s \in Svc |-> "none"] /\ fw = "none"
  /\ conf \in Conf
  /\ op = Idle /\ read = "none" /\ died = {} /\ mixed = {} /\ bare = {}
  /\ done = [what |-> "stopped", cut |-> FALSE, core |-> "none", outs |-> {}, fw |-> "none"]
  /\ used = [ops |-> 0, events |-> 0]

SpendEvent == used.events < MaxEvents /\ used' = [used EXCEPT !.events = @ + 1]

-----------------------------------------------------------------------------
(* Package service: one process and its PID file.                          *)

\* Status: the number in the file belongs to a process that runs our binary.
Running(s) == pid[s] \in Svc

\* All mieru peers run one binary, every other service one of its own.
SameProgram(s, t) == s = t \/ {s, t} \subseteq Peer

\* The file of s goes, and every file that held the number of process t is stale.
Buried(t, s) == [x \in Svc |-> IF x = s THEN "none"
                               ELSE IF pid[x] = t /\ t \in Svc THEN "dead" ELSE pid[x]]

\* Stale files of the program of s: the kernel may give a new process their
\* number. The one of s itself is gone by then, Status has removed it.
Stale(s) == {t \in Svc \ {s} : pid[t] = "dead" /\ SameProgram(s, t)}

\* A new process of s; the files `named` hold its number.
Spawn(s, named) ==
  /\ pid' = [t \in Svc |-> IF t \in named THEN s ELSE IF t = s THEN "none" ELSE pid[t]]
  /\ live' = live \cup (named \cap {s}) /\ lost' = lost \cup ({s} \ named)
  /\ mixed' = (mixed \cup named) \ {s}

\* Start, first half: fork and write the PID file. Nobody can tell the two apart
\* but a command that is killed between them (KilledAtFork).
Fork(s) == \E same \in SUBSET Stale(s) : Spawn(s, same \cup {s})

\* Mutant: Stop signals the process and leaves the PID file.
TerminateKeepsFile(s) ==
  /\ live' = live \ {pid[s]} /\ lost' = lost \ {pid[s]}
  /\ pid' = Buried(pid[s], "none")

\* Stop: the process the file names is killed, whoever it is; the file goes.
Terminate(s) ==
  /\ live' = live \ {pid[s]} /\ lost' = lost \ {pid[s]}
  /\ pid' = Buried(pid[s], s)

-----------------------------------------------------------------------------
(* The lists of doStart and doStop. A step is a kind and the services it   *)
(* goes through one by one.                                                *)

Step(what, on) == [do |-> what, on |-> on]
Once(what) == Step(what, {"none"})

\* A step about services, and nothing if there are none.
Each(what, on) == IF on = {} THEN <<>> ELSE <<Step(what, on)>>

Extra(c, s) == IF c.extra THEN {s} ELSE {}

\* WriteMieruConfig for every peer, whose failure like that of "prepare" takes nothing back.
Configs(c) == Each("prepare", IF c.outs = {} THEN {} ELSE {"none"})

\* doStart.
StartSteps(c) ==
  Configs(c) \o Each("peer", c.outs) \o Each("naive", Extra(c, "naive"))
  \o <<Once("prepare"), Once("check"), Once("apply"), Step("core", {c.core})>>
  \o Each("attach", {c.core} \cap {TunCore}) \o Each("dpi", Extra(c, "dpi"))

\* Mutant: only the active core is stopped.
StopStepsActiveCore == <<Step("stop", {"dpi"}), Step("stop", {"naive"}), Step("stop", {conf.core}), Once("load")>>

\* Mutant: the peers go first.
StopStepsPeersFirst == <<Step("stop", {"dpi"}), Step("stop", {"naive"})>> \o Each("stop", conf.outs)
                       \o <<Step("stop", Core), Once("load")>>

\* doStop, up to loadState.
StopSteps == <<Step("stop", {"dpi"}), Step("stop", {"naive"}), Step("stop", Core), Once("load")>>

\* Mutant: a core that does not start leaves the rules.
UndoKeepsRules(failed) ==
  CASE failed = "prepare" -> <<>>
    [] failed \in {"peer", "check", "core"} -> Each("stop", op.outs)
    [] failed = "apply" -> <<Once("remove")>> \o Each("stop", op.outs)
    [] failed = "attach" -> <<Step("stop", {op.core}), Once("remove")>> \o Each("stop", op.outs)

\* How doStart takes back what it did, by the step that failed.
Undo(failed) ==
  CASE failed = "prepare" -> <<>>
    [] failed \in {"peer", "check"} -> Each("stop", op.outs)
    [] failed \in {"apply", "core"} -> <<Once("remove")>> \o Each("stop", op.outs)
    [] failed = "attach" -> <<Step("stop", {op.core}), Once("remove")>> \o Each("stop", op.outs)

-----------------------------------------------------------------------------
(* Commands.                                                               *)

Begin(name) ==
  /\ op.name = "idle" /\ name \in Command
  /\ used.ops < MaxOps /\ used' = [used EXCEPT !.ops = @ + 1]
  /\ op' = IF name = "start"
             THEN [Idle EXCEPT !.name = name, !.phase = "start", !.todo = StartSteps(conf),
                               !.core = conf.core, !.outs = conf.outs, !.fw = fw]
             ELSE [Idle EXCEPT !.name = name, !.todo = StopSteps, !.fw = fw]
  /\ done' = [done EXCEPT !.what = "none"]
  /\ died' = {}
  /\ UNCHANGED <<procs, fw, conf, read, mixed, bare>>

At(what) == op.todo # <<>> /\ Head(op.todo).do = what /\ op.new = "none"

\* The service the current step is about is behind it.
Past(s) == LET rest == Head(op.todo).on \ {s}
           IN  IF rest = {} THEN Tail(op.todo) ELSE <<Step(Head(op.todo).do, rest)>> \o Tail(op.todo)

Go(s) == op' = [op EXCEPT !.todo = Past(s), !.new = "none"]

\* Mutant: the step is given up, the process it started is still waited for.
FailsStillWaits(s) ==
  LET what == Head(op.todo).do
  IN  IF what \in {"naive", "dpi"} THEN Go(s)
      ELSE op' = [op EXCEPT !.todo = Undo(what), !.ok = FALSE]

\* A step of doStart failed. naive and nfqws2 only cost a warning.
Fails(s) ==
  LET what == Head(op.todo).do
  IN  IF what \in {"naive", "dpi"} THEN Go(s)
      ELSE op' = [op EXCEPT !.todo = Undo(what), !.new = "none", !.ok = FALSE]

\* What a failure costs: nothing once the command is interrupted, every call
\* that takes the context fails then.
Refused == \/ op.cut /\ UNCHANGED used
           \/ SpendEvent

Launches == {"peer", "naive", "core", "dpi"}
Launching == \E what \in Launches : At(what)

\* Status says it runs: a peer is skipped, for the others it is an error.
StartFound ==
  /\ Launching
  /\ \E s \in Head(op.todo).on :
       /\ Running(s)
       /\ IF Head(op.todo).do = "peer" THEN Go(s) ELSE Fails(s)
  /\ UNCHANGED <<procs, fw, conf, read, hist, used>>

StartForks ==
  /\ Launching
  /\ \E s \in Head(op.todo).on : ~Running(s) /\ Fork(s) /\ op' = [op EXCEPT !.new = s]
  /\ UNCHANGED <<fw, conf, read, done, died, bare, used>>

\* Mutant: the PID file cannot be written and the process lives on.
StartBreaksLives ==
  /\ Launching /\ SpendEvent
  /\ \E s \in Head(op.todo).on :
       ~Running(s) /\ Fails(s) /\ pid' = [pid EXCEPT ![s] = "none"] /\ live' = live \cup {s}
  /\ UNCHANGED <<lost, fw, conf, read, hist>>

\* The binary cannot be run, or the PID file not written (the process is killed).
StartBreaks ==
  /\ Launching /\ SpendEvent
  /\ \E s \in Head(op.todo).on :
       ~Running(s) /\ Fails(s) /\ pid' = [pid EXCEPT ![s] = "none"]
  /\ UNCHANGED <<live, lost, fw, conf, read, hist>>

\* Start, second half, stabilizationDelay later. An interrupted command
\* returns here and leaves the process and its file as they are.
StartSettles ==
  /\ op.new # "none"
  /\ LET s == op.new
         up == s \in live \cup lost
     IN  /\ IF up /\ ~op.cut THEN Go(s) ELSE Fails(s)
         /\ pid' = IF up \/ op.cut THEN pid ELSE [pid EXCEPT ![s] = "none"]
  /\ UNCHANGED <<live, lost, fw, conf, read, hist, used>>

\* ensureConfigFreshForCore, ensureKeeneticPolicy, newFirewallApplier.
Prepare ==
  /\ At("prepare") /\ Go("none")
  /\ UNCHANGED <<procs, fw, conf, read, hist, used>>
PrepareFails ==
  /\ At("prepare") /\ Refused /\ Fails("none")
  /\ UNCHANGED <<procs, fw, conf, read, hist>>

\* The pre-flight checks of Apply, which need no rollback.
Preflight ==
  /\ At("check") /\ ~op.cut /\ Go("none")
  /\ UNCHANGED <<procs, fw, conf, read, hist, used>>
PreflightFails ==
  /\ At("check") /\ Refused /\ Fails("none")
  /\ UNCHANGED <<procs, fw, conf, read, hist>>

Apply ==
  /\ At("apply") /\ ~op.cut /\ fw' = "on" /\ Go("none")
  /\ UNCHANGED <<procs, conf, read, hist, used>>

\* Apply fails in the middle, or before its first rule when interrupted.
ApplyFails ==
  /\ At("apply") /\ Refused
  /\ fw' = IF op.cut THEN fw ELSE "part"
  /\ \E cut \in {op.cut, TRUE} :
       op' = [op EXCEPT !.todo = Undo("apply"), !.ok = FALSE, !.cut = cut]
  /\ UNCHANGED <<procs, conf, read, hist>>

Attach ==
  /\ At("attach") /\ ~op.cut /\ Go(op.core)
  /\ UNCHANGED <<procs, fw, conf, read, hist, used>>
AttachFails ==
  /\ At("attach") /\ Refused /\ Fails(op.core)
  /\ UNCHANGED <<procs, fw, conf, read, hist>>

\* Lifecycle.Stop of the next service of the list; it takes no context.
Stop ==
  /\ At("stop")
  /\ \E s \in Head(op.todo).on : Terminate(s) /\ Go(s)
  /\ UNCHANGED <<fw, conf, read, hist, used>>

\* loadState of doStop; an unreadable state.json is taken for the defaults.
Load ==
  /\ At("load")
  /\ \E outs \in {conf.outs, {}} :
       /\ IF outs = conf.outs THEN UNCHANGED used ELSE SpendEvent
       /\ op' = [op EXCEPT !.outs = outs, !.todo = Each("stop", outs) \o <<Once("remove")>>]
  /\ UNCHANGED <<procs, fw, conf, read, hist>>

\* Remove: no iptables call runs for an interrupted command, and none is missed.
Remove ==
  /\ At("remove")
  /\ fw' = IF op.cut THEN fw ELSE "none"
  /\ Go("none")
  /\ UNCHANGED <<procs, conf, read, hist, used>>

\* doStop is over: --restart goes on with doStart, which loads state.json anew.
StartAgain ==
  /\ op.name = "restart" /\ op.phase = "stop" /\ op.todo = <<>>
  /\ op' = [op EXCEPT !.phase = "start", !.todo = StartSteps(conf), !.core = conf.core,
                      !.outs = conf.outs, !.fw = fw]
  /\ UNCHANGED <<procs, fw, conf, read, hist, used>>

End ==
  /\ op.name # "idle" /\ op.todo = <<>> /\ ~(op.name = "restart" /\ op.phase = "stop")
  /\ op' = Idle
  /\ done' = [what |-> IF op.phase = "stop" THEN "stopped"
                       ELSE IF ~op.ok THEN "failed"
                       ELSE IF op.name = "restart" THEN "restarted" ELSE "started",
              cut |-> op.cut, core |-> op.core, outs |-> op.outs, fw |-> op.fw]
  /\ UNCHANGED <<procs, fw, conf, read, died, mixed, bare, used>>

-----------------------------------------------------------------------------
(* Around the commands.                                                    *)

\* SIGINT, SIGTERM, or the browser that asked for the restart goes away.
Interrupt ==
  /\ op.name # "idle" /\ ~op.cut /\ SpendEvent
  /\ op' = [op EXCEPT !.cut = TRUE]
  /\ UNCHANGED <<procs, fw, conf, read, hist>>

\* SIGKILL of the command.
Killed ==
  /\ op.name # "idle" /\ SpendEvent
  /\ op' = Idle
  /\ UNCHANGED <<procs, fw, conf, read, hist>>

\* SIGKILL of the command between fork and writePID: the process runs without a file.
KilledAtFork ==
  /\ Launching /\ SpendEvent
  /\ \E s \in Head(op.todo).on :
       /\ ~Running(s)
       /\ \E same \in SUBSET Stale(s) : Spawn(s, same)
       /\ bare' = bare \cup {s}
  /\ op' = Idle
  /\ UNCHANGED <<fw, conf, read, done, died>>

\* A process dies; nobody restarts it.
Crash(s) ==
  /\ s \in live \cup lost /\ SpendEvent
  /\ live' = live \ {s} /\ lost' = lost \ {s} /\ pid' = Buried(s, "none") /\ died' = died \cup {s}
  /\ UNCHANGED <<fw, conf, op, read, done, mixed, bare>>

\* The router restarts; /opt keeps the PID files.
Reboot ==
  /\ SpendEvent
  /\ live' = {} /\ lost' = {} /\ fw' = "none"
  /\ pid' = [s \in Svc |-> IF Running(s) THEN "dead" ELSE pid[s]]
  /\ op' = Idle /\ read' = "none" /\ died' = {}
  /\ done' = [done EXCEPT !.what = "none"]
  /\ UNCHANGED <<conf, mixed, bare>>

\* --core takes no lock.
SwitchCore ==
  /\ SpendEvent
  /\ \E c \in Core \ {conf.core} : conf' = [conf EXCEPT !.core = c]
  /\ UNCHANGED <<procs, fw, op, read, hist>>

\* --install, --dpi: other outbounds, naive and DPI on or off, under the lock.
Configure ==
  /\ op.name = "idle" /\ SpendEvent
  /\ \E outs \in SUBSET Peer, extra \in BOOLEAN :
       /\ conf' = [conf EXCEPT !.outs = outs, !.extra = extra] /\ conf' # conf
  /\ UNCHANGED <<procs, fw, op, read, hist>>

\* What handleStatus and the Web UI ask for, without a lock.
Shown == {conf.core, "dpi"} \cup conf.outs

\* Status of a reader finds the number dead, ...
ReadsStale(s) ==
  /\ read = "none" /\ s \in Shown /\ pid[s] = "dead"
  /\ read' = s
  /\ UNCHANGED <<procs, fw, conf, op, hist, used>>

\* ... and removes the file, whatever it holds by now.
ReadRemoves ==
  /\ read # "none"
  /\ pid' = [pid EXCEPT ![read] = "none"]
  /\ LET its == {read} \cap {pid[read]}
     IN  live' = live \ its /\ lost' = lost \cup (its \cap live)
  /\ read' = "none"
  /\ UNCHANGED <<fw, conf, op, hist, used>>

-----------------------------------------------------------------------------

Next == \/ \E name \in Command : Begin(name)
        \/ StartFound \/ StartForks \/ StartBreaks \/ StartSettles
        \/ Prepare \/ PrepareFails \/ Preflight \/ PreflightFails
        \/ Apply \/ ApplyFails \/ Attach \/ AttachFails
        \/ Stop \/ Load \/ Remove \/ StartAgain \/ End
        \/ Interrupt \/ Killed \/ KilledAtFork \/ Reboot \/ SwitchCore \/ Configure
        \/ \E s \in Svc : Crash(s) \/ ReadsStale(s)
        \/ ReadRemoves

Spec == Init /\ [][Next]_vars

-----------------------------------------------------------------------------
(* Properties.                                                             *)

TypeOK ==
  /\ live \subseteq Svc /\ lost \subseteq Svc
  /\ pid \in [Svc -> Svc \cup {"none", "dead"}]
  /\ fw \in {"none", "on", "part"} /\ conf \in Conf
  /\ op.name \in {"idle", "start", "stop", "restart"} /\ op.new \in Svc \cup {"none"}
  /\ op.new # "none" => op.todo # <<>> /\ LET s == Head(op.todo) IN s.do \in Launches /\ op.new \in s.on
  /\ read \in Svc \cup {"none"} /\ died \cup mixed \cup bare \subseteq Svc

\* A PID file that names a process names one of its program that runs, and
\* every process is named by its own, but for two kinds of them (lost): the
\* command was killed between the fork and the write, or a reader of the status
\* removed the file. No kill, failed start, crash or restart of the router at
\* another point loses a process or leaves a file that names a wrong one.
PidFilesAreTrue ==
  /\ \A s \in Svc : Running(s) => pid[s] \in live \cup lost /\ SameProgram(s, pid[s])
  /\ \A s \in live : pid[s] = s

\* No process is ever lost to the commands: Start kills the process whose PID
\* file it cannot write "so as not to lose it", and a status changes nothing.
\* Excepted is a command that was killed before it could write the file.
NoOrphan == lost \subseteq bare

\* After --stop nothing that state.json knows of runs (of what PID files name),
\* whichever cores were started before, and no rule is left unless the command
\* was interrupted. After a successful --restart no core runs but the active
\* one (--core may have changed it any number of times).
StopLeavesNothing ==
  /\ done.what = "stopped" =>
       /\ live \cap (Core \cup {"naive", "dpi"} \cup done.outs) = {}
       /\ ~done.cut => fw = "none"
  /\ done.what = "restarted" => live \cap Core \subseteq {done.core}

\* A --start that fails leaves no rule behind that was not there before.
FailedStartIsUndone ==
  done.what = "failed" /\ ~done.cut => fw = "none" \/ fw = done.fw

\* A peer is stopped by this step.
StopsPeer == \E p \in Peer : p \in live \ (live' \cup lost') /\ p \notin died' /\ op'.name # "idle"

\* Inv-Peer-Order: when a core is started, every mieru outbound has its peer,
\* except those that died again and those whose PID file, left from before a
\* restart of the router, now names another peer; and in --stop and --restart
\* the cores go before the peers they talk to.
PeersOutliveCores ==
  [][/\ \A c \in Core : c \in (live' \ live) \cup ((lost' \ lost) \ live) =>
          \A p \in op.outs : p \in live \cup lost \cup died \cup mixed
     /\ StopsPeer /\ op.phase = "stop" => live \cap Core = {}]_vars
=============================================================================
