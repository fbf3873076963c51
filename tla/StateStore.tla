----------------------------- MODULE StateStore -----------------------------
(***************************************************************************)
(* state.json and everybody who rewrites it.                               *)
(*                                                                         *)
(* Every writer loads the whole document, changes the settings it is about *)
(* and renames a new document over the old one. Two advisory flocks order  *)
(* the writers: "main" (/opt/var/lock/sign-craze.lock, withLock and        *)
(* TryAcquire of package cli) and "state" (state.json.lock, withStateLock  *)
(* of package state). Which of them a writer takes depends on the handler, *)
(* and two handlers (the hostlist updater and --core) take neither.        *)
(*                                                                         *)
(* A process of the model is one flow of control that runs one handler at  *)
(* a time: a CLI invocation, a Web UI request, a goroutine of the watchdog *)
(* daemon. flock belongs to the open file, and every Acquire opens the     *)
(* file anew, so goroutines of one daemon exclude each other like          *)
(* processes do.                                                           *)
(***************************************************************************)
EXTENDS Naturals, FiniteSets

CONSTANTS Proc,     \* flows of control
          NoProc,   \* "nobody": a free lock
          Port,     \* entries of the lists ports and excludes
          Val,      \* values of a setting (present/absent for a list entry)
          DefVal,   \* what state.Default() holds
          Kind      \* the kinds of handlers that run in this instance

\* The handlers by the way they reach state.json.
\*   manager     Web UI: AddPort, DeletePort, AddExclude, ..., SetTargets
\*   cliManager  --port-*, --exclude-*, --dpi-targets: the managers, inside withLock
\*   mutation    withStateMutation, --dpi on, --dpi-update-now, --start: withLock only
\*   watchdog    reconcileFirewall: TryAcquire on the CLI's lock
\*   hostlist    tickHostlistUpdate: no lock
\*   core        --core <name>: no lock
AllKinds == {"manager", "cliManager", "mutation", "watchdog", "hostlist", "core"}

\* Settings of the document: a list is one cell per possible entry, the
\* remaining fields are cells of their own.
Scalar == {"targets", "settings", "mark", "lastUpdate", "core"}
Key == Port \cup Scalar

ASSUME KindAssumption == Kind \subseteq AllKinds
ASSUME ProcAssumption == NoProc \notin Proc
ASSUME DefValAssumption == DefVal \in Val

LockName == {"main", "state"}

\* The locks a handler holds between its Load and its Save.
Locks(kind) == (IF kind \in {"cliManager", "mutation", "watchdog"} THEN {"main"} ELSE {})
               \cup (IF kind \in {"manager", "cliManager"} THEN {"state"} ELSE {})

\* Two kinds that can never be between Load and Save at the same time.
ShareLock(a, b) == Locks(a) \cap Locks(b) # {}

VARIABLES doc,      \* state.json
          holder,   \* holder[l]: who holds flock l, or NoProc
          pc,       \* pc[p]: where p is in its handler
          job,      \* job[p]: the handler p runs, the settings it has yet to write, their value
          snap,     \* snap[p]: the document p loaded
          intent,   \* history: the value each setting was last asked to have
          author    \* history: the kind of the handler that last changed a setting

vars == <<doc, holder, pc, job, snap, intent, author>>

Doc == [Key -> Val]
Job == [kind : AllKinds, todo : SUBSET Key, val : Val]
DefDoc == [k \in Key |-> DefVal]
NoJob == [kind |-> "manager", todo |-> {}, val |-> DefVal]

Init ==
  /\ doc = DefDoc
  /\ holder = [l \in LockName |-> NoProc]
  /\ pc = [p \in Proc |-> "idle"]
  /\ job = [p \in Proc |-> NoJob]
  /\ snap = [p \in Proc |-> DefDoc]
  /\ intent = DefDoc
  /\ author = [k \in Key |-> "mutation"]

-----------------------------------------------------------------------------
(* Handlers: what is asked, and where the handler begins.                  *)

Entry(kind) == IF "main" \in Locks(kind) THEN "main"
               ELSE IF "state" \in Locks(kind) THEN "state" ELSE "load"

Submit(p, kind, ks, v) ==
  /\ pc[p] = "idle" /\ kind \in Kind
  /\ pc' = [pc EXCEPT ![p] = Entry(kind)]
  /\ job' = [job EXCEPT ![p] = [kind |-> kind, todo |-> ks, val |-> v]]
  /\ UNCHANGED <<doc, holder, snap, intent, author>>

\* POST and DELETE of the ports and excludes of the Web UI: one entry.
WebPorts(p) == \E k \in Port, v \in Val : Submit(p, "manager", {k}, v)

\* SetTargets of the Web UI.
WebTargets(p) == \E v \in Val : Submit(p, "manager", {"targets"}, v)

\* --port-add and --port-del: a range, one manager call per port.
CliPorts(p) == \E ks \in SUBSET Port \ {{}}, v \in Val : Submit(p, "cliManager", ks, v)

\* --dpi-targets: the same manager as the Web UI, inside withLock.
CliTargets(p) == \E v \in Val : Submit(p, "cliManager", {"targets"}, v)

\* --mode, --dpi off, --dpi-strategy, --dpi-exclude-ips, --dpi-update-*, --dpi on.
CliSettings(p) == \E v \in Val : Submit(p, "mutation", {"settings"}, v)

\* --dpi-update-now: loads, downloads, saves, all inside withLock.
UpdateNow(p) == \E v \in Val : Submit(p, "mutation", {"lastUpdate"}, v)

\* --start: ensureKeeneticPolicy saves the mark into the document loaded at the top.
StartPolicy(p) == \E v \in Val : Submit(p, "mutation", {"mark"}, v)

\* A tick of the watchdog in mode policy.
WatchdogTick(p) == \E v \in Val : Submit(p, "watchdog", {"mark"}, v)

\* A tick of the hostlist updater that is due.
HostlistTick(p) == \E v \in Val : Submit(p, "hostlist", {"lastUpdate"}, v)

\* --core <name>.
SwitchCore(p) == \E v \in Val : Submit(p, "core", {"core"}, v)

-----------------------------------------------------------------------------
(* The steps of a running handler.                                         *)

\* Locks p gives up: flock is released by Release, by the exit of fn, or by
\* the kernel when the process dies.
Freed(p, ls) == [l \in LockName |-> IF l \in ls /\ holder[l] = p THEN NoProc ELSE holder[l]]

\* Mutant: the process does not take another request.
FinishForGood(p) ==
  /\ holder' = Freed(p, LockName)
  /\ pc' = [pc EXCEPT ![p] = "done"]
  /\ job' = [job EXCEPT ![p] = NoJob]
  /\ snap' = [snap EXCEPT ![p] = DefDoc]

\* The handler returns: deferred Release calls run.
Finish(p) ==
  /\ holder' = Freed(p, LockName)
  /\ pc' = [pc EXCEPT ![p] = "idle"]
  /\ job' = [job EXCEPT ![p] = NoJob]
  /\ snap' = [snap EXCEPT ![p] = DefDoc]

\* Mutant: takes the flock without looking at its holder.
LockMainBlind(p) ==
  /\ pc[p] = "main"
  /\ holder' = [holder EXCEPT !["main"] = p]
  /\ pc' = [pc EXCEPT ![p] = IF "state" \in Locks(job[p].kind) THEN "state" ELSE "load"]
  /\ UNCHANGED <<doc, job, snap, intent, author>>

\* flock LOCK_EX|LOCK_NB on the main lock succeeds.
LockMain(p) ==
  /\ pc[p] = "main" /\ holder["main"] = NoProc
  /\ holder' = [holder EXCEPT !["main"] = p]
  /\ pc' = [pc EXCEPT ![p] = IF "state" \in Locks(job[p].kind) THEN "state" ELSE "load"]
  /\ UNCHANGED <<doc, job, snap, intent, author>>

\* The main lock is busy: the watchdog skips its tick at once (ErrLocked); a
\* CLI command polls every 100 ms, which is no step here, until it is interrupted.
LockMainGivenUp(p) ==
  /\ pc[p] = "main" /\ holder["main"] # NoProc
  /\ Finish(p)
  /\ UNCHANGED <<doc, intent, author>>

\* Mutant: withStateLock proceeds when its flock is busy.
LockStateBlind(p) ==
  /\ pc[p] = "state"
  /\ holder' = [holder EXCEPT !["state"] = p]
  /\ pc' = [pc EXCEPT ![p] = "load"]
  /\ UNCHANGED <<doc, job, snap, intent, author>>

\* withStateLock gets its flock.
LockState(p) ==
  /\ pc[p] = "state" /\ holder["state"] = NoProc
  /\ holder' = [holder EXCEPT !["state"] = p]
  /\ pc' = [pc EXCEPT ![p] = "load"]
  /\ UNCHANGED <<doc, job, snap, intent, author>>

\* Mutant: after the timeout the CLI keeps its outer lock.
LockStateTimeoutLeaks(p) ==
  /\ pc[p] = "state" /\ holder["state"] # NoProc
  /\ pc' = [pc EXCEPT ![p] = "idle"]
  /\ job' = [job EXCEPT ![p] = NoJob]
  /\ UNCHANGED <<doc, holder, snap, intent, author>>

\* stateLockTimeout (5 s) passes: the manager returns an error; a CLI range
\* stops in the middle and its main lock is released on the way out.
LockStateTimeout(p) ==
  /\ pc[p] = "state" /\ holder["state"] # NoProc
  /\ Finish(p)
  /\ UNCHANGED <<doc, intent, author>>

Load(p) ==
  /\ pc[p] = "load"
  /\ snap' = [snap EXCEPT ![p] = doc]
  /\ pc' = [pc EXCEPT ![p] = "save"]
  /\ UNCHANGED <<doc, holder, job, intent, author>>

\* Load fails, mutate or UpdateHostlist returns an error, Validate refuses the
\* document, or the temporary file cannot be written: state.json is not touched.
Abort(p) ==
  /\ pc[p] \in {"load", "save"}
  /\ Finish(p)
  /\ UNCHANGED <<doc, intent, author>>

\* What one Save writes: a manager call one entry, any other handler all it has.
Batch(p) == IF "state" \in Locks(job[p].kind) THEN {{k} : k \in job[p].todo} ELSE {job[p].todo}

\* What lands on disk: the loaded document with the settings ks changed.
Saved(p, ks) == [k \in Key |-> IF k \in ks THEN job[p].val ELSE snap[p][k]]

\* The same handler with the settings ks behind it.
Rest(p, ks) == [kind |-> job[p].kind, todo |-> job[p].todo \ ks, val |-> job[p].val]

\* The next port of a range: withStateLock is left and entered again.
NextItem(p, ks) ==
  /\ holder' = Freed(p, {"state"})
  /\ pc' = [pc EXCEPT ![p] = "state"]
  /\ job' = [job EXCEPT ![p] = Rest(p, ks)]
  /\ snap' = [snap EXCEPT ![p] = DefDoc]

\* Save: temporary file, fsync, rename. The rename is the step others see.
Save(p) ==
  /\ pc[p] = "save"
  /\ \E ks \in Batch(p) :
       /\ doc' = Saved(p, ks)
       /\ intent' = [k \in Key |-> IF k \in ks THEN job[p].val ELSE intent[k]]
       /\ author' = [k \in Key |-> IF k \in ks \/ snap[p][k] # doc[k]
                                     THEN job[p].kind ELSE author[k]]
       /\ \/ job[p].todo = ks /\ Finish(p)
          \/ job[p].todo # ks /\ NextItem(p, ks)

\* The process is killed or the router loses power: the kernel drops its
\* flocks; state.json is the old or the new document, never a mixture.
Crash(p) ==
  /\ pc[p] # "idle"
  /\ Finish(p)
  /\ UNCHANGED <<doc, intent, author>>

-----------------------------------------------------------------------------

Request(p) == \/ WebPorts(p) \/ WebTargets(p) \/ CliPorts(p) \/ CliTargets(p)
              \/ CliSettings(p) \/ UpdateNow(p) \/ StartPolicy(p)
              \/ WatchdogTick(p) \/ HostlistTick(p) \/ SwitchCore(p)

Step(p) == \/ LockMain(p) \/ LockMainGivenUp(p) \/ LockState(p) \/ LockStateTimeout(p)
           \/ Load(p) \/ Abort(p) \/ Save(p)

Next == \E p \in Proc : Request(p) \/ Step(p) \/ Crash(p)

Spec == Init /\ [][Next]_vars

\* A handler that has begun goes on: Acquire polls, every wait has a timeout
\* or can be interrupted, and nothing in a handler blocks for ever.
FairSpec == Spec /\ \A p \in Proc : WF_vars(Step(p))

-----------------------------------------------------------------------------
(* Properties.                                                             *)

TypeOK ==
  /\ doc \in Doc
  /\ holder \in [LockName -> Proc \cup {NoProc}]
  /\ pc \in [Proc -> {"idle", "main", "state", "load", "save"}]
  /\ job \in [Proc -> Job]
  /\ snap \in [Proc -> Doc]
  /\ intent \in Doc
  /\ author \in [Key -> AllKinds]

\* A loaded document that is no longer what is on disk (the window of a lost
\* update) differs only in settings whose last writer holds no lock in common
\* with the reader: the two flocks do all they can (withLock, withStateLock).
StaleOnlyAcrossLocks ==
  \A p \in Proc, k \in Key :
    pc[p] = "save" /\ snap[p][k] # doc[k] => ~ShareLock(job[p].kind, author[k])

\* No accepted change is undone by a writer that was not asked to change that
\* setting: ARCHITECTURE.md's "CLI/Web UI: one lock" (bug B4).
NoLostUpdate == doc = intent

\* Whoever holds a flock gives it back, whatever happens to the handler: the
\* CLI nests the state lock inside the main lock and no handler does the reverse.
LocksAreReleased ==
  \A p \in Proc, l \in LockName : (holder[l] = p) ~> (holder[l] # p)

\* state.json as the atomic document its users expect.
Atomic == INSTANCE AtomicDoc WITH Key <- Key, Val <- Val, DefVal <- DefVal, doc <- doc
AtomicSpec == Atomic!Spec
=============================================================================
