------------------------------- MODULE Policy -------------------------------
(***************************************************************************)
(* The IP policy sign-craze keeps in the router's own configuration.       *)
(*                                                                         *)
(* Devices the operator binds to the policy get the mark NDM chose for it, *)
(* and the rules of signcraze_policy match that mark. The policy lives in  *)
(* NDM, which forgets what was not saved, chooses the mark some time after *)
(* the policy was created, and whose configuration the operator edits; the *)
(* rules live in iptables, which NDM rewrites; the mark and the WAN        *)
(* interface are cached in state.json. --start and every tick of the       *)
(* watchdog bring the three together, request by request, and --uninstall  *)
(* takes the policy away. All of them hold the main lock, so one operation *)
(* is under way at a time; NDM and the operator act between its requests.  *)
(* The rules are one value here: which there are is in Firewall.           *)
(***************************************************************************)
EXTENDS Naturals

CONSTANTS Ifaces,   \* interfaces that may be the WAN
          Marks,    \* marks NDM may choose
          Hosts,    \* devices the operator may bind
          None,     \* no policy, no mark, no rules, no interface
          MaxEvents, MaxJobs, MaxFaults  \* bounds of the exploration

ASSUME NoneAssumption == /\ None \notin Ifaces \cup Marks \cup Hosts
                         /\ None \notin [mark : Marks \cup {None}, permit : SUBSET Ifaces]
ASSUME BoundAssumption == {MaxEvents, MaxJobs, MaxFaults} \subseteq Nat

VARIABLES run,     \* NDM's running configuration
          saved,   \* its startup configuration
          wan,     \* interface of the default route
          doc,     \* state.json: PolicyMark and WANInterface
          rules,   \* the mark the rules match
          up, wd,  \* the core runs; the watchdog daemon runs
          job,     \* the operation that has the main lock
          ended,   \* history: the last operation: which, whether it succeeded,
                   \* and whether no request of it failed
          calm,    \* history: nobody else changed anything since it began
          used

ndm == <<run, saved, wan>>
service == <<up, wd>>
hist == <<ended, calm>>
vars == <<ndm, doc, rules, service, job, hist, used>>

Fresh == [mark |-> None, wan |-> None]
Idle == [op |-> "idle", at |-> "idle", st |-> Fresh, made |-> FALSE, mark |-> None,
         hosts |-> {}, clean |-> TRUE]
Nothing == [op |-> "idle", well |-> FALSE, clean |-> TRUE]

Init ==
  /\ run = [policy |-> None, bound |-> {}] /\ saved = run
  /\ wan \in Ifaces /\ doc = Fresh /\ rules = None /\ up = FALSE /\ wd = FALSE
  /\ job = Idle /\ ended = Nothing /\ calm = TRUE
  /\ used = [events |-> 0, jobs |-> 0, faults |-> 0]

Spend(what, max) == used[what] < max /\ used' = [used EXCEPT ![what] = @ + 1]

At(where) == job.at = where
Goto(where) == job' = [job EXCEPT !.at = where]
Finish(well) ==
  /\ job' = Idle
  /\ ended' = [op |-> job.op, well |-> well, clean |-> job.clean]

\* What becomes of a request: it is done; it is refused with a status below
\* 500, which `do` hands back without an error; or it fails, when NDM may have
\* done it all the same.
Answers == {"ok", "refused", "failed"}
Answered(a) == IF a = "ok" THEN UNCHANGED used ELSE Spend("faults", MaxFaults)
Proceed(a, where) == job' = [job EXCEPT !.at = where, !.clean = @ /\ a = "ok"]

-----------------------------------------------------------------------------
(* ensureKeeneticPolicy.                                                   *)

\* The policy could not be ensured: --start fails, the watchdog goes on with
\* the document it loaded.
GiveUp ==
  IF job.op = "tick"
    THEN job' = [job EXCEPT !.at = "rules", !.mark = None, !.clean = FALSE] /\ UNCHANGED ended
    ELSE job' = Idle /\ ended' = [op |-> job.op, well |-> FALSE, clean |-> FALSE]

Begin(op) ==
  /\ job.op = "idle"
  /\ job' = [Idle EXCEPT !.op = op, !.st = doc,
                         !.at = IF op = "uninstall" THEN "stop" ELSE "wan"]
  /\ calm' = TRUE /\ ended' = Nothing
  /\ UNCHANGED <<ndm, doc, rules, service>>

\* --start from a shell, and S99signcraze start, after which the shim starts the daemon.
Command == \E op \in {"start", "boot", "uninstall"} :
  (op # "uninstall" => ~up) /\ Spend("jobs", MaxJobs) /\ Begin(op)

Tick == wd /\ Begin("tick") /\ UNCHANGED used

\* The interface of the state, or the one of the default route.
DetectWAN(a) ==
  /\ At("wan")
  /\ IF job.st.wan # None THEN a = "ok" /\ Goto("show") /\ UNCHANGED <<ended, used>>
     ELSE IF a = "ok" /\ wan # None
       THEN job' = [job EXCEPT !.st.wan = wan, !.at = "show"] /\ UNCHANGED <<ended, used>>
       ELSE (a # "ok" \/ wan = None) /\ Answered(a) /\ GiveUp
  /\ UNCHANGED <<ndm, doc, rules, service, calm>>

\* Mutant: a policy NDM has not given a mark yet counts as any other.
MarkReadUnchecked == run.policy # None

MarkRead == run.policy # None /\ run.policy.mark # None

\* GetPolicy, of EnsurePolicy and of waitForMark: /show/ip/policy, where a
\* refusal can read like an answer that names no policy ...
Show(a) ==
  /\ At("show") /\ Answered(a)
  /\ \/ a # "ok" /\ GiveUp
     \/ /\ a # "failed"
        /\ job' = [job EXCEPT !.clean = @ /\ a = "ok",
                     !.mark = IF a = "ok" /\ MarkRead THEN run.policy.mark ELSE None,
                     !.at = IF a = "ok" /\ MarkRead THEN "showrc"
                            ELSE IF job.made THEN "show" ELSE "create"]
        /\ UNCHANGED ended
  /\ UNCHANGED <<ndm, doc, rules, service, calm>>

\* ... and /show/rc/ip/policy, where it may be gone.
ShowRC(a) ==
  /\ At("showrc") /\ Answered(a)
  /\ IF a # "ok" \/ run.policy = None THEN GiveUp
     ELSE /\ Goto(IF job.made \/ job.st.wan \in run.policy.permit THEN "save" ELSE "delete")
          /\ UNCHANGED ended
  /\ UNCHANGED <<ndm, doc, rules, service, calm>>

\* waitForMark gives up after 5 s: NDM is late, or the policy is gone again.
MarkTimeout ==
  /\ At("show") /\ job.made /\ ~MarkRead /\ GiveUp
  /\ IF run.policy = None THEN UNCHANGED used ELSE Spend("faults", MaxFaults)
  /\ UNCHANGED <<ndm, doc, rules, service, calm>>

Done(a) == IF a = "ok" THEN {TRUE} ELSE IF a = "refused" THEN {FALSE} ELSE BOOLEAN
Deleted == [run EXCEPT !.policy = None]

Delete(a) ==
  /\ At("delete") /\ Answered(a)
  /\ \E done \in Done(a) : run' = IF done THEN Deleted ELSE run
  /\ IF a = "failed" THEN GiveUp ELSE Proceed(a, "create") /\ UNCHANGED ended
  /\ UNCHANGED <<saved, wan, doc, rules, service, calm>>

\* NDM merges the request into the policy there is.
Created == [run EXCEPT !.policy =
  IF run.policy = None THEN [mark |-> None, permit |-> {job.st.wan}]
  ELSE [mark |-> run.policy.mark, permit |-> run.policy.permit \cup {job.st.wan}]]

\* checkPolicyCreateStatus finds the refusal in the answer.
Create(a) ==
  /\ At("create") /\ Answered(a)
  /\ \E done \in Done(a) : run' = IF done THEN Created ELSE run
  /\ IF a = "ok" THEN job' = [job EXCEPT !.at = "show", !.made = TRUE] /\ UNCHANGED ended
     ELSE GiveUp
  /\ UNCHANGED <<saved, wan, doc, rules, service, calm>>

\* Mutant: only what was created is saved, and only once.
SavesWhenMade == job.op = "uninstall" \/ job.made

Saves == TRUE

\* SaveConfig; a failure is a warning.
SaveConfig(a) ==
  /\ At("save") /\ Answered(a)
  /\ \E done \in Done(a) : saved' = IF done /\ Saves THEN run ELSE saved
  /\ Proceed(a, IF job.op = "uninstall" THEN "files" ELSE "store")
  /\ UNCHANGED <<run, wan, doc, rules, service, ended, calm>>

\* The mark and the interface go into the document in memory, and saveState may fail.
Store(a) ==
  /\ At("store") /\ a # "refused" /\ Answered(a)
  /\ LET st == [mark |-> job.mark, wan |-> job.st.wan] IN
       /\ doc' = IF a = "ok" THEN st ELSE doc
       /\ job' = [job EXCEPT !.st = st, !.at = "rules", !.clean = @ /\ a = "ok"]
  /\ UNCHANGED <<ndm, rules, service, hist>>

-----------------------------------------------------------------------------
(* The rules.                                                              *)

\* Mutant: the watchdog looks whether there are rules, not which mark they match.
MissingWithoutMark(st) == rules = None /\ st.mark # None

\* CheckCriticalRules; Reconcile refuses to work without a mark.
Missing(st) == rules # st.mark /\ st.mark # None

\* Apply and Reconcile flush the chain before they fill it.
Rules(a) ==
  /\ At("rules") /\ a # "refused" /\ Answered(a)
  /\ IF job.op = "tick"
       THEN /\ rules' \in IF ~Missing(job.st) THEN {rules}
                          ELSE IF a = "ok" THEN {job.st.mark} ELSE {rules, None}
            /\ job' = Idle /\ UNCHANGED up
            /\ ended' = [op |-> "tick", well |-> a = "ok" /\ job.mark # None,
                         clean |-> job.clean /\ a = "ok"]
       ELSE /\ rules' = IF a = "ok" THEN job.st.mark ELSE None
            /\ up' = (a = "ok")
            /\ Finish(a = "ok")
  /\ wd' = (wd \/ (job.op = "boot" /\ a = "ok"))
  /\ UNCHANGED <<ndm, doc, calm>>

\* --reapply, from the hook: with the mark of the document and without NDM. It
\* can be throttled, or find the lock taken (module RuleRecovery).
Reapply ==
  /\ job.op = "idle" /\ up /\ rules = None /\ doc.mark # None
  /\ rules' = doc.mark
  /\ UNCHANGED <<ndm, doc, service, job, hist, used>>

-----------------------------------------------------------------------------
(* --uninstall and --purge: every failure is a warning.                    *)

Stop ==
  /\ At("stop")
  /\ up' = FALSE /\ wd' = FALSE /\ rules' = None /\ Goto("hosts")
  /\ UNCHANGED <<ndm, doc, hist, used>>

GetHosts(a) ==
  /\ At("hosts") /\ Answered(a)
  /\ job' = [job EXCEPT !.at = "unset", !.hosts = IF a = "ok" THEN run.bound ELSE {},
                        !.clean = @ /\ a = "ok"]
  /\ UNCHANGED <<ndm, doc, rules, service, hist>>

\* Mutant: the bindings are left to NDM.
UnsetHostNothing(a) == At("unset") /\ a = "ok" /\ Goto("drop")
                       /\ UNCHANGED <<ndm, doc, rules, service, hist, used>>

UnsetHost(a) ==
  /\ At("unset")
  /\ IF job.hosts = {} THEN a = "ok" /\ Goto("drop") /\ UNCHANGED <<run, used>>
     ELSE /\ Answered(a)
          /\ \E h \in job.hosts, done \in Done(a) :
               /\ run' = IF done THEN [run EXCEPT !.bound = @ \ {h}] ELSE run
               /\ job' = [job EXCEPT !.hosts = @ \ {h}, !.clean = @ /\ a = "ok"]
  /\ UNCHANGED <<saved, wan, doc, rules, service, hist>>

Drop(a) ==
  /\ At("drop") /\ Answered(a)
  /\ \E done \in Done(a) : run' = IF done THEN Deleted ELSE run
  /\ Proceed(a, IF a = "failed" THEN "files" ELSE "save")
  /\ UNCHANGED <<saved, wan, doc, rules, service, hist>>

RemoveFiles ==
  /\ At("files") /\ doc' = Fresh /\ Finish(TRUE)
  /\ UNCHANGED <<ndm, rules, service, calm, used>>

-----------------------------------------------------------------------------
(* NDM, the operator, and what befalls the router.                         *)

\* NDM gives the policy a mark.
AssignMark ==
  /\ run.policy # None /\ run.policy.mark = None
  /\ \E m \in Marks : run' = [run EXCEPT !.policy.mark = m]
  /\ UNCHANGED <<saved, wan, doc, rules, service, job, hist, used>>

Policies == {None} \cup [mark : Marks \cup {None}, permit : SUBSET Ifaces]

\* The operator binds a device, edits or deletes the policy in the router's
\* own interface, which saves what it changes.
Operator ==
  /\ Spend("events", MaxEvents)
  /\ \/ \E bound \in SUBSET Hosts :
          run.policy # None /\ bound # run.bound /\ run' = [run EXCEPT !.bound = bound]
     \/ run.policy # None /\ run' = Deleted
     \/ \E permit \in SUBSET Ifaces :
          run.policy # None /\ permit # run.policy.permit /\ run' = [run EXCEPT !.policy.permit = permit]
  /\ saved' = run' /\ calm' = FALSE
  /\ UNCHANGED <<wan, doc, rules, service, job, ended>>

\* NDM rewrites its tables: a device was bound, the configuration saved, the WAN came back.
Rebuild ==
  /\ Spend("events", MaxEvents) /\ rules # None /\ rules' = None /\ calm' = FALSE
  /\ UNCHANGED <<ndm, doc, service, job, ended>>

\* Another provider, or none for a while.
ChangeWAN ==
  /\ Spend("events", MaxEvents) /\ wan' \in (Ifaces \cup {None}) \ {wan} /\ calm' = FALSE
  /\ UNCHANGED <<run, saved, doc, rules, service, job, ended>>

\* NDM starts from what was saved, and chooses the marks again.
Reboot ==
  /\ Spend("events", MaxEvents)
  /\ run' = IF saved.policy = None THEN saved ELSE [saved EXCEPT !.policy.mark = None]
  /\ rules' = None /\ up' = FALSE /\ wd' = FALSE /\ job' = Idle /\ ended' = Nothing /\ calm' = FALSE
  /\ UNCHANGED <<saved, wan, doc>>

\* SIGKILL of the command, or of the daemon.
Kill ==
  /\ job.op # "idle" /\ Spend("faults", MaxFaults)
  /\ job' = Idle /\ ended' = Nothing /\ wd' = (wd /\ job.op # "tick")
  /\ UNCHANGED <<ndm, doc, rules, up, calm>>

-----------------------------------------------------------------------------

Step ==
  \/ \E a \in Answers :
       \/ DetectWAN(a) \/ Show(a) \/ ShowRC(a) \/ Delete(a) \/ Create(a)
       \/ SaveConfig(a) \/ Store(a) \/ Rules(a)
       \/ GetHosts(a) \/ UnsetHost(a) \/ Drop(a)
  \/ MarkTimeout \/ Stop \/ RemoveFiles

Next ==
  \/ Command \/ Tick \/ Step \/ Reapply
  \/ AssignMark \/ Operator \/ Rebuild \/ ChangeWAN \/ Reboot \/ Kill

\* Every request has a time limit, the daemon's ticker goes off, and NDM gets
\* round to the mark.
Spec == Init /\ [][Next]_vars /\ WF_vars(Tick) /\ WF_vars(Step) /\ WF_vars(AssignMark)

-----------------------------------------------------------------------------
(* Properties.                                                             *)

Config == [policy : Policies, bound : SUBSET Hosts]

\* The variables have their types, rules match a mark, and the daemon runs only
\* in a service that is up.
TypeOK ==
  /\ {run, saved} \subseteq Config /\ wan \in Ifaces \cup {None}
  /\ doc \in [mark : Marks \cup {None}, wan : Ifaces \cup {None}]
  /\ rules \in Marks \cup {None} /\ {up, wd, calm} \subseteq BOOLEAN
  /\ job.op = "idle" <=> job.at = "idle"
  /\ (job.at \in {"save", "store"} /\ job.op # "uninstall") => job.mark # None
  /\ wd => up

\* A --start that succeeded left rules for the mark the policy has in NDM, and a
\* policy that lets traffic out through the interface the state names, whatever
\* requests failed on the way and in whatever state the policy was found; a
\* tick that got through did the same. With no failure it also survives a reboot.
StartMakesPolicy ==
  ended.op \in {"start", "boot", "tick"} /\ ended.well /\ calm =>
    /\ run.policy # None /\ rules = run.policy.mark /\ rules # None
    /\ ended.clean => doc.wan \in run.policy.permit /\ doc.mark = rules /\ saved = run

\* An --uninstall whose requests succeeded leaves neither the policy nor a bound
\* device in either configuration of the router (BEHAVIOR_SPEC.md:832).
UninstallForgets ==
  ended.op = "uninstall" /\ ended.clean /\ calm =>
    \A c \in {run, saved} : c.policy = None /\ c.bound = {}

\* While the watchdog runs, the rules come to match the mark the policy has in
\* NDM and the policy comes to be saved, again and again: after the operator
\* deleted or edited it, after a rebuild, a failed request, or a new mark; a
\* default route is needed only as long as the state names no interface.
Followed == run.policy # None /\ rules = run.policy.mark /\ rules # None /\ saved.policy # None
MarkIsFollowed == []<>(wd /\ {wan, doc.wan} # {None} => Followed)
=============================================================================
