---------------------------- MODULE MCStateStore ----------------------------
(***************************************************************************)
(* Instances of StateStore for TLC: which kinds of handlers run together.  *)
(***************************************************************************)
EXTENDS StateStore, TLC

\* Web UI requests against the CLI commands that use the same managers.
Managers == {"manager", "cliManager"}

\* Two of those who take the CLI's lock: a command and the daemon.
UnderMainLock == {"mutation", "watchdog"}

\* Handlers of four disciplines: state lock, main lock, no lock (twice).
Mixed == {"manager", "watchdog", "hostlist", "core"}

\* The history variable intent restricts no step and StaleOnlyAcrossLocks does
\* not mention it: states that differ in nothing else are one.
WithoutIntent == <<doc, holder, pc, job, snap, author>>

Symm == Permutations(Proc) \cup Permutations(Port)

\* Teams: the sets of kinds that are at work together; each behaviour has one.
CONSTANT Teams
VARIABLE team

LockedTeams == {Managers, UnderMainLock}
MixedTeam == {Mixed}

TeamInit == Init /\ team \in Teams
TeamNext == /\ Next
            /\ \A p \in Proc : pc'[p] # "idle" => job'[p].kind \in team
            /\ UNCHANGED team
TeamSpec == TeamInit /\ [][TeamNext]_<<vars, team>>
FairTeamSpec == TeamSpec /\ \A p \in Proc : WF_vars(Step(p))
=============================================================================
