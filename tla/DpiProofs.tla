------------------------------ MODULE DpiProofs ------------------------------
(***************************************************************************)
(* Theorems about Dpi: types, the host list and its date, what --dpi on    *)
(* leaves on the disk, and to whom nfqws2 is limited.                      *)
(***************************************************************************)
EXTENDS Dpi, TLAPS

AtType == {"idle", "load", "halt", "fail", "save", "reload", "fetch", "backup", "place", "assets",
           "config", "core", "launch", "end", "lists", "stamp"}
OpType == Ops \cup {"idle", "tick"}
JobType == [op : OpType, at : AtType, st : Doc \cup {None}, day : 0..MaxDay, holds : SUBSET Required]
EndType == [op : OpType, well : BOOLEAN, holds : SUBSET Required]

Enabling == {"on", "with-dpi"}
Fetching == {"fetch", "backup", "place", "assets"}
Saving == {"on", "with-dpi", "off", "strategy", "targets", "put", "urls", "interval"}

\* Where an operation can be.
Path(op, at) ==
  /\ op = "idle" <=> at = "idle"
  /\ at = "load" => op \notin {"tick", "stop", "update"}
  /\ at = "halt" => op \in {"restart", "stop"}
  /\ at \in Fetching => op \in Enabling \cup {"update"}
  /\ at = "save" => op \in Saving
  /\ at = "reload" => op = "targets"
  /\ at = "config" => op \in Enabling \cup {"targets"} \/ Starting(op)
  /\ at \in {"core", "launch", "end"} => Starting(op)
  /\ at \in {"lists", "stamp"} => op \in {"now", "tick"}

\* A document whose date, if it has one, is that of a written list.
Earned(doc, days) == doc \in Doc /\ (doc.last # 0 => doc.last \in days)

\* The document and the day an operation has in hand.
InHand(j, days) ==
  /\ j.at \in {"config", "save", "core", "launch", "lists", "stamp"} \/ (j.at \in Fetching /\ j.op # "update")
       => Earned(j.st, days)
  /\ j.at \in {"lists", "stamp"} => j.day \in 1..MaxDay
  /\ j.at = "stamp" => j.day \in days

\* The job of a process that may have the main lock and the lock of state.json.
Right(p, j, main, state, there, have, days) ==
  /\ j \in JobType /\ j.op # "tick" /\ Path(j.op, j.at) /\ InHand(j, days)
  /\ main = p <=> j.op \notin {"idle", "put"}
  /\ state = p <=> SavesTargets(j.op) /\ j.at = "save"
  /\ j.op \in Enabling /\ j.at \in {"config", "save"} => there /\ j.holds \subseteq have
  /\ j.op \in Enabling /\ j.at = "assets" => there

\* The job of the watchdog.
Updating(j, days) == j \in JobType /\ j.op \in {"idle", "tick"} /\ Path(j.op, j.at) /\ InHand(j, days)

Jobs ==
  /\ job \in [Workers -> JobType]
  /\ \A p \in Procs : Right(p, job[p], lock, slock, bin, assets, written)
  /\ Updating(job[Watchdog], written)

Types ==
  /\ Earned(st, written) /\ (list = None \/ list \in SUBSET Hosts)
  /\ bin \in BOOLEAN /\ assets \in SUBSET Required /\ up \in BOOLEAN /\ wd \in BOOLEAN
  /\ nfqws = None \/ (nfqws.asked \in SUBSET Hosts /\ \A i \in DOMAIN nfqws.strategies :
                          nfqws.strategies[i].list = None \/ nfqws.strategies[i].list \in SUBSET Hosts)
  /\ lock \in Procs \cup {None} /\ slock \in Procs \cup {None}
  /\ day \in 1..MaxDay /\ written \in SUBSET (1..MaxDay) /\ ended \in EndType

\* An operation that enabled nfqws2 was the last to have the lock.
Enabled ==
  ended.op \in Enabling /\ ended.well => lock = None /\ bin /\ ended.holds \subseteq assets

DpiInv == Jobs /\ Types /\ Enabled /\ ListNamesHosts /\ NeverWiderThanAsked

-----------------------------------------------------------------------------
(* Jobs.                                                                   *)

\* A job at rest.
LEMMA AtRest ==
  /\ Idle \in JobType /\ Idle.op = "idle" /\ Idle.at = "idle"
  /\ Calm \in EndType /\ Calm.op = "idle"
BY BoundAssumption DEF Idle, Calm, JobType, EndType, OpType, AtType

\* A job at rest is right for whoever has neither lock.
LEMMA RestIsRight ==
  ASSUME NEW p, NEW main, NEW state, main # p, state # p, NEW there, NEW have, NEW days
  PROVE  Right(p, Idle, main, state, there, have, days) /\ Updating(Idle, days)
BY AtRest DEF Right, Updating, Path, InHand, SavesTargets, Fetching, Enabling

\* The job of a process stays right while another one acts: that one takes and
\* releases its own locks, lists get written, and only who has the main lock
\* touches the files of nfqws2.
LEMMA Others ==
  ASSUME NEW p, NEW j, NEW main, NEW state, NEW there, NEW have, NEW days,
         Right(p, j, main, state, there, have, days),
         NEW main1, NEW state1, NEW there1, NEW have1, NEW days1,
         main1 = p <=> main = p, state1 = p <=> state = p, days \subseteq days1,
         main # p \/ (there1 = there /\ have1 = have)
  PROVE  Right(p, j, main1, state1, there1, have1, days1)
BY DEF Right, InHand, Earned, Enabling

\* A process has moved, and may have stopped the watchdog: the jobs of all are
\* right.
LEMMA Moved ==
  ASSUME Jobs, NEW p \in Procs, NEW j,
         job' = [job EXCEPT ![p] = j] \/ job' = [job EXCEPT ![p] = j, ![Watchdog] = Idle],
         Right(p, j, lock', slock', bin', assets', written'),
         \A q \in Procs \ {p} : (lock' = q <=> lock = q) /\ (slock' = q <=> slock = q),
         written \subseteq written', lock = p \/ (bin' = bin /\ assets' = assets)
  PROVE  Jobs'
<1>1. job' \in [Workers -> JobType]
  BY AtRest DEF Jobs, Right, Workers
<1>2. /\ job'[p] = j /\ \A q \in Procs \ {p} : job'[q] = job[q]
      /\ job'[Watchdog] \in {job[Watchdog], Idle}
  BY ProcsAssumption DEF Jobs, Workers
<1>3. ASSUME NEW q \in Procs, q # p
      PROVE  Right(q, job'[q], lock', slock', bin', assets', written')
  <2>1. job'[q] = job[q] /\ Right(q, job[q], lock, slock, bin, assets, written)
    BY <1>2, <1>3 DEF Jobs, Workers
  <2>2. lock # q \/ (bin' = bin /\ assets' = assets)
    BY <1>3
  <2>3. QED
    BY <1>3, <2>1, <2>2, Others
<1>4. Updating(job'[Watchdog], written')
  <2>1. CASE job'[Watchdog] = Idle
    BY <2>1, AtRest DEF Updating, Path, InHand, Fetching, Enabling
  <2>2. CASE job'[Watchdog] = job[Watchdog]
    BY <2>2 DEF Jobs, Updating, InHand, Earned
  <2>3. QED
    BY <1>2, <2>1, <2>2
<1>5. QED
  BY <1>1, <1>2, <1>3, <1>4 DEF Jobs

\* The watchdog has moved, likewise.
LEMMA WatchdogMoved ==
  ASSUME Jobs, NEW j, job' = [job EXCEPT ![Watchdog] = j], Updating(j, written'),
         written \subseteq written', UNCHANGED <<lock, slock, bin, assets>>
  PROVE  Jobs'
<1>1. job' \in [Workers -> JobType]
  BY DEF Jobs, Updating, Workers
<1>2. job'[Watchdog] = j /\ \A q \in Procs : job'[q] = job[q]
  BY ProcsAssumption DEF Jobs, Workers
<1>3. ASSUME NEW q \in Procs
      PROVE  Right(q, job'[q], lock', slock', bin', assets', written')
  BY <1>2, Others DEF Jobs
<1>4. QED
  BY <1>1, <1>2, <1>3 DEF Jobs

\* A process goes on to another point of its operation.
LEMMA Went ==
  ASSUME Jobs, NEW p \in Workers, NEW at \in AtType, Goto(p, at)
  PROVE  LET j == [job[p] EXCEPT !.at = at] IN
           /\ job' = [job EXCEPT ![p] = j]
           /\ j \in JobType /\ j.op = job[p].op /\ j.at = at /\ j.st = job[p].st /\ j.day = job[p].day /\ j.holds = job[p].holds
<1> DEFINE j == [job[p] EXCEPT !.at = at]
<1>1. job[p] \in JobType
  BY DEF Jobs
<1>2. j \in JobType /\ j.op = job[p].op /\ j.at = at /\ j.st = job[p].st /\ j.day = job[p].day /\ j.holds = job[p].holds
  BY <1>1 DEF JobType
<1>3. job' = [job EXCEPT ![p] = j]
  BY DEF Goto
<1>4. QED
  BY <1>2, <1>3

\* An operation is over: the job of a process at rest and its locks released.
LEMMA Finished ==
  ASSUME Jobs, Types, NEW p \in Procs, NEW well \in BOOLEAN, Finish(p, well), written' = written,
         lock = p \/ (bin' = bin /\ assets' = assets)
  PROVE  /\ Jobs' /\ lock' \in Procs \cup {None} /\ slock' \in Procs \cup {None}
         /\ ended' = [op |-> job[p].op, well |-> well, holds |-> job[p].holds] /\ ended' \in EndType
         /\ lock = p => lock' = None
<1>1. /\ job' = [job EXCEPT ![p] = Idle] /\ lock' = Release(lock, p) /\ slock' = Release(slock, p)
      /\ ended' = [op |-> job[p].op, well |-> well, holds |-> job[p].holds]
  BY DEF Finish
<1>2. lock' # p /\ slock' # p /\ lock' \in Procs \cup {None} /\ slock' \in Procs \cup {None}
  BY <1>1, ProcsAssumption DEF Release, Types
<1>3. Right(p, Idle, lock', slock', bin', assets', written')
  BY <1>2, RestIsRight
<1>4. \A q \in Procs \ {p} : (lock' = q <=> lock = q) /\ (slock' = q <=> slock = q)
  BY <1>1, ProcsAssumption DEF Release
<1>5. Jobs'
  BY <1>1, <1>3, <1>4, Moved
<1>6. ended' \in EndType
  BY <1>1 DEF EndType, Jobs, JobType, Workers
<1>7. QED
  BY <1>1, <1>2, <1>5, <1>6 DEF Release

\* An operation goes on, with the locks as they were.
LEMMA Continued ==
  ASSUME Jobs, NEW p \in Procs, NEW at \in AtType, Continue(p, at), written' = written,
         lock = p \/ (bin' = bin /\ assets' = assets),
         Path(job[p].op, at), InHand([job[p] EXCEPT !.at = at], written),
         SavesTargets(job[p].op) => at # "save" /\ job[p].at # "save",
         job[p].op \in Enabling =>
           (at \in {"config", "save"} => bin' /\ job[p].holds \subseteq assets') /\ (at = "assets" => bin')
  PROVE  Jobs' /\ UNCHANGED <<lock, slock, ended>>
<1> DEFINE j == [job[p] EXCEPT !.at = at]
<1>1. /\ job' = [job EXCEPT ![p] = j] /\ UNCHANGED <<lock, slock, ended>>
      /\ j \in JobType /\ j.op = job[p].op /\ j.at = at /\ j.st = job[p].st /\ j.day = job[p].day /\ j.holds = job[p].holds
  BY Went DEF Continue, locks, Workers
<1>2. Right(p, job[p], lock, slock, bin, assets, written)
  BY DEF Jobs
<1> HIDE DEF j
<1>3. InHand(j, written')
  BY DEF j
<1>4. Right(p, j, lock', slock', bin', assets', written')
  BY <1>1, <1>2, <1>3 DEF Right, Enabling
<1>5. QED
  BY <1>1, <1>4, Moved

-----------------------------------------------------------------------------
(* Settings.                                                               *)

\* An edit keeps a document well formed, and its date.
LEMMA EditKeeps ==
  ASSUME NEW doc \in Doc, NEW op \in Ops, NEW new \in Edits(op, doc)
  PROVE  new \in Doc /\ new.last = doc.last
<1>1. CASE op \in {"on", "off"}
  BY <1>1 DEF Edits, SetEnabled, Doc, SavesTargets
<1>2. CASE op = "with-dpi"
  <2>1. Preset \in SUBSET Hosts
    BY DEF Hosts
  <2>2. new = [doc EXCEPT !.on = TRUE, !.targets = Preset]
    BY <1>2 DEF Edits, SetupDPIDefault, SavesTargets
  <2>3. QED
    BY <2>1, <2>2 DEF Doc
<1>3. CASE op = "strategy"
  <2>1. PICK own \in Own : new = [doc EXCEPT !.own = own]
    BY <1>3 DEF Edits, SetStrategy, SavesTargets
  <2>2. QED
    BY <2>1 DEF Doc
<1>4. CASE op = "urls"
  BY <1>4 DEF Edits, SetUpdateURLs, Doc, SavesTargets
<1>5. CASE op = "interval"
  BY <1>5 DEF Edits, SetUpdateInterval, Doc, SavesTargets
<1>6. CASE SavesTargets(op)
  <2>1. PICK ts \in Names : new = [doc EXCEPT !.targets = ts]
    BY <1>6 DEF Edits, SetTargets, SavesTargets
  <2>2. ts \in SUBSET Hosts
    BY DEF Hosts
  <2>3. QED
    BY <2>1, <2>2 DEF Doc
<1>7. CASE op \notin {"on", "off", "with-dpi", "strategy", "urls", "interval"} /\ ~SavesTargets(op)
  BY <1>7 DEF Edits, SavesTargets
<1>8. QED
  BY <1>1, <1>2, <1>3, <1>4, <1>5, <1>6, <1>7

\* Where an operation goes once it has loaded the document.
LEMMA LoadedGoes ==
  ASSUME Types, NEW op \in Ops \ {"update", "stop"}, NEW doc
  PROVE  LET at == Next1(op, doc) IN
           /\ at \in AtType /\ Path(op, at)
           /\ at = "save" <=> op \in Saving \ Enabling
           /\ op \in Enabling => at \in {"config", "fetch"} /\ (at = "config" => bin /\ assets = Required)
           /\ at # "stamp" /\ at # "assets"
<1>1. CASE op \in Enabling
  BY <1>1 DEF Next1, Path, AtType, Enabling, Fetching, Missing, Types, Starting, Saving
<1>2. CASE op = "now"
  BY <1>2 DEF Next1, Path, AtType, Enabling, Fetching, Saving
<1>3. CASE Starting(op)
  BY <1>3 DEF Next1, Path, AtType, Enabling, Fetching, Saving, Starting
<1>4. CASE op \in Saving \ Enabling
  BY <1>4 DEF Next1, Path, AtType, Enabling, Fetching, Saving, Starting
<1>5. QED
  BY <1>1, <1>2, <1>3, <1>4 DEF Ops, Saving, Starting, Enabling

\* Begin keeps the invariant.
LEMMA StepBegin == ASSUME DpiInv, NEW p \in Procs, Begin(p) PROVE DpiInv'
<1> USE DEF DpiInv
<1>1. PICK op \in Ops :
        /\ MainLocked(op) => lock = None
        /\ lock' = IF MainLocked(op) THEN p ELSE lock
        /\ job' = [job EXCEPT ![p] = [Idle EXCEPT !.op = op, !.at = First(op)]]
  BY DEF Begin
<1>2. /\ UNCHANGED <<st, list, bin, assets, up, nfqws, wd, slock, day, written>> /\ ended' = Calm
      /\ job[p].op = "idle" /\ slock # p /\ lock # p
  BY DEF Begin, disk, service, At, Jobs, Right, Path, SavesTargets
<1> DEFINE j == [Idle EXCEPT !.op = op, !.at = First(op)]
<1>3. /\ First(op) \in {"load", "halt", "fetch"}
      /\ First(op) = "halt" <=> op \in {"restart", "stop"}
      /\ First(op) = "fetch" <=> op = "update"
  BY DEF First
<1>4. j \in JobType /\ j.op = op /\ j.at = First(op)
  BY <1>3, AtRest DEF JobType, OpType, AtType
<1> HIDE DEF j
<1>5. Right(p, j, lock', slock', bin', assets', written')
  BY <1>1, <1>2, <1>3, <1>4 DEF Right, Path, InHand, SavesTargets, MainLocked, Fetching, Enabling, Saving, Ops, Starting
<1>6. \A q \in Procs \ {p} : (lock' = q <=> lock = q) /\ (slock' = q <=> slock = q)
  BY <1>1, <1>2, ProcsAssumption
<1>7. Jobs'
  BY <1>1, <1>2, <1>5, <1>6, Moved DEF j
<1>8. Types' /\ Enabled' /\ ListNamesHosts' /\ NeverWiderThanAsked'
  BY <1>1, <1>2, AtRest DEF Types, Enabled, ListNamesHosts, NeverWiderThanAsked, Enabling
<1>9. QED
  BY <1>7, <1>8

\* Load keeps the invariant.
LEMMA StepLoad == ASSUME DpiInv, NEW p \in Procs, Load(p) PROVE DpiInv'
<1> USE DEF DpiInv
<1> DEFINE op == job[p].op
           at == Next1(op, st)
<1>1. Right(p, job[p], lock, slock, bin, assets, written) /\ job[p].at = "load"
  BY DEF Jobs, Load, At
<1>2. op \in Ops \ {"update", "stop"} /\ job[p] \in JobType
  BY <1>1 DEF Right, Path, JobType, OpType
<1>3. PICK doc \in Edits(op, st) : job' = [job EXCEPT ![p].at = at, ![p].st = doc, ![p].day = day]
  BY DEF Load
<1> DEFINE j == [job[p] EXCEPT !.at = at, !.st = doc, !.day = day]
<1>4. Earned(doc, written)
  BY <1>2, EditKeeps DEF Types, Earned
<1>5. /\ at \in AtType /\ Path(op, at) /\ (at = "save" <=> op \in Saving \ Enabling)
      /\ op \in Enabling => at \in {"config", "fetch"} /\ (at = "config" => bin /\ assets = Required)
      /\ at # "stamp" /\ at # "assets"
  BY <1>2, LoadedGoes
<1>6. day \in 1..MaxDay
  BY DEF Types
<1>7. j \in JobType /\ j.op = op /\ j.at = at /\ j.st = doc /\ j.day = day
  <2>1. doc \in Doc \cup {None} /\ day \in 0..MaxDay
    BY <1>4, <1>6, BoundAssumption DEF Earned
  <2> HIDE DEF at
  <2>2. QED
    BY <1>2, <1>5, <2>1 DEF JobType
<1>8. job' = [job EXCEPT ![p] = j]
  BY <1>3
<1>9. /\ UNCHANGED <<st, list, bin, assets, up, nfqws, wd, lock, day, written, ended>>
      /\ SavesTargets(op) => slock = None
      /\ slock' = IF SavesTargets(op) THEN p ELSE slock
  BY DEF Load, disk, service, hist
<1> HIDE DEF j, at, op
<1>10. Right(p, j, lock', slock', bin', assets', written')
  <2>1. j.holds \in SUBSET Required
    BY <1>7 DEF JobType
  <2>2. QED
    BY <1>1, <1>4, <1>5, <1>6, <1>7, <1>9, <2>1 DEF Right, InHand, SavesTargets, Saving, Enabling, op
<1>11. \A q \in Procs \ {p} : (lock' = q <=> lock = q) /\ (slock' = q <=> slock = q)
  BY <1>9, ProcsAssumption
<1>12. Jobs'
  BY <1>8, <1>9, <1>10, <1>11, Moved
<1>13. Types' /\ Enabled' /\ ListNamesHosts' /\ NeverWiderThanAsked'
  BY <1>9 DEF Types, Enabled, ListNamesHosts, NeverWiderThanAsked
<1>14. QED
  BY <1>12, <1>13

\* An operation that failed, with files and service as they were.
LEMMA FailsKeeps ==
  ASSUME DpiInv, NEW p \in Procs, Finish(p, FALSE),
         UNCHANGED <<st, list, assets, nfqws, wd, day, written>>, bin' \in BOOLEAN, up' \in BOOLEAN,
         lock = p \/ bin' = bin
  PROVE  DpiInv'
<1> USE DEF DpiInv
<1>1. /\ Jobs' /\ lock' \in Procs \cup {None} /\ slock' \in Procs \cup {None}
      /\ ended' = [op |-> job[p].op, well |-> FALSE, holds |-> job[p].holds] /\ ended' \in EndType
  BY Finished
<1>2. Types' /\ Enabled' /\ ListNamesHosts' /\ NeverWiderThanAsked'
  BY <1>1 DEF Types, Enabled, ListNamesHosts, NeverWiderThanAsked
<1>3. QED
  BY <1>1, <1>2

\* Fail keeps the invariant.
LEMMA StepFail == ASSUME DpiInv, NEW p \in Procs, Fail(p) PROVE DpiInv'
BY FailsKeeps DEF Fail, disk, service, DpiInv, Types

\* Save keeps the invariant: the document it writes has an earned date, and
\* what was enabled can be used.
LEMMA StepSave == ASSUME DpiInv, NEW p \in Procs, Save(p) PROVE DpiInv'
<1> USE DEF DpiInv
<1>1. /\ UNCHANGED <<list, bin, assets, up, nfqws, wd, day, written>> /\ st' = job[p].st /\ job[p].at = "save"
  BY DEF Save, disk, service, At
<1>2. Right(p, job[p], lock, slock, bin, assets, written) /\ job[p].op \in Saving
  BY <1>1 DEF Jobs, Right, Path
<1>3. Earned(st', written')
  BY <1>1, <1>2 DEF Right, InHand
<1>4. CASE job[p].op = "targets"
  <2>1. Goto(p, "reload") /\ lock' = lock /\ slock' = None /\ ended' = ended
    BY <1>4 DEF Save
  <2> DEFINE j == [job[p] EXCEPT !.at = "reload"]
  <2>2. /\ job' = [job EXCEPT ![p] = j]
        /\ j \in JobType /\ j.op = job[p].op /\ j.at = "reload" /\ j.st = job[p].st /\ j.day = job[p].day /\ j.holds = job[p].holds
    BY <2>1, Went DEF Workers, AtType
  <2>3. slock = p
    BY <1>1, <1>2, <1>4 DEF Right, SavesTargets
  <2> HIDE DEF j
  <2>4. Right(p, j, lock', slock', bin', assets', written')
    BY <1>1, <1>2, <1>4, <2>1, <2>2, ProcsAssumption DEF Right, Path, InHand, Fetching, Enabling, SavesTargets
  <2>5. \A q \in Procs \ {p} : (lock' = q <=> lock = q) /\ (slock' = q <=> slock = q)
    BY <2>1, <2>3, ProcsAssumption
  <2>6. Jobs'
    BY <1>1, <2>2, <2>4, <2>5, Moved
  <2>7. Types' /\ Enabled' /\ ListNamesHosts' /\ NeverWiderThanAsked'
    BY <1>1, <1>3, <2>1 DEF Types, Enabled, ListNamesHosts, NeverWiderThanAsked
  <2>8. QED
    BY <2>6, <2>7
<1>5. CASE job[p].op # "targets"
  <2>1. Finish(p, TRUE)
    BY <1>5 DEF Save
  <2>2. /\ Jobs' /\ lock' \in Procs \cup {None} /\ slock' \in Procs \cup {None}
        /\ ended' = [op |-> job[p].op, well |-> TRUE, holds |-> job[p].holds] /\ ended' \in EndType /\ (lock = p => lock' = None)
    BY <1>1, <2>1, Finished
  <2>3. Enabled'
    <3>1. CASE job[p].op \in Enabling
      BY <1>1, <1>2, <2>2, <3>1 DEF Enabled, Right, Enabling
    <3>2. CASE job[p].op \notin Enabling
      BY <2>2, <3>2 DEF Enabled
    <3>3. QED
      BY <3>1, <3>2
  <2>4. Types' /\ ListNamesHosts' /\ NeverWiderThanAsked'
    BY <1>1, <1>3, <2>2 DEF Types, ListNamesHosts, NeverWiderThanAsked
  <2>5. QED
    BY <2>2, <2>3, <2>4
<1>6. QED
  BY <1>4, <1>5

\* Reload keeps the invariant.
LEMMA StepReload == ASSUME DpiInv, NEW p \in Procs, Reload(p) PROVE DpiInv'
<1> USE DEF DpiInv
<1>1. /\ UNCHANGED <<st, list, bin, assets, up, nfqws, wd, day, written>> /\ job[p].at = "reload"
  BY DEF Reload, disk, service, At
<1>2. Right(p, job[p], lock, slock, bin, assets, written) /\ job[p].op = "targets" /\ job[p] \in JobType
  BY <1>1 DEF Jobs, Right, Path
<1>3. CASE st.on
  <2> DEFINE j == [job[p] EXCEPT !.at = "config", !.st = st]
  <2>1. job' = [job EXCEPT ![p] = j] /\ UNCHANGED <<lock, slock, ended>>
    BY <1>3 DEF Reload, locks
  <2>2. j \in JobType /\ j.op = "targets" /\ j.at = "config" /\ j.st = st
    BY <1>2 DEF JobType, AtType, Types, Earned
  <2> HIDE DEF j
  <2>3. Right(p, j, lock', slock', bin', assets', written')
    BY <1>1, <1>2, <2>1, <2>2 DEF Right, Path, InHand, Fetching, Enabling, SavesTargets, Types
  <2>4. Jobs'
    BY <1>1, <2>1, <2>3, Moved
  <2>5. Types' /\ Enabled' /\ ListNamesHosts' /\ NeverWiderThanAsked'
    BY <1>1, <2>1 DEF Types, Enabled, ListNamesHosts, NeverWiderThanAsked
  <2>6. QED
    BY <2>4, <2>5
<1>4. CASE ~st.on
  <2>1. Finish(p, TRUE)
    BY <1>4 DEF Reload
  <2>2. /\ Jobs' /\ lock' \in Procs \cup {None} /\ slock' \in Procs \cup {None}
        /\ ended' = [op |-> "targets", well |-> TRUE, holds |-> job[p].holds] /\ ended' \in EndType
    BY <1>1, <1>2, <2>1, Finished
  <2>3. Types' /\ Enabled' /\ ListNamesHosts' /\ NeverWiderThanAsked'
    BY <1>1, <2>2 DEF Types, Enabled, Enabling, ListNamesHosts, NeverWiderThanAsked
  <2>4. QED
    BY <2>2, <2>3
<1>5. QED
  BY <1>3, <1>4

-----------------------------------------------------------------------------
(* The files of nfqws2.                                                    *)

\* Fetch keeps the invariant.
LEMMA StepFetch == ASSUME DpiInv, NEW p \in Procs, Fetch(p) PROVE DpiInv'
<1> USE DEF DpiInv
<1>1. UNCHANGED <<st, list, bin, assets, up, nfqws, wd, day, written>> /\ job[p].at = "fetch"
  BY DEF Fetch, disk, service, At
<1>2. Right(p, job[p], lock, slock, bin, assets, written) /\ job[p].op \in Enabling \cup {"update"}
  BY <1>1 DEF Jobs, Right, Path, Fetching
<1>3. CASE Finish(p, FALSE)
  BY <1>1, <1>3, FailsKeeps DEF Types
<1>4. ASSUME NEW at \in {"assets", "backup"}, NEW holds \in SUBSET Required, at = "assets" => job[p].op = "update",
             job' = [job EXCEPT ![p].at = at, ![p].holds = holds], UNCHANGED <<lock, slock, ended>>
      PROVE  DpiInv'
  <2> DEFINE j == [job[p] EXCEPT !.at = at, !.holds = holds]
  <2>1. job' = [job EXCEPT ![p] = j]
    BY <1>4
  <2>2. j \in JobType /\ j.op = job[p].op /\ j.at = at /\ j.st = job[p].st /\ j.holds = holds
    BY <1>2, <1>4 DEF Right, JobType, AtType
  <2> HIDE DEF j
  <2>3. Path(j.op, j.at) /\ InHand(j, written)
    BY <1>1, <1>2, <1>4, <2>2 DEF Right, Path, InHand, Fetching, Enabling
  <2>4. Right(p, j, lock', slock', bin', assets', written')
    BY <1>1, <1>2, <1>4, <2>2, <2>3 DEF Right, Enabling, SavesTargets
  <2>5. Jobs'
    BY <1>1, <1>4, <2>1, <2>4, Moved
  <2>6. Types' /\ Enabled' /\ ListNamesHosts' /\ NeverWiderThanAsked'
    BY <1>1, <1>4 DEF Types, Enabled, ListNamesHosts, NeverWiderThanAsked
  <2>7. QED
    BY <2>5, <2>6
<1>5. CASE ~Finish(p, FALSE)
  <2>1. PICK new \in BOOLEAN, holds \in SUBSET Required :
          /\ job' = [job EXCEPT ![p].at = IF new \/ job[p].op # "update" THEN "backup" ELSE "assets",
                                ![p].holds = holds]
          /\ UNCHANGED <<lock, slock, ended>>
    BY <1>5 DEF Fetch, locks
  <2>2. PICK at : at = IF new \/ job[p].op # "update" THEN "backup" ELSE "assets"
    OBVIOUS
  <2>3. at \in {"assets", "backup"} /\ (at = "assets" => job[p].op = "update")
    BY <2>2
  <2>4. job' = [job EXCEPT ![p].at = at, ![p].holds = holds]
    BY <2>1, <2>2
  <2>5. QED
    BY <1>4, <2>1, <2>3, <2>4
<1>6. QED
  BY <1>3, <1>5

\* Backup keeps the invariant: who takes the binary away has the main lock, so
\* nobody is about to report that nfqws2 is enabled.
LEMMA StepBackup == ASSUME DpiInv, NEW p \in Procs, Backup(p) PROVE DpiInv'
<1> USE DEF DpiInv
<1>1. /\ UNCHANGED <<st, list, assets, up, nfqws, wd, lock, slock, day, written, ended>> /\ bin' = FALSE
      /\ job[p].at = "backup" /\ Goto(p, "place")
  BY DEF Backup, service, locks, hist, At
<1>2. Right(p, job[p], lock, slock, bin, assets, written) /\ job[p].op \in Enabling \cup {"update"}
  BY <1>1 DEF Jobs, Right, Path, Fetching
<1>3. lock = p
  BY <1>2 DEF Right, Enabling
<1> DEFINE j == [job[p] EXCEPT !.at = "place"]
<1>4. /\ job' = [job EXCEPT ![p] = j]
      /\ j \in JobType /\ j.op = job[p].op /\ j.at = "place" /\ j.st = job[p].st /\ j.day = job[p].day /\ j.holds = job[p].holds
  BY <1>1, Went DEF Workers, AtType
<1> HIDE DEF j
<1>5. Right(p, j, lock', slock', bin', assets', written')
  BY <1>1, <1>2, <1>4 DEF Right, Path, InHand, Fetching, Enabling, SavesTargets
<1>6. Jobs'
  BY <1>1, <1>3, <1>4, <1>5, Moved
<1>7. Types' /\ Enabled' /\ ListNamesHosts' /\ NeverWiderThanAsked'
  BY <1>1, <1>3, ProcsAssumption DEF Types, Enabled, ListNamesHosts, NeverWiderThanAsked
<1>8. QED
  BY <1>6, <1>7

\* Place keeps the invariant.
LEMMA StepPlace == ASSUME DpiInv, NEW p \in Procs, Place(p) PROVE DpiInv'
<1> USE DEF DpiInv
<1>1. UNCHANGED <<st, list, assets, up, nfqws, wd, day, written>> /\ job[p].at = "place"
  BY DEF Place, service, At
<1>2. Right(p, job[p], lock, slock, bin, assets, written) /\ job[p].op \in Enabling \cup {"update"}
  BY <1>1 DEF Jobs, Right, Path, Fetching
<1>3. lock = p
  BY <1>2 DEF Right, Enabling
<1>4. \/ Finish(p, FALSE) /\ bin' = FALSE
      \/ Continue(p, "assets") /\ bin' = TRUE
  BY DEF Place
<1>5. CASE Finish(p, FALSE) /\ bin' = FALSE
  BY <1>1, <1>3, <1>5, FailsKeeps DEF Types
<1>6. CASE Continue(p, "assets") /\ bin' = TRUE
  <2>1. Path(job[p].op, "assets") /\ "assets" \in AtType
    BY <1>2 DEF Path, Fetching, AtType, Enabling
  <2>2. InHand([job[p] EXCEPT !.at = "assets"], written)
    <3>1. [job[p] EXCEPT !.at = "assets"].op = job[p].op /\ [job[p] EXCEPT !.at = "assets"].st = job[p].st
          /\ [job[p] EXCEPT !.at = "assets"].at = "assets"
      BY <1>2 DEF Right, JobType
    <3>2. QED
      BY <1>1, <1>2, <3>1 DEF Right, InHand, Fetching
  <2>3. Jobs' /\ UNCHANGED <<lock, slock, ended>>
    BY <1>1, <1>2, <1>3, <1>6, <2>1, <2>2, Continued DEF SavesTargets, Enabling
  <2>4. Types' /\ Enabled' /\ ListNamesHosts' /\ NeverWiderThanAsked'
    BY <1>1, <1>3, <1>6, <2>3, ProcsAssumption DEF Types, Enabled, ListNamesHosts, NeverWiderThanAsked
  <2>5. QED
    BY <2>3, <2>4
<1>7. QED
  BY <1>4, <1>5, <1>6

\* The lua and blob files, one by one and all of them.
LEMMA StepAssets ==
  ASSUME DpiInv, NEW p \in Procs, PlaceAsset(p) \/ AssetsFail(p) \/ AssetsDone(p) PROVE DpiInv'
<1> USE DEF DpiInv
<1>1. UNCHANGED <<st, list, bin, up, nfqws, wd, day, written>> /\ job[p].at = "assets"
  BY DEF PlaceAsset, AssetsFail, AssetsDone, service, disk, hist, At
<1>2. Right(p, job[p], lock, slock, bin, assets, written) /\ job[p].op \in Enabling \cup {"update"}
  BY <1>1 DEF Jobs, Right, Path, Fetching
<1>3. lock = p
  BY <1>2 DEF Right, Enabling
<1>4. CASE PlaceAsset(p)
  <2>1. job' = job /\ UNCHANGED <<lock, slock, ended>> /\ assets' \in SUBSET Required /\ assets \subseteq assets'
    BY <1>2, <1>4 DEF PlaceAsset, locks, hist, Types, Right, JobType
  <2>2. job' = [job EXCEPT ![p] = job[p]]
    BY <2>1 DEF Jobs
  <2>3. Right(p, job[p], lock', slock', bin', assets', written')
    BY <1>1, <1>2, <2>1 DEF Right
  <2>4. Jobs'
    BY <1>1, <1>3, <2>1, <2>2, <2>3, Moved
  <2>5. Types' /\ Enabled' /\ ListNamesHosts' /\ NeverWiderThanAsked'
    BY <1>1, <1>3, <2>1, ProcsAssumption DEF Types, Enabled, ListNamesHosts, NeverWiderThanAsked
  <2>6. QED
    BY <2>4, <2>5
<1>5. CASE AssetsFail(p)
  BY <1>1, <1>5, FailsKeeps DEF AssetsFail, disk, Types, service
<1>6. CASE AssetsDone(p) /\ job[p].op = "update"
  <2>1. assets' = assets /\ Finish(p, TRUE)
    BY <1>6 DEF AssetsDone, disk
  <2>2. /\ Jobs' /\ lock' \in Procs \cup {None} /\ slock' \in Procs \cup {None}
        /\ ended' = [op |-> job[p].op, well |-> TRUE, holds |-> job[p].holds] /\ ended' \in EndType
    BY <1>1, <2>1, Finished
  <2>3. Types' /\ Enabled' /\ ListNamesHosts' /\ NeverWiderThanAsked'
    BY <1>1, <1>6, <2>1, <2>2 DEF Types, Enabled, Enabling, ListNamesHosts, NeverWiderThanAsked
  <2>4. QED
    BY <2>2, <2>3
<1>7. CASE AssetsDone(p) /\ job[p].op # "update"
  <2>1. assets' = assets /\ job[p].holds \subseteq assets /\ Continue(p, "config")
    BY <1>7 DEF AssetsDone, disk
  <2>2. Path(job[p].op, "config") /\ "config" \in AtType
    BY <1>2, <1>7 DEF Path, Fetching, AtType, Enabling
  <2>3. InHand([job[p] EXCEPT !.at = "config"], written)
    <3>1. [job[p] EXCEPT !.at = "config"].op = job[p].op /\ [job[p] EXCEPT !.at = "config"].st = job[p].st
          /\ [job[p] EXCEPT !.at = "config"].at = "config"
      BY <1>2 DEF Right, JobType
    <3>2. QED
      BY <1>1, <1>2, <1>7, <3>1 DEF Right, InHand, Fetching
  <2>4. job[p].op \in Enabling => bin
    BY <1>1, <1>2 DEF Right
  <2>5. Jobs' /\ UNCHANGED <<lock, slock, ended>>
    BY <1>1, <1>2, <1>3, <2>1, <2>2, <2>3, <2>4, Continued DEF SavesTargets, Enabling
  <2>6. Types' /\ Enabled' /\ ListNamesHosts' /\ NeverWiderThanAsked'
    BY <1>1, <2>1, <2>5 DEF Types, Enabled, ListNamesHosts, NeverWiderThanAsked
  <2>7. QED
    BY <2>5, <2>6
<1>8. QED
  BY <1>4, <1>5, <1>6, <1>7

-----------------------------------------------------------------------------
(* The host list and the service.                                          *)

\* What Continue needs of a job past the lists, once and for all.
LEMMA Onward ==
  ASSUME Jobs, NEW p \in Procs, NEW at \in {"end", "launch", "save", "config"},
         job[p].at \in {"config", "core", "launch"},
         at = "save" => job[p].op \in Enabling,
         at \in {"end", "launch"} => Starting(job[p].op), at = "config" => Starting(job[p].op),
         Continue(p, at), UNCHANGED <<bin, assets, written>>
  PROVE  Jobs' /\ UNCHANGED <<lock, slock, ended>>
<1>1. Right(p, job[p], lock, slock, bin, assets, written)
  BY DEF Jobs
<1>2. Path(job[p].op, at) /\ at \in AtType
  BY <1>1 DEF Right, Path, Fetching, AtType, Enabling, Saving, Starting
<1>3. InHand([job[p] EXCEPT !.at = at], written)
  <2>1. [job[p] EXCEPT !.at = at].op = job[p].op /\ [job[p] EXCEPT !.at = at].st = job[p].st
        /\ [job[p] EXCEPT !.at = at].at = at
    BY <1>1 DEF Right, JobType
  <2>2. QED
    BY <1>1, <2>1 DEF Right, InHand, Fetching
<1>4. SavesTargets(job[p].op) => at # "save" /\ job[p].at # "save"
  BY DEF SavesTargets, Enabling
<1>5. job[p].op \in Enabling =>
        (at \in {"config", "save"} => bin' /\ job[p].holds \subseteq assets') /\ (at = "assets" => bin')
  BY <1>1 DEF Right, Enabling, Starting, Path
<1>6. QED
  BY <1>2, <1>3, <1>4, <1>5, Continued

\* NoInterface keeps the invariant.
LEMMA StepNoInterface == ASSUME DpiInv, NEW p \in Procs, NoInterface(p) PROVE DpiInv'
<1> USE DEF DpiInv
<1>1. UNCHANGED <<st, list, bin, assets, up, nfqws, wd, day, written>> /\ job[p].at = "config"
  BY DEF NoInterface, service, disk, At
<1>2. \/ Continue(p, "end") /\ Starting(job[p].op)
      \/ Continue(p, "save") /\ job[p].op = "with-dpi"
      \/ Finish(p, FALSE)
  BY DEF NoInterface
<1>3. CASE Finish(p, FALSE)
  BY <1>1, <1>3, FailsKeeps DEF Types
<1>4. CASE \/ Continue(p, "end") /\ Starting(job[p].op)
           \/ Continue(p, "save") /\ job[p].op = "with-dpi"
  <2>1. Jobs' /\ UNCHANGED <<lock, slock, ended>>
    BY <1>1, <1>4, Onward DEF Enabling
  <2>2. Types' /\ Enabled' /\ ListNamesHosts' /\ NeverWiderThanAsked'
    BY <1>1, <2>1 DEF Types, Enabled, ListNamesHosts, NeverWiderThanAsked
  <2>3. QED
    BY <2>1, <2>2
<1>5. QED
  BY <1>2, <1>3, <1>4

\* WriteConfig keeps the invariant: only targets that name somebody are written.
LEMMA StepWriteConfig == ASSUME DpiInv, NEW p \in Procs, WriteConfig(p) PROVE DpiInv'
<1> USE DEF DpiInv
<1>1. UNCHANGED <<st, bin, assets, up, nfqws, wd, day, written>> /\ job[p].at = "config"
  BY DEF WriteConfig, service, At
<1>2. Right(p, job[p], lock, slock, bin, assets, written) /\ job[p].st \in Doc
  BY <1>1 DEF Jobs, Right, InHand, Earned
<1>3. PICK fails \in BOOLEAN :
        /\ list' = IF fails \/ job[p].st.targets = {} THEN list ELSE job[p].st.targets
        /\ CASE Starting(job[p].op)        -> Continue(p, "launch")
             [] fails                      -> Finish(p, FALSE)
             [] job[p].op = "targets"      -> Finish(p, TRUE)
             [] OTHER                      -> Continue(p, "save")
  BY DEF WriteConfig
<1>4. \/ Continue(p, "launch") /\ Starting(job[p].op)
      \/ Finish(p, FALSE)
      \/ Finish(p, TRUE) /\ job[p].op = "targets"
      \/ Continue(p, "save") /\ job[p].op \in Enabling
  BY <1>1, <1>2, <1>3 DEF Right, Path
<1>5. list' # {} /\ (list' = None \/ list' \in SUBSET Hosts)
  BY <1>2, <1>3 DEF ListNamesHosts, Types, Doc
<1>6. CASE Finish(p, FALSE) \/ (Finish(p, TRUE) /\ job[p].op = "targets")
  <2>1. PICK well \in BOOLEAN : Finish(p, well) /\ (well => job[p].op = "targets")
    BY <1>6
  <2>2. /\ Jobs' /\ lock' \in Procs \cup {None} /\ slock' \in Procs \cup {None}
        /\ ended' = [op |-> job[p].op, well |-> well, holds |-> job[p].holds] /\ ended' \in EndType
    BY <1>1, <2>1, Finished
  <2>3. Types' /\ Enabled' /\ ListNamesHosts' /\ NeverWiderThanAsked'
    BY <1>1, <1>5, <2>1, <2>2 DEF Types, Enabled, Enabling, ListNamesHosts, NeverWiderThanAsked
  <2>4. QED
    BY <2>2, <2>3
<1>7. CASE \/ Continue(p, "launch") /\ Starting(job[p].op)
           \/ Continue(p, "save") /\ job[p].op \in Enabling
  <2>1. Jobs' /\ UNCHANGED <<lock, slock, ended>>
    BY <1>1, <1>7, Onward
  <2>2. Types' /\ Enabled' /\ ListNamesHosts' /\ NeverWiderThanAsked'
    BY <1>1, <1>5, <2>1 DEF Types, Enabled, ListNamesHosts, NeverWiderThanAsked
  <2>3. QED
    BY <2>1, <2>2
<1>8. QED
  BY <1>4, <1>6, <1>7

\* Halt keeps the invariant, whatever the watchdog was about.
LEMMA StepHalt == ASSUME DpiInv, NEW p \in Procs, Halt(p) PROVE DpiInv'
<1> USE DEF DpiInv
<1>1. /\ UNCHANGED <<st, list, bin, assets, slock, day, written>> /\ job[p].at = "halt"
      /\ up' = FALSE /\ wd' = FALSE /\ nfqws' = None
  BY DEF Halt, disk, At
<1>2. Right(p, job[p], lock, slock, bin, assets, written) /\ job[p].op \in {"restart", "stop"} /\ job[p] \in JobType
  BY <1>1 DEF Jobs, Right, Path
<1>3. CASE job[p].op = "stop"
  <2>1. /\ job' = [job EXCEPT ![p] = Idle, ![Watchdog] = Idle]
        /\ lock' = Release(lock, p) /\ ended' = [op |-> "stop", well |-> TRUE, holds |-> job[p].holds]
    BY <1>3 DEF Halt
  <2>2. lock' # p /\ slock' # p /\ lock' \in Procs \cup {None}
    BY <1>1, <1>2, <2>1, ProcsAssumption DEF Release, Types, Right
  <2>3. Right(p, Idle, lock', slock', bin', assets', written')
    BY <2>2, RestIsRight
  <2>4. \A q \in Procs \ {p} : (lock' = q <=> lock = q) /\ (slock' = q <=> slock = q)
    BY <1>1, <2>1, ProcsAssumption DEF Release
  <2>5. Jobs'
    BY <1>1, <2>1, <2>3, <2>4, Moved
  <2>6. ended' \in EndType /\ ended'.op \notin Enabling
    BY <1>2, <2>1 DEF EndType, OpType, Ops, Enabling, JobType
  <2>7. Types' /\ Enabled' /\ ListNamesHosts' /\ NeverWiderThanAsked'
    BY <1>1, <2>2, <2>6 DEF Types, Enabled, ListNamesHosts, NeverWiderThanAsked
  <2>8. QED
    BY <2>5, <2>7
<1>4. CASE job[p].op = "restart"
  <2> DEFINE j == [job[p] EXCEPT !.at = "load"]
  <2>1. job' = [job EXCEPT ![p] = j, ![Watchdog] = Idle] /\ lock' = lock /\ ended' = ended
    BY <1>4 DEF Halt
  <2>2. j \in JobType /\ j.op = "restart" /\ j.at = "load"
    BY <1>2, <1>4 DEF JobType, AtType
  <2> HIDE DEF j
  <2>3. Right(p, j, lock', slock', bin', assets', written')
    BY <1>1, <1>2, <1>4, <2>1, <2>2 DEF Right, Path, InHand, Fetching, Enabling, SavesTargets
  <2>4. Jobs'
    BY <1>1, <2>1, <2>3, Moved
  <2>5. Types' /\ Enabled' /\ ListNamesHosts' /\ NeverWiderThanAsked'
    BY <1>1, <2>1 DEF Types, Enabled, ListNamesHosts, NeverWiderThanAsked
  <2>6. QED
    BY <2>4, <2>5
<1>5. QED
  BY <1>2, <1>3, <1>4

\* StartCore keeps the invariant.
LEMMA StepStartCore == ASSUME DpiInv, NEW p \in Procs, StartCore(p) PROVE DpiInv'
<1> USE DEF DpiInv
<1>1. UNCHANGED <<st, list, bin, assets, nfqws, wd, day, written>> /\ job[p].at = "core" /\ up' \in BOOLEAN
  BY DEF StartCore, disk, At
<1>2. Starting(job[p].op)
  BY <1>1 DEF Jobs, Right, Path
<1>3. Finish(p, FALSE) \/ Continue(p, "config") \/ Continue(p, "end")
  BY DEF StartCore
<1>4. CASE Finish(p, FALSE)
  BY <1>1, <1>4, FailsKeeps DEF Types
<1>5. CASE Continue(p, "config") \/ Continue(p, "end")
  <2>1. Jobs' /\ UNCHANGED <<lock, slock, ended>>
    BY <1>1, <1>2, <1>5, Onward
  <2>2. Types' /\ Enabled' /\ ListNamesHosts' /\ NeverWiderThanAsked'
    BY <1>1, <2>1 DEF Types, Enabled, ListNamesHosts, NeverWiderThanAsked
  <2>3. QED
    BY <2>1, <2>2
<1>6. QED
  BY <1>3, <1>4, <1>5

\* Of the strategies of a command line the last has the host list, the others none.
LEMMA LastIsLimited ==
  ASSUME NEW doc \in Doc, NEW hostlist
  PROVE  /\ \A i \in DOMAIN BuildCmdline(doc, hostlist) : BuildCmdline(doc, hostlist)[i].list \in {hostlist, None}
         /\ BuildCmdline(doc, hostlist)[Len(BuildCmdline(doc, hostlist))].list = hostlist
<1> DEFINE filters == <<"udp", "quic">> \o doc.own
<1>1. Len(filters) \in Nat /\ Len(filters) >= 1
  <2>1. PICK S : doc.own \in Seq(S)
    <3>1. CASE doc.own \in Own
      BY <3>1, OwnAssumption
    <3>2. CASE doc.own = BuiltIn
      <4>1. <<"tcp">> \in Seq({"tcp"})
        OBVIOUS
      <4>2. QED
        BY <3>2, <4>1 DEF BuiltIn
    <3>3. QED
      BY <3>1, <3>2 DEF Doc
  <2>2. PICK T : T = S \cup {"udp", "quic"}
    OBVIOUS
  <2>3. doc.own \in Seq(T) /\ <<"udp", "quic">> \in Seq(T)
    BY <2>1, <2>2
  <2>4. QED
    BY <2>3
<1>2. PICK n \in Nat : n = Len(filters) /\ n >= 1
  BY <1>1
<1>3. PICK line : line = BuildCmdline(doc, hostlist)
  OBVIOUS
<1>4. line = [i \in 1..n |-> [filter |-> filters[i], list |-> IF i = n THEN hostlist ELSE None]]
  BY <1>2, <1>3 DEF BuildCmdline
<1> HIDE DEF filters
<1>5. Len(line) = n /\ DOMAIN line = 1..n /\ n \in 1..n
  BY <1>2, <1>4
<1>6. \A i \in 1..n : line[i].list = IF i = n THEN hostlist ELSE None
  BY <1>4
<1>7. line[n].list = hostlist
  BY <1>5, <1>6
<1>8. \A i \in DOMAIN line : line[i].list \in {hostlist, None}
  BY <1>5, <1>6
<1>9. line[Len(line)].list = hostlist
  BY <1>5, <1>7
<1>10. QED
  BY <1>3, <1>8, <1>9

\* Launch limits the last strategy of an nfqws2 whose user has targets, or does not
\* start it.
LEMMA StepLaunch == ASSUME DpiInv, NEW p \in Procs, Launch(p) PROVE DpiInv'
<1> USE DEF DpiInv
<1>1. /\ UNCHANGED <<st, list, bin, assets, up, wd, day, written, lock, slock, ended>> /\ job[p].at = "launch"
      /\ nfqws' = Run(job[p].st, HostlistShouldApply(job[p].st)) /\ Continue(p, "end")
  BY DEF Launch, disk, At, locks, hist, Continue
<1>2. Starting(job[p].op) /\ job[p].st \in Doc
  BY <1>1 DEF Jobs, Right, Path, InHand, Earned
<1>3. Jobs'
  BY <1>1, <1>2, Onward
<1>4. CASE nfqws' = None
  <2>1. Types' /\ Enabled' /\ ListNamesHosts' /\ NeverWiderThanAsked'
    BY <1>1, <1>4 DEF Types, Enabled, ListNamesHosts, NeverWiderThanAsked
  <2>2. QED
    BY <1>3, <2>1
<1>5. CASE nfqws' # None
  <2>1. PICK hostlist : hostlist = IF HostlistShouldApply(job[p].st) THEN list ELSE None
    OBVIOUS
  <2>2. /\ nfqws' = [asked |-> job[p].st.targets, strategies |-> BuildCmdline(job[p].st, hostlist)]
        /\ hostlist \in {list, None} /\ (job[p].st.targets # {} => hostlist # None)
    BY <1>1, <1>5, <2>1 DEF Run, HostlistShouldApply
  <2>3. /\ \A i \in DOMAIN BuildCmdline(job[p].st, hostlist) : BuildCmdline(job[p].st, hostlist)[i].list \in {hostlist, None}
        /\ BuildCmdline(job[p].st, hostlist)[Len(BuildCmdline(job[p].st, hostlist))].list = hostlist
    BY <1>2, LastIsLimited
  <2>4. /\ nfqws'.asked = job[p].st.targets /\ nfqws'.asked \in SUBSET Hosts
        /\ \A i \in DOMAIN nfqws'.strategies : nfqws'.strategies[i].list \in {hostlist, None}
        /\ nfqws'.asked # {} => nfqws'.strategies[Len(nfqws'.strategies)].list # None
    BY <1>2, <2>2, <2>3 DEF Doc
  <2>5. \A i \in DOMAIN nfqws'.strategies : nfqws'.strategies[i].list = None \/ nfqws'.strategies[i].list \in SUBSET Hosts
    BY <2>2, <2>4 DEF Types
  <2>6. Types' /\ Enabled' /\ ListNamesHosts' /\ NeverWiderThanAsked'
    BY <1>1, <2>4, <2>5 DEF Types, Enabled, ListNamesHosts, NeverWiderThanAsked
  <2>7. QED
    BY <1>3, <2>6
<1>6. QED
  BY <1>4, <1>5

\* End keeps the invariant.
LEMMA StepEnd == ASSUME DpiInv, NEW p \in Procs, End(p) PROVE DpiInv'
<1> USE DEF DpiInv
<1>1. /\ UNCHANGED <<st, list, bin, assets, up, nfqws, day, written>> /\ job[p].at = "end"
      /\ Finish(p, TRUE) /\ wd' \in BOOLEAN
  BY DEF End, disk, At, Types
<1>2. job[p].op \notin Enabling
  BY <1>1 DEF Jobs, Right, Path, Starting, Enabling
<1>3. /\ Jobs' /\ lock' \in Procs \cup {None} /\ slock' \in Procs \cup {None}
      /\ ended' = [op |-> job[p].op, well |-> TRUE, holds |-> job[p].holds] /\ ended' \in EndType
  BY <1>1, Finished
<1>4. Types' /\ Enabled' /\ ListNamesHosts' /\ NeverWiderThanAsked'
  BY <1>1, <1>2, <1>3 DEF Types, Enabled, ListNamesHosts, NeverWiderThanAsked
<1>5. QED
  BY <1>3, <1>4

-----------------------------------------------------------------------------
(* Updates of the host list, by a command or by the watchdog.              *)

\* What an update has in hand.
LEMMA UpdateHas ==
  ASSUME Jobs, NEW p \in Workers, job[p].at \in {"lists", "stamp"}
  PROVE  /\ job[p] \in JobType /\ job[p].op \in {"now", "tick"} /\ Earned(job[p].st, written)
         /\ job[p].day \in 1..MaxDay /\ (job[p].at = "stamp" => job[p].day \in written)
<1>1. CASE p = Watchdog
  BY <1>1 DEF Jobs, Updating, Path, InHand
<1>2. CASE p \in Procs
  BY <1>2 DEF Jobs, Right, Path, InHand
<1>3. QED
  BY <1>1, <1>2 DEF Workers

\* An update is over, whoever made it.
LEMMA UpdateFinished ==
  ASSUME Jobs, Types, NEW p \in Workers, job[p].at \in {"lists", "stamp"}, NEW well \in BOOLEAN, Finish(p, well),
         UNCHANGED <<written, bin, assets>>
  PROVE  /\ Jobs' /\ lock' \in Procs \cup {None} /\ slock' \in Procs \cup {None}
         /\ ended' \in EndType /\ ended'.op \notin Enabling
<1>1. /\ ended' = [op |-> job[p].op, well |-> well, holds |-> job[p].holds] /\ job[p].op \in {"now", "tick"}
      /\ job' = [job EXCEPT ![p] = Idle] /\ lock' = Release(lock, p) /\ slock' = Release(slock, p)
  BY UpdateHas DEF Finish
<1>2. ended' \in EndType /\ ended'.op \notin Enabling
  BY <1>1, UpdateHas DEF EndType, OpType, Ops, Enabling, JobType
<1>3. CASE p \in Procs
  BY <1>2, <1>3, Finished
<1>4. CASE p = Watchdog
  <2>1. lock' = lock /\ slock' = slock
    BY <1>1, <1>4, ProcsAssumption DEF Types, Release
  <2>2. Updating(Idle, written')
    BY AtRest DEF Updating, Path, InHand, Fetching, Enabling
  <2>3. Jobs'
    BY <1>1, <1>4, <2>1, <2>2, WatchdogMoved
  <2>4. QED
    BY <1>2, <2>1, <2>3 DEF Types
<1>5. QED
  BY <1>3, <1>4 DEF Workers

\* WriteHostlist keeps the invariant: the list has somebody on it, and the day
\* of the update is now one on which a list was written.
LEMMA StepWriteHostlist == ASSUME DpiInv, NEW p \in Workers, WriteHostlist(p) PROVE DpiInv'
<1> USE DEF DpiInv
<1>1. /\ UNCHANGED <<st, bin, assets, up, nfqws, wd, lock, slock, day, ended>> /\ job[p].at = "lists"
      /\ list' # {} /\ written' = written \cup {job[p].day} /\ Goto(p, "stamp")
  BY DEF WriteHostlist, service, locks, At
<1>2. /\ job[p] \in JobType /\ job[p].op \in {"now", "tick"} /\ Earned(job[p].st, written)
      /\ job[p].day \in 1..MaxDay
  BY <1>1, UpdateHas
<1>3. PICK answered \in SUBSET job[p].st.urls :
        list' = job[p].st.targets \cup UNION {Listed(s) : s \in answered}
  BY DEF WriteHostlist
<1>4. list' \in SUBSET Hosts
  <2>1. answered \subseteq Sources /\ job[p].st.targets \subseteq Hosts
    BY <1>2, <1>3 DEF Earned, Doc
  <2>2. \A s \in answered : Listed(s) \subseteq Hosts
    BY <2>1 DEF Hosts
  <2>3. QED
    BY <1>3, <2>1, <2>2
<1>5. written' \in SUBSET (1..MaxDay) /\ written \subseteq written'
  BY <1>1, <1>2 DEF Types
<1> DEFINE j == [job[p] EXCEPT !.at = "stamp"]
<1>6. /\ job' = [job EXCEPT ![p] = j]
      /\ j \in JobType /\ j.op = job[p].op /\ j.at = "stamp" /\ j.st = job[p].st /\ j.day = job[p].day /\ j.holds = job[p].holds
  BY <1>1, Went DEF AtType
<1> HIDE DEF j
<1>7. Path(j.op, j.at) /\ InHand(j, written')
  BY <1>1, <1>2, <1>5, <1>6 DEF Path, InHand, Fetching, Enabling, Earned
<1>8. Jobs'
  <2>1. CASE p = Watchdog
    <3>1. Updating(j, written')
      BY <1>6, <1>7, <2>1 DEF Updating, Jobs
    <3>2. QED
      BY <1>1, <1>5, <1>6, <2>1, <3>1, WatchdogMoved
  <2>2. CASE p \in Procs
    <3>1. Right(p, j, lock', slock', bin', assets', written')
      BY <1>1, <1>2, <1>6, <1>7, <2>2 DEF Right, Jobs, SavesTargets, Enabling
    <3>2. QED
      BY <1>1, <1>5, <1>6, <2>2, <3>1, Moved
  <2>3. QED
    BY <2>1, <2>2 DEF Workers
<1>9. Types' /\ Enabled' /\ ListNamesHosts' /\ NeverWiderThanAsked'
  BY <1>1, <1>4, <1>5 DEF Types, Earned, Enabled, ListNamesHosts, NeverWiderThanAsked
<1>10. QED
  BY <1>8, <1>9

\* An update that failed, and one that is dated, keep the invariant: the date is
\* that of a list that was written, however old the document is that carries it.
LEMMA StepUpdateEnds == ASSUME DpiInv, NEW p \in Workers, UpdateFails(p) \/ Stamp(p) PROVE DpiInv'
<1> USE DEF DpiInv
<1>1. /\ UNCHANGED <<list, bin, assets, up, nfqws, wd, day, written>> /\ job[p].at \in {"lists", "stamp"}
  BY DEF UpdateFails, Stamp, disk, service, At
<1>2. PICK well \in BOOLEAN : Finish(p, well)
  BY DEF UpdateFails, Stamp
<1>3. /\ Jobs' /\ lock' \in Procs \cup {None} /\ slock' \in Procs \cup {None}
      /\ ended' \in EndType /\ ended'.op \notin Enabling
  BY <1>1, <1>2, UpdateFinished
<1>4. Earned(st', written')
  <2>1. CASE UpdateFails(p)
    BY <1>1, <2>1 DEF UpdateFails, Types
  <2>2. CASE Stamp(p)
    <3>1. job[p].st \in Doc /\ job[p].day \in 1..MaxDay /\ job[p].day \in written
      BY <1>1, <2>2, UpdateHas DEF Stamp, At, Earned
    <3>2. st' = [job[p].st EXCEPT !.last = job[p].day]
      BY <2>2 DEF Stamp
    <3>3. QED
      BY <1>1, <3>1, <3>2, BoundAssumption DEF Earned, Doc
  <2>3. QED
    BY <2>1, <2>2
<1>5. Types' /\ Enabled' /\ ListNamesHosts' /\ NeverWiderThanAsked'
  BY <1>1, <1>3, <1>4 DEF Types, Enabled, ListNamesHosts, NeverWiderThanAsked
<1>6. QED
  BY <1>3, <1>5

\* The watchdog's tick keeps the invariant.
LEMMA StepTick == ASSUME DpiInv, Tick PROVE DpiInv'
<1> USE DEF DpiInv
<1> DEFINE j == [Idle EXCEPT !.op = "tick", !.at = "lists", !.st = st, !.day = day]
<1>1. job' = [job EXCEPT ![Watchdog] = j]
      /\ UNCHANGED <<st, list, bin, assets, up, nfqws, wd, lock, slock, day, written, ended>>
  BY DEF Tick, disk, service, locks, hist
<1>2. j \in JobType /\ j.op = "tick" /\ j.at = "lists" /\ j.st = st /\ j.day = day
  <2>1. PICK i \in JobType : i = Idle
    BY AtRest
  <2>2. j = [i EXCEPT !.op = "tick", !.at = "lists", !.st = st, !.day = day]
    BY <2>1
  <2>3. st \in Doc /\ day \in 0..MaxDay
    BY BoundAssumption DEF Types, Earned
  <2> HIDE DEF j
  <2>4. QED
    BY <2>2, <2>3 DEF JobType, OpType, AtType
<1> HIDE DEF j
<1>3. Updating(j, written')
  BY <1>1, <1>2 DEF Updating, Path, InHand, Fetching, Types
<1>4. Jobs'
  BY <1>1, <1>3, WatchdogMoved
<1>5. Types' /\ Enabled' /\ ListNamesHosts' /\ NeverWiderThanAsked'
  BY <1>1 DEF Types, Enabled, ListNamesHosts, NeverWiderThanAsked
<1>6. QED
  BY <1>4, <1>5

-----------------------------------------------------------------------------
(* What befalls the router, and the theorems.                              *)

\* A kill, a reboot and another day keep the invariant.
LEMMA StepEvents == ASSUME DpiInv, (\E p \in Procs : Kill(p)) \/ Reboot \/ NextDay PROVE DpiInv'
<1> USE DEF DpiInv
<1>1. ASSUME NEW p \in Procs, Kill(p) PROVE DpiInv'
  <2>1. /\ job' = [job EXCEPT ![p] = Idle] /\ lock' = Release(lock, p) /\ slock' = Release(slock, p)
        /\ ended' = Calm /\ UNCHANGED <<st, list, bin, assets, up, nfqws, wd, day, written>>
    BY <1>1 DEF Kill, disk, service
  <2>2. lock' # p /\ slock' # p /\ lock' \in Procs \cup {None} /\ slock' \in Procs \cup {None}
    BY <2>1, ProcsAssumption DEF Release, Types
  <2>3. Right(p, Idle, lock', slock', bin', assets', written')
    BY <2>2, RestIsRight
  <2>4. \A q \in Procs \ {p} : (lock' = q <=> lock = q) /\ (slock' = q <=> slock = q)
    BY <2>1, ProcsAssumption DEF Release
  <2>5. Jobs'
    BY <2>1, <2>3, <2>4, Moved
  <2>6. Types' /\ Enabled' /\ ListNamesHosts' /\ NeverWiderThanAsked'
    BY <2>1, <2>2, AtRest DEF Types, Enabled, Enabling, ListNamesHosts, NeverWiderThanAsked
  <2>7. QED
    BY <2>5, <2>6
<1>2. CASE Reboot
  <2>1. /\ up' = FALSE /\ nfqws' = None /\ wd' = FALSE /\ lock' = None /\ slock' = None
        /\ job' = [p \in Workers |-> Idle] /\ ended' = Calm /\ day' \in {1, day}
        /\ UNCHANGED <<st, list, bin, assets, written>>
    BY <1>2 DEF Reboot, disk
  <2>2. job' \in [Workers -> JobType] /\ job'[Watchdog] = Idle /\ \A p \in Procs : job'[p] = Idle
    BY <2>1, AtRest DEF Workers
  <2>3. Jobs'
    BY <2>1, <2>2, RestIsRight, ProcsAssumption DEF Jobs
  <2>4. day' \in 1..MaxDay
    BY <2>1, BoundAssumption DEF Types
  <2>5. Types' /\ Enabled' /\ ListNamesHosts' /\ NeverWiderThanAsked'
    BY <2>1, <2>4, AtRest DEF Types, Enabled, Enabling, ListNamesHosts, NeverWiderThanAsked
  <2>6. QED
    BY <2>3, <2>5
<1>3. CASE NextDay
  <2>1. /\ day < MaxDay /\ day' = day + 1
        /\ UNCHANGED <<st, list, bin, assets, up, nfqws, wd, lock, slock, job, written, ended>>
    BY <1>3 DEF NextDay, disk, service, locks, hist
  <2>2. day' \in 1..MaxDay
    BY <2>1, BoundAssumption DEF Types
  <2>3. QED
    BY <2>1, <2>2 DEF Jobs, Types, Enabled, ListNamesHosts, NeverWiderThanAsked
<1>4. QED
  BY <1>1, <1>2, <1>3

\* The invariant holds at first ...
LEMMA InvInit == Init => DpiInv
<1> SUFFICES ASSUME Init PROVE DpiInv
  OBVIOUS
<1>1. PICK s \in Starts : /\ st = s.st /\ bin = s.installed /\ assets = IF s.installed THEN Required ELSE {}
                          /\ list = IF s.st.targets = {} THEN None ELSE s.st.targets
  BY DEF Init
<1>2. s.st \in Doc /\ s.st.last = 0 /\ s.installed \in BOOLEAN
  BY StartsAssumption
<1>3. Earned(st, written) /\ (list = None \/ list \in SUBSET Hosts) /\ ListNamesHosts
  BY <1>1, <1>2, StartsAssumption DEF Earned, Doc, ListNamesHosts
<1>4. Types
  <2>1. bin \in BOOLEAN /\ assets \in SUBSET Required
    BY <1>1, <1>2
  <2>2. 1 \in 1..MaxDay
    BY BoundAssumption
  <2>3. QED
    BY <1>3, <2>1, <2>2, AtRest DEF Init, Types
<1>5. job \in [Workers -> JobType] /\ job[Watchdog] = Idle /\ \A p \in Procs : job[p] = Idle
  BY AtRest DEF Init, Workers
<1>6. Jobs
  BY <1>5, RestIsRight, ProcsAssumption DEF Init, Jobs
<1>7. Enabled /\ NeverWiderThanAsked
  BY AtRest DEF Init, Enabled, Enabling, NeverWiderThanAsked
<1>8. QED
  BY <1>3, <1>4, <1>6, <1>7 DEF DpiInv

\* ... and every step keeps it.
LEMMA InvNext == DpiInv /\ [Next]_vars => DpiInv'
<1> SUFFICES ASSUME DpiInv, [Next]_vars PROVE DpiInv'
  OBVIOUS
<1>1. ASSUME NEW p \in Procs, Work(p) PROVE DpiInv'
  <2>1. CASE Begin(p) \/ Load(p) \/ Fail(p) \/ Save(p) \/ Reload(p)
    BY <2>1, StepBegin, StepLoad, StepFail, StepSave, StepReload
  <2>2. CASE Fetch(p) \/ Backup(p) \/ Place(p) \/ PlaceAsset(p) \/ AssetsFail(p) \/ AssetsDone(p)
    BY <2>2, StepFetch, StepBackup, StepPlace, StepAssets
  <2>3. CASE NoInterface(p) \/ WriteConfig(p) \/ Halt(p) \/ StartCore(p) \/ Launch(p) \/ End(p)
    BY <2>3, StepNoInterface, StepWriteConfig, StepHalt, StepStartCore, StepLaunch, StepEnd
  <2>4. CASE Update(p)
    BY <2>4, StepWriteHostlist, StepUpdateEnds DEF Update, Workers
  <2>5. CASE Kill(p)
    BY <2>5, StepEvents
  <2>6. QED
    BY <1>1, <2>1, <2>2, <2>3, <2>4, <2>5 DEF Work
<1>2. CASE Tick \/ Reboot \/ NextDay
  BY <1>2, StepTick, StepEvents
<1>3. CASE Update(Watchdog)
  BY <1>3, StepWriteHostlist, StepUpdateEnds DEF Update, Workers
<1>4. CASE UNCHANGED vars
  BY <1>4 DEF vars, disk, service, locks, hist, DpiInv, Jobs, Types, Enabled, ListNamesHosts, NeverWiderThanAsked
<1>5. QED
  BY <1>1, <1>2, <1>3, <1>4 DEF Next

\* The invariant of selective DPI.
LEMMA Invariant == Spec => []DpiInv
BY InvInit, InvNext, PTL DEF Spec

\* The variables have their types, and a lock is with somebody who works: the
\* main lock with a command, that of state.json with who is about to save
\* targets (lock.go, state.go).
THEOREM TypeCorrect == Spec => []TypeOK
<1>1. DpiInv => TypeOK
  <2> SUFFICES ASSUME DpiInv PROVE TypeOK
    OBVIOUS
  <2>1. \A p \in Workers : job[p].op # "idle" => job[p].st = None \/ job[p].st \in Doc
    BY DEF DpiInv, Jobs, JobType
  <2>2. lock # None => MainLocked(job[lock].op)
    BY DEF DpiInv, Types, Jobs, Right, MainLocked
  <2>3. slock # None => SavesTargets(job[slock].op) /\ At(slock, "save")
    BY DEF DpiInv, Types, Jobs, Right, At
  <2>4. QED
    BY <2>1, <2>2, <2>3 DEF DpiInv, Types, Earned, TypeOK
<1>2. QED
  BY <1>1, Invariant, PTL

\* The host list names somebody or is not there, whichever sources answer with
\* whatever and whoever writes the file in between (update.go, UpdateHostlist).
THEOREM ListNeverEmpty == Spec => []ListNamesHosts
<1>1. DpiInv => ListNamesHosts
  BY DEF DpiInv
<1>2. QED
  BY <1>1, Invariant, PTL

\* At the moment --dpi on or --install --with-dpi say "enabled", the binary is on
\* the disk and so is every lua and blob file of the archive they downloaded, or
\* every one there is if they needed none: the main lock keeps every other
\* installation of nfqws2 away until then (cmd_dpi.go, dpiEnable).
THEOREM EnablingCompletes == Spec => []EnabledIsUsable
<1>1. DpiInv => EnabledIsUsable
  BY DEF DpiInv, Enabled, Enabling, EnabledIsUsable
<1>2. QED
  BY <1>1, Invariant, PTL

\* The date of the last update is a day on which UpdateHostlist wrote a list, from
\* sources or, when none answered, from the targets alone, for any number of
\* commands, requests and updates that overtake each other, are killed or save an
\* old document (cmd_service_watchdog.go, tickHostlistUpdate).
THEOREM DatesAreEarned == Spec => []UpdateTimeIsEarned
<1>1. DpiInv => UpdateTimeIsEarned
  BY DEF DpiInv, Types, Earned, UpdateTimeIsEarned
<1>2. QED
  BY <1>1, Invariant, PTL

\* The last strategy of an nfqws2 started for a user with targets, with the
\* built-in strategies the one for TCP, is limited to a list; nothing is said of
\* those before it (deps.go, hostlistShouldApply; config.go, BuildCmdline).
THEOREM Limited == Spec => []NeverWiderThanAsked
<1>1. DpiInv => NeverWiderThanAsked
  BY DEF DpiInv
<1>2. QED
  BY <1>1, Invariant, PTL
====
