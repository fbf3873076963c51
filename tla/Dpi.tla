--------------------------------- MODULE Dpi ---------------------------------
(***************************************************************************)
(* Selective DPI: nfqws2, the files it needs, and the host list.           *)
(*                                                                         *)
(* The host list is one file with several writers: the commands write the  *)
(* user's targets into it, the updates (--dpi-update-now and the watchdog  *)
(* daemon) the targets with what the sources list. The commands hold the   *)
(* main lock, targets are saved under the lock of state.json, the          *)
(* watchdog's update holds neither and downloads between its load and its  *)
(* save. nfqws.conf is left out: it is for the operator, nfqws2 does not   *)
(* read it. Installing an archive is in Install, with what can go wrong    *)
(* in the cache; here it either comes or does not.                         *)
(***************************************************************************)
EXTENDS Naturals, Sequences

CONSTANTS Procs,    \* commands and requests that may be under way at a time
          Web,      \* those of them that are requests of the Web UI
          Watchdog, \* the goroutine runHostlistUpdater
          None,
          Names,    \* what the user may have for targets: sets of hosts
          Preset,   \* the targets of --install --with-dpi
          Own,      \* what --dpi-strategy may be given: sequences of filters, --new between them
          Sources, Body,  \* Body[s]: the lines a source lists
          Starts,   \* documents and installations to begin with
          MaxDay, MaxJobs, MaxFaults  \* bounds of the exploration

ASSUME ProcsAssumption == {Watchdog, None} \cap Procs = {} /\ Watchdog # None /\ Web \subseteq Procs
ASSUME BoundAssumption == MaxDay \in Nat \ {0} /\ {MaxJobs, MaxFaults} \subseteq Nat

VARIABLES st,      \* state.json: the fields about DPI
          list,    \* dpi-hostlist.txt, or None
          bin, assets,  \* nfqws2 is in place; the lua and blob files that are
          up,      \* the core runs
          nfqws,   \* the running nfqws2: its strategies, and the targets of its start
          wd,      \* the watchdog daemon runs
          lock,    \* who holds the main lock
          slock,   \* who holds the lock of state.json
          job,     \* job[p]: the operation of p and where it is
          day,     \* the router's clock
          written, \* history: the days on which an update wrote the list
          ended,   \* history: the last operation that ended, how, and what its archive held
          used

disk == <<list, bin, assets>>
service == <<up, nfqws, wd>>
locks == <<lock, slock>>
hist == <<written, ended>>
vars == <<st, disk, service, locks, job, day, hist, used>>

Ops == {"on", "with-dpi", "off", "strategy", "targets", "put", "urls", "interval",
        "now", "update", "start", "restart", "boot", "stop"}
Required == {"lua", "blobs"}
Workers == Procs \cup {Watchdog}
Idle == [op |-> "idle", at |-> "idle", st |-> None, day |-> 0, holds |-> Required]
Calm == [op |-> "idle", well |-> TRUE, holds |-> {}]
BuiltIn == <<"tcp">>

\* parseHostLine: a bare name, a line of a hosts file or of an ad blocker; a
\* comment or a page of HTML names nothing.
ParseHostLine(line) == IF line.form \in {"bare", "hosts", "adblock"} THEN {line.host} ELSE {}
Listed(s) == UNION {ParseHostLine(line) : line \in Body[s]}
Hosts == UNION (Names \cup {Preset} \cup {Listed(s) : s \in Sources})

Doc == [on : BOOLEAN, own : Own \cup {BuiltIn}, targets : SUBSET Hosts, urls : SUBSET Sources,
        auto : BOOLEAN, last : 0..MaxDay]
Default == [on |-> FALSE, own |-> BuiltIn, targets |-> {}, urls |-> {}, auto |-> FALSE, last |-> 0]

\* A strategy is never empty (validateDPIStrategy); the documents to begin with
\* are whole, and no list was updated before the history begins.
ASSUME OwnAssumption == \A own \in Own : own \in Seq(STRING) /\ own # <<>>
ASSUME StartsAssumption ==
  /\ None # {}
  /\ \A s \in Starts : s.st \in Doc /\ s.st.last = 0 /\ s.installed \in BOOLEAN

Init ==
  /\ \E s \in Starts :
       /\ st = s.st /\ bin = s.installed /\ assets = IF s.installed THEN Required ELSE {}
       /\ list = IF s.st.targets = {} THEN None ELSE s.st.targets
  /\ up = FALSE /\ nfqws = None /\ wd = FALSE
  /\ lock = None /\ slock = None /\ job = [p \in Workers |-> Idle]
  /\ day = 1 /\ written = {} /\ ended = Calm
  /\ used = [jobs |-> 0, faults |-> 0]

Fault == used.faults < MaxFaults /\ used' = [used EXCEPT !.faults = @ + 1]
MayFault(fails) == IF fails THEN Fault ELSE UNCHANGED used

At(p, where) == job[p].at = where
Goto(p, where) == job' = [job EXCEPT ![p].at = where]
Release(l, p) == IF l = p THEN None ELSE l

\* Mutant: the lock of state.json stays with an operation that is over.
FinishKeepsLock(p, well) ==
  /\ job' = [job EXCEPT ![p] = Idle] /\ lock' = Release(lock, p) /\ slock' = slock
  /\ ended' = [op |-> job[p].op, well |-> well, holds |-> job[p].holds]

\* The operation is over.
Finish(p, well) ==
  /\ job' = [job EXCEPT ![p] = Idle]
  /\ lock' = Release(lock, p) /\ slock' = Release(slock, p)
  /\ ended' = [op |-> job[p].op, well |-> well, holds |-> job[p].holds]

Continue(p, where) == Goto(p, where) /\ UNCHANGED <<locks, ended>>

-----------------------------------------------------------------------------
(* Settings.                                                               *)

MainLocked(op) == op # "put"
SavesTargets(op) == op \in {"targets", "put"}

First(op) == CASE op \in {"restart", "stop"} -> "halt"
               [] op = "update"              -> "fetch"
               [] OTHER                      -> "load"

Begin(p) ==
  /\ At(p, "idle") /\ used.jobs < MaxJobs /\ used' = [used EXCEPT !.jobs = @ + 1]
  /\ \E op \in Ops :
       /\ op = "put" <=> p \in Web
       /\ MainLocked(op) => lock = None
       /\ lock' = IF MainLocked(op) THEN p ELSE lock
       /\ job' = [job EXCEPT ![p] = [Idle EXCEPT !.op = op, !.at = First(op)]]
  /\ ended' = Calm
  /\ UNCHANGED <<st, disk, service, slock, day, written>>

\* Mutant: what is already there is told by the binary alone.
MissingBinary == ~bin

\* dpiEnable: something nfqws2 needs is not on the disk.
Missing == ~bin \/ assets # Required

\* What the commands make of the document they loaded.
SetEnabled(doc, on) == [doc EXCEPT !.on = on]
SetupDPIDefault(doc) == [doc EXCEPT !.on = TRUE, !.targets = Preset]
SetStrategy(doc) == {[doc EXCEPT !.own = own] : own \in Own}
SetUpdateURLs(doc) == {[doc EXCEPT !.urls = us] : us \in SUBSET Sources}
SetUpdateInterval(doc) == {[doc EXCEPT !.auto = positive] : positive \in BOOLEAN}
SetTargets(doc) == {[doc EXCEPT !.targets = ts] : ts \in Names}
Edits(op, doc) ==
  CASE op \in {"on", "off"} -> {SetEnabled(doc, op = "on")}
    [] op = "with-dpi"      -> {SetupDPIDefault(doc)}
    [] op = "strategy"      -> SetStrategy(doc)
    [] op = "urls"          -> SetUpdateURLs(doc)
    [] op = "interval"      -> SetUpdateInterval(doc)
    [] SavesTargets(op)     -> SetTargets(doc)
    [] OTHER                -> {doc}

Next1(op, doc) ==
  CASE op = "on"       -> IF Missing THEN "fetch" ELSE "config"
    [] op = "with-dpi" -> "fetch"
    [] op = "now"      -> IF doc.urls = {} THEN "fail" ELSE "lists"
    [] op \in {"start", "boot", "restart"} -> IF up THEN "fail" ELSE "core"
    [] OTHER           -> "save"

\* loadState or Load; SetTargets keeps the lock of state.json until it has saved.
Load(p) ==
  /\ At(p, "load")
  /\ SavesTargets(job[p].op) => slock = None
  /\ \E doc \in Edits(job[p].op, st) :
       job' = [job EXCEPT ![p].at = Next1(job[p].op, st), ![p].st = doc, ![p].day = day]
  /\ slock' = IF SavesTargets(job[p].op) THEN p ELSE slock
  /\ UNCHANGED <<st, disk, service, lock, day, hist, used>>

Fail(p) ==
  /\ At(p, "fail") /\ Finish(p, FALSE)
  /\ UNCHANGED <<st, disk, service, day, written, used>>

\* The whole document; --dpi-targets loads it again for nfqws2.
Save(p) ==
  /\ At(p, "save") /\ st' = job[p].st
  /\ IF job[p].op = "targets" THEN Goto(p, "reload") /\ UNCHANGED lock /\ slock' = None /\ UNCHANGED ended
     ELSE Finish(p, TRUE)
  /\ UNCHANGED <<disk, service, day, written, used>>

Reload(p) ==
  /\ At(p, "reload")
  /\ IF st.on THEN job' = [job EXCEPT ![p].at = "config", ![p].st = st] /\ UNCHANGED <<locks, ended>>
     ELSE Finish(p, TRUE)
  /\ UNCHANGED <<st, disk, service, day, written, used>>

-----------------------------------------------------------------------------
(* installNfqws2WithBlobs and --dpi-update.                                *)

\* Not modified: --dpi-update keeps the binary it has. The others install anyway.
\* What lua and blob files an archive holds is up to the release.
Fetch(p) ==
  /\ At(p, "fetch")
  /\ \/ Fault /\ Finish(p, FALSE)
     \/ \E new \in BOOLEAN, holds \in SUBSET Required :
          /\ MayFault(holds # Required)
          /\ job' = [job EXCEPT ![p].at = IF new \/ job[p].op # "update" THEN "backup" ELSE "assets",
                                ![p].holds = holds]
          /\ UNCHANGED <<locks, ended>>
  /\ UNCHANGED <<st, disk, service, day, written>>

\* The binary in place is renamed away, and the new one is written.
Backup(p) ==
  /\ At(p, "backup") /\ bin' = FALSE /\ Goto(p, "place")
  /\ UNCHANGED <<st, list, assets, service, locks, day, hist, used>>

\* When that fails nothing brings the former one back.
Place(p) ==
  /\ At(p, "place")
  /\ \E fails \in BOOLEAN :
       /\ MayFault(fails) /\ bin' = ~fails
       /\ IF fails THEN Finish(p, FALSE) ELSE Continue(p, "assets")
  /\ UNCHANGED <<st, list, assets, service, day, written>>

\* InstallAssets, file by file; a file that is there is replaced in one rename.
PlaceAsset(p) ==
  /\ At(p, "assets") /\ \E a \in job[p].holds \ assets : assets' = assets \cup {a}
  /\ UNCHANGED <<st, list, bin, service, locks, job, day, hist, used>>

AssetsFail(p) ==
  /\ At(p, "assets") /\ Fault /\ Finish(p, FALSE)
  /\ UNCHANGED <<st, disk, service, day, written>>

\* The archive is at its end. That it held nothing is only a warning, and what
\* was missing before is not looked for again.
AssetsDone(p) ==
  /\ At(p, "assets") /\ job[p].holds \subseteq assets
  /\ IF job[p].op = "update" THEN Finish(p, TRUE) ELSE Continue(p, "config")
  /\ UNCHANGED <<st, disk, service, day, written, used>>

-----------------------------------------------------------------------------
(* writeDPIConfig, and the service.                                        *)

Starting(op) == op \in {"start", "restart", "boot"}

\* Mutant: whether nfqws2 is limited depends on the file alone.
HostlistShouldApplyFile(doc) == list # None

HostlistShouldApply(doc) == doc.targets # {} \/ list # None

\* Without a default route the service starts without nfqws2, --install goes on
\* without the file, the other commands fail.
NoInterface(p) ==
  /\ At(p, "config") /\ Fault
  /\ CASE Starting(job[p].op)     -> Continue(p, "end")
       [] job[p].op = "with-dpi" -> Continue(p, "save")
       [] OTHER                  -> Finish(p, FALSE)
  /\ UNCHANGED <<st, disk, service, day, written>>

\* A list that cannot be written fails the command, but a start goes on.
WriteConfig(p) ==
  /\ At(p, "config")
  /\ \E fails \in BOOLEAN :
       /\ MayFault(fails)
       /\ list' = IF fails \/ job[p].st.targets = {} THEN list ELSE job[p].st.targets
       /\ CASE Starting(job[p].op)        -> Continue(p, "launch")
            [] fails                      -> Finish(p, FALSE)
            [] job[p].op = "targets"      -> Finish(p, TRUE)
            [] OTHER                      -> Continue(p, "save")
  /\ UNCHANGED <<st, bin, assets, service, day, written>>

\* doStop: the watchdog is killed first, and nobody but the shim starts it again.
Halt(p) ==
  /\ At(p, "halt")
  /\ wd' = FALSE /\ nfqws' = None /\ up' = FALSE
  /\ IF job[p].op = "stop"
       THEN /\ job' = [job EXCEPT ![p] = Idle, ![Watchdog] = Idle]
            /\ lock' = Release(lock, p) /\ ended' = [op |-> "stop", well |-> TRUE, holds |-> job[p].holds]
       ELSE job' = [job EXCEPT ![p].at = "load", ![Watchdog] = Idle] /\ UNCHANGED <<lock, ended>>
  /\ UNCHANGED <<st, disk, slock, day, written, used>>

\* The core runs, or the start fails and is undone (module Service).
StartCore(p) ==
  /\ At(p, "core")
  /\ \E fails \in BOOLEAN :
       /\ MayFault(fails) /\ up' = ~fails
       /\ IF fails THEN Finish(p, FALSE) ELSE Continue(p, IF job[p].st.on THEN "config" ELSE "end")
  /\ UNCHANGED <<st, disk, nfqws, wd, day, written>>

\* The strategies are independent of each other, and the host list is the last
\* argument: it belongs to the last of them.
BuildCmdline(doc, hostlist) ==
  LET filters == <<"udp", "quic">> \o doc.own
  IN [i \in 1..Len(filters) |->
        [filter |-> filters[i], list |-> IF i = Len(filters) THEN hostlist ELSE None]]

\* nfqws2 reads its files when it starts and dies if one is missing.
Run(doc, limited) ==
  IF bin /\ assets = Required /\ (limited => list # None)
    THEN [asked |-> doc.targets, strategies |-> BuildCmdline(doc, IF limited THEN list ELSE None)]
    ELSE None

Launch(p) ==
  /\ At(p, "launch") /\ nfqws' = Run(job[p].st, HostlistShouldApply(job[p].st))
  /\ Goto(p, "end")
  /\ UNCHANGED <<st, disk, up, wd, locks, day, hist, used>>

\* The shim starts the watchdog after --service-start has come back.
End(p) ==
  /\ At(p, "end") /\ Finish(p, TRUE)
  /\ wd' = (wd \/ job[p].op = "boot")
  /\ UNCHANGED <<st, disk, up, nfqws, day, written, used>>

-----------------------------------------------------------------------------
(* UpdateHostlist, of --dpi-update-now and of the watchdog.                *)

\* Mutant: a list that was updated once is fresh for good.
ShouldUpdateOnce(doc) == doc.auto /\ doc.last = 0

\* A day is the interval; a date in the future is not old.
ShouldUpdate(doc) == doc.auto /\ (doc.last = 0 \/ doc.last < day)

\* tickHostlistUpdate, once an hour.
Tick ==
  /\ wd /\ At(Watchdog, "idle") /\ ShouldUpdate(st) /\ st.urls # {}
  /\ job' = [job EXCEPT ![Watchdog] = [Idle EXCEPT !.op = "tick", !.at = "lists", !.st = st, !.day = day]]
  /\ UNCHANGED <<st, disk, service, locks, day, hist, used>>

\* Mutant: nothing at all is written as well.
WriteHostlistEmpty(p) ==
  /\ At(p, "lists")
  /\ \E answered \in SUBSET job[p].st.urls :
       /\ MayFault(answered # job[p].st.urls)
       /\ list' = job[p].st.targets \cup UNION {Listed(s) : s \in answered}
  /\ written' = written \cup {job[p].day} /\ Goto(p, "stamp")
  /\ UNCHANGED <<st, bin, assets, service, locks, day, ended>>

\* A source that does not answer, or answers with a page, is left out.
WriteHostlist(p) ==
  /\ At(p, "lists")
  /\ \E answered \in SUBSET job[p].st.urls :
       /\ MayFault(answered # job[p].st.urls)
       /\ list' = job[p].st.targets \cup UNION {Listed(s) : s \in answered}
  /\ list' # {}
  /\ written' = written \cup {job[p].day} /\ Goto(p, "stamp")
  /\ UNCHANGED <<st, bin, assets, service, locks, day, ended>>

\* Mutant: the report of the failed update has a date, which is saved.
UpdateFailsStamped(p) ==
  /\ At(p, "lists") /\ Fault /\ Goto(p, "stamp")
  /\ UNCHANGED <<st, disk, service, locks, day, hist>>

\* No host at all, or the disk is full: the list stays, and so does the date.
UpdateFails(p) ==
  /\ At(p, "lists") /\ Fault /\ Finish(p, FALSE)
  /\ UNCHANGED <<st, disk, service, day, written>>

\* The document as it was before the download, with the date of its beginning.
Stamp(p) ==
  /\ At(p, "stamp") /\ st' = [job[p].st EXCEPT !.last = job[p].day] /\ Finish(p, TRUE)
  /\ UNCHANGED <<disk, service, day, written, used>>

-----------------------------------------------------------------------------

\* SIGKILL of a command, or its locks' timeout.
Kill(p) ==
  /\ job[p].op # "idle" /\ Fault
  /\ job' = [job EXCEPT ![p] = Idle] /\ lock' = Release(lock, p) /\ slock' = Release(slock, p)
  /\ ended' = Calm
  /\ UNCHANGED <<st, disk, service, day, written>>

\* A reboot, without a battery for the clock.
Reboot ==
  /\ Fault /\ up' = FALSE /\ nfqws' = None /\ wd' = FALSE
  /\ lock' = None /\ slock' = None /\ job' = [p \in Workers |-> Idle] /\ ended' = Calm
  /\ day' \in {1, day}
  /\ UNCHANGED <<st, disk, written>>

NextDay ==
  /\ day < MaxDay /\ day' = day + 1
  /\ UNCHANGED <<st, disk, service, locks, job, hist, used>>

Update(p) == WriteHostlist(p) \/ UpdateFails(p) \/ Stamp(p)
Work(p) ==
  \/ Begin(p) \/ Load(p) \/ Fail(p) \/ Save(p) \/ Reload(p)
  \/ Fetch(p) \/ Backup(p) \/ Place(p) \/ PlaceAsset(p) \/ AssetsFail(p) \/ AssetsDone(p)
  \/ NoInterface(p) \/ WriteConfig(p) \/ Halt(p) \/ StartCore(p) \/ Launch(p) \/ End(p)
  \/ Update(p) \/ Kill(p)

Next == (\E p \in Procs : Work(p)) \/ Tick \/ Update(Watchdog) \/ Reboot \/ NextDay

\* The daemon's ticker goes off every hour, and its client has time limits.
Spec == Init /\ [][Next]_vars /\ WF_vars(Tick) /\ WF_vars(Update(Watchdog))

-----------------------------------------------------------------------------
(* Properties.                                                             *)

\* The variables have their types, and a lock is with somebody who works.
TypeOK ==
  /\ st \in Doc
  /\ list = None \/ list \subseteq Hosts
  /\ bin \in BOOLEAN /\ assets \subseteq Required /\ up \in BOOLEAN /\ wd \in BOOLEAN
  /\ nfqws = None \/ (nfqws.asked \subseteq Hosts /\ \A i \in DOMAIN nfqws.strategies :
                          nfqws.strategies[i].list = None \/ nfqws.strategies[i].list \subseteq Hosts)
  /\ lock \in Procs \cup {None} /\ slock \in Procs \cup {None}
  /\ \A p \in Workers : job[p].op # "idle" => job[p].st = None \/ job[p].st \in Doc
  /\ lock # None => MainLocked(job[lock].op)
  /\ slock # None => SavesTargets(job[slock].op) /\ At(slock, "save")
  /\ day \in 1..MaxDay /\ written \subseteq 1..MaxDay

\* The host list never limits nfqws2 to nothing: whatever the sources answer,
\* UpdateHostlist replaces it only by a list that names somebody.
ListNamesHosts == list # {}

\* --dpi on, and --install --with-dpi, that say "enabled" leave the binary on the
\* disk and every lua and blob file their own archive held (all that nfqws2 needs,
\* if they did not have to download one), however an earlier attempt was cut off.
EnabledIsUsable ==
  ended.op \in {"on", "with-dpi"} /\ ended.well => bin /\ ended.holds \subseteq assets

\* dpi_last_update names a day on which an update wrote the list (from the
\* targets alone, if no source answered), even if it was overtaken by a command,
\* or another one failed or was killed between list and date.
UpdateTimeIsEarned == st.last # 0 => st.last \in written

\* nfqws2 started for a user with targets keeps its last strategy, the built-in
\* one for TCP or the last of the user's own, to a list, even if that could not be
\* written or an update raced the start. The strategies before it have no list.
NeverWiderThanAsked ==
  nfqws # None /\ nfqws.asked # {} => nfqws.strategies[Len(nfqws.strategies)].list # None

\* While the watchdog runs and updates are subscribed to, the list gets as young
\* as the clock and stays so, whatever failed, was killed or saved an old date.
Subscribed == wd /\ st.auto /\ st.urls # {}
AutoUpdateCatchesUp == <>[]Subscribed => <>[](st.last >= day)

=============================================================================
