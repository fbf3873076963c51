------------------------------ MODULE Install -------------------------------
(***************************************************************************)
(* How a binary gets on the router: ghrelease downloads an archive into    *)
(* the cache, the installer of its kind replaces the binary, and a check   *)
(* of the configuration decides whether the command succeeded.             *)
(*                                                                         *)
(* One binary is modelled, of one of six kinds: sing-box, xray (upstream,  *)
(* or the pinned build for MIPS), mihomo, naive, or sign-craze itself. All *)
(* commands but --core-install hold the main lock. Mirrors fail, deliver archives cut   *)
(* short or changed, disks fill up, checks time out, and any command can   *)
(* be killed between two steps.                                            *)
(***************************************************************************)
EXTENDS Naturals, FiniteSets

CONSTANTS Proc,      \* commands that may be under way at a time
          Kinds,     \* kinds of binary of this instance
          MaxVer,    \* releases are 1..MaxVer
          Mirrors,   \* mirrors tried in order
          MaxCmds, MaxFaults  \* bounds of the exploration

ASSUME ProcAssumption == "none" \notin Proc
ASSUME KindAssumption == Kinds \subseteq {"sing-box", "xray", "xray-mips", "mihomo", "naive", "self"}
ASSUME CountAssumption == {MaxVer, Mirrors} \subseteq Nat \ {0} /\ {MaxCmds, MaxFaults} \subseteq Nat

VARIABLES kind,    \* the kind of the binary
          summed,  \* the releases publish SHA256 sums
          accept,  \* pairs of a version and a configuration it accepts
          latest,  \* the newest release
          cache,   \* cache[name]: the archive of that name and the ETag beside it
          bin, bak,  \* the binary in place and its last backup
          conf,    \* the core's configuration file
          saved,   \* state.json exists
          lock,    \* the holder of the main lock
          cmd,     \* cmd[p]: the command of p and where it is
          done,    \* history: how the last command ended
          had,     \* history: a binary was put in place, and no --uninstall begun since
          loose,   \* history: an archive may be in the cache as known that no verification finished with
          stuck,   \* history: what the last --uninstall could not remove
          used

fixed == <<kind, summed, accept>>
files == <<cache, bin, bak, conf, saved>>
hist == <<done, had, loose, stuck>>
vars == <<fixed, latest, files, lock, cmd, hist, used>>

Ver == 1..MaxVer
None == [ver |-> 0, damage |-> "none"]
Content == [ver : Ver, damage : {"no", "cut", "changed"}] \cup {None}
Idle == [name |-> "idle", at |-> "idle", ver |-> 0, etag |-> 0, got |-> None, tries |-> 0, left |-> {}]

Locked == {"update", "install", "reinstall", "start", "uninstall"}
Fetching == {"update", "install", "reinstall", "core-install"}
Fresh == {"install", "reinstall"}
UsesCache(name) == name \in Fetching \cup {"uninstall"}

\* The release asset of each kind: whether the version is in its name, whether a
\* missing sum is an error, and whether the release is one for all times.
Asset(named, needsSum, pinned) == [named |-> named, needsSum |-> needsSum, pinned |-> pinned]
SingBoxAsset == Asset(TRUE, FALSE, FALSE)
XRayAsset == Asset(FALSE, FALSE, FALSE)
XRayMipsAsset == Asset(FALSE, TRUE, TRUE)
MihomoAsset == Asset(TRUE, FALSE, FALSE)
NaiveAsset == Asset(TRUE, FALSE, FALSE)
SelfAsset == Asset(FALSE, TRUE, FALSE)
AssetOf == CASE kind = "sing-box" -> SingBoxAsset [] kind = "xray" -> XRayAsset
             [] kind = "xray-mips" -> XRayMipsAsset [] kind = "mihomo" -> MihomoAsset
             [] kind = "naive" -> NaiveAsset [] kind = "self" -> SelfAsset

\* What unpacking notices of damage: where the archive may break off, before the
\* first byte of the binary or while it is copied. A cut zip has no directory;
\* sign-craze itself is not packed.
SingBoxOpens == [cut |-> {"open", "copy"}, changed |-> {"open", "copy", "no"}]
XRayOpens == [cut |-> {"open"}, changed |-> {"open", "copy", "no"}]
MihomoOpens == [cut |-> {"open", "copy"}, changed |-> {"open", "copy", "no"}]
NaiveOpens == [cut |-> {"open", "copy"}, changed |-> {"open", "copy", "no"}]
SelfOpens == [cut |-> {"no"}, changed |-> {"no"}]
OpensOf == CASE kind = "sing-box" -> SingBoxOpens [] kind \in {"xray", "xray-mips"} -> XRayOpens
             [] kind = "mihomo" -> MihomoOpens [] kind = "naive" -> NaiveOpens
             [] kind = "self" -> SelfOpens
Breaks(c) == IF c.damage \in {"cut", "changed"} THEN OpensOf[c.damage] ELSE {"no"}

CheckedAfter == {"xray", "xray-mips", "mihomo"}

\* The commands a binary of this kind has.
Commands == CASE kind = "self" -> {"update"}
              [] kind = "naive" -> {"update", "reinstall"}
              [] OTHER -> Locked \cup {"core-install"}

Name(v) == IF AssetOf.named THEN v ELSE 1
Offered == IF AssetOf.pinned THEN 1 ELSE latest

Portable(c) == \E pair \in accept : pair[1] = c.ver
Accepts(c, config) == c.damage = "no" /\ <<c.ver, config>> \in accept

Init ==
  /\ kind \in Kinds /\ summed \in BOOLEAN
  /\ \E later \in {{}, {"plain"}, {"plain", "routed"}} :
       accept = ({1} \X {"plain", "routed"}) \cup ((Ver \ {1}) \X later)
  /\ kind \in {"naive", "self"} => accept = Ver \X {"plain", "routed"}
  /\ latest = 1 /\ cache = [v \in Ver |-> [file |-> None, etag |-> 0]]
  /\ bin = None /\ bak = None /\ conf = "none" /\ saved = FALSE
  /\ lock = "none" /\ cmd = [p \in Proc |-> Idle]
  /\ done = "nothing" /\ had = FALSE /\ loose = FALSE /\ stuck = {}
  /\ used = [cmds |-> 0, faults |-> 0]

Fault == used.faults < MaxFaults /\ used' = [used EXCEPT !.faults = @ + 1]
MayFault(fails) == IF fails THEN Fault ELSE UNCHANGED used

At(p, where) == cmd[p].at = where
Goto(p, where) == cmd' = [cmd EXCEPT ![p].at = where]

\* Mutant: whoever ends frees the main lock.
FinishUnlocks(p, how) == cmd' = [cmd EXCEPT ![p] = Idle] /\ done' = how /\ lock' = "none"

\* The command is over.
Finish(p, how) ==
  /\ cmd' = [cmd EXCEPT ![p] = Idle] /\ done' = how
  /\ lock' = IF lock = p THEN "none" ELSE lock

-----------------------------------------------------------------------------
(* Commands.                                                               *)

\* --install refuses what is there already, or is there in part.
Refuses(name) == name = "install" /\ (saved \/ bin # None)

Begin(p) ==
  /\ At(p, "idle") /\ used.cmds < MaxCmds /\ used' = [used EXCEPT !.cmds = @ + 1]
  /\ \E name \in Commands :
       /\ name \in Locked => lock = "none"
       /\ IF Refuses(name) THEN done' = "refused" /\ UNCHANGED <<lock, cmd>>
          ELSE /\ lock' = IF name \in Locked THEN p ELSE lock
               /\ cmd' = [cmd EXCEPT ![p] = [Idle EXCEPT !.name = name,
                            !.at = CASE name = "start" -> "compare" [] name = "uninstall" -> "remove"
                                     [] OTHER -> "release",
                            !.left = IF name = "uninstall" THEN {"bin", "config", "lib"} ELSE {}]]
               /\ done' = "nothing"
       /\ had' = (had /\ name # "uninstall")
       /\ stuck' = IF name = "uninstall" THEN {} ELSE stuck
       /\ loose' = (loose \/ (UsesCache(name) /\ \E q \in Proc : UsesCache(cmd[q].name)))
  /\ UNCHANGED <<fixed, latest, files>>

\* The archive of the command is in the cache, unverified, and the ETag beside
\* it is its own: of this download, or left by an earlier one of the release.
Unverified(p) ==
  cmd[p].at \in {"etag", "verify"} /\ cache[Name(cmd[p].ver)].etag = cmd[p].ver

\* SIGKILL, or the router loses power; the lock is free again.
Kill(p) ==
  /\ cmd[p].name # "idle" /\ Fault
  /\ cmd' = [cmd EXCEPT ![p] = Idle] /\ done' = "nothing"
  /\ lock' = IF lock = p THEN "none" ELSE lock
  /\ loose' = (loose \/ Unverified(p))
  /\ UNCHANGED <<fixed, latest, files, had, stuck>>

Release ==
  /\ latest < MaxVer /\ latest' = latest + 1
  /\ UNCHANGED <<fixed, files, lock, cmd, hist, used>>

-----------------------------------------------------------------------------
(* ghrelease.Fetch.                                                        *)

\* The ETag sent along: none when the archive it belongs to is missing.
Known(entry) == IF entry.file = None THEN 0 ELSE entry.etag

\* fetchReleaseMeta and readETag.
FindRelease(p) ==
  /\ At(p, "release")
  /\ cmd' = [cmd EXCEPT ![p].at = "get", ![p].ver = Offered, ![p].tries = Mirrors,
                        ![p].etag = Known(cache[Name(Offered)])]
  /\ UNCHANGED <<fixed, latest, files, lock, hist, used>>

\* No release to be had, no asset in it, a 4xx, or the disk is full.
FetchFails(p) ==
  /\ At(p, "release") \/ At(p, "get")
  /\ Fault /\ Finish(p, "failed")
  /\ UNCHANGED <<fixed, latest, files, had, loose, stuck>>

\* The mirror is down, answers 5xx, stalls, or breaks off: the next one is asked.
MirrorFails(p) ==
  /\ At(p, "get") /\ Fault
  /\ IF cmd[p].tries > 1
       THEN cmd' = [cmd EXCEPT ![p].tries = @ - 1] /\ UNCHANGED <<lock, done>>
       ELSE Finish(p, "failed")
  /\ UNCHANGED <<fixed, latest, files, had, loose, stuck>>

\* 304. The updates stop here, the installations go on with what the cache holds.
NotModified(p) ==
  /\ At(p, "get") /\ cmd[p].etag = cmd[p].ver
  /\ IF cmd[p].name = "update" /\ kind # "self"
       THEN Finish(p, "up to date")
       ELSE Goto(p, IF cmd[p].name \in Fresh THEN "state" ELSE "open") /\ UNCHANGED <<lock, done>>
  /\ UNCHANGED <<fixed, latest, files, had, loose, stuck, used>>

\* 200: the archive is renamed into the cache, whole or not.
Deliver(p) ==
  /\ At(p, "get") /\ cmd[p].etag # cmd[p].ver
  /\ \E damage \in {"no", "cut", "changed"} :
       LET got == [ver |-> cmd[p].ver, damage |-> damage]
       IN  /\ MayFault(damage # "no")
           /\ cache' = [cache EXCEPT ![Name(got.ver)].file = got]
           /\ cmd' = [cmd EXCEPT ![p].at = "etag", ![p].got = got]
  /\ UNCHANGED <<fixed, latest, bin, bak, conf, saved, lock, hist>>

\* A failure to write the ETag is only a warning.
SaveETag(p) ==
  /\ At(p, "etag") /\ Goto(p, "verify")
  /\ \E fails \in BOOLEAN :
       /\ MayFault(fails)
       /\ cache' = IF fails THEN cache ELSE [cache EXCEPT ![Name(cmd[p].ver)].etag = cmd[p].ver]
  /\ UNCHANGED <<fixed, latest, bin, bak, conf, saved, lock, hist>>

\* What the size and the sum refuse: the size is that of the file, the sum was
\* taken while this command read. A missing sum is refused where one is required.
Refused(p) ==
  \/ cache[Name(cmd[p].ver)].file.damage = "cut"
  \/ IF summed THEN cmd[p].got.damage # "no" ELSE AssetOf.needsSum

\* Mutant: the refused archive stays in the cache, beside its ETag.
VerifyFailsKeepsFile(p) ==
  /\ At(p, "verify")
  /\ IF Refused(p) THEN UNCHANGED used ELSE summed /\ Fault
  /\ Finish(p, "failed")
  /\ UNCHANGED <<fixed, latest, files, had, loose, stuck>>

\* Refused, or the sum cannot be fetched: the archive is removed, its ETag stays.
VerifyFails(p) ==
  /\ At(p, "verify")
  /\ IF Refused(p) THEN UNCHANGED used ELSE summed /\ Fault
  /\ cache' = [cache EXCEPT ![Name(cmd[p].ver)].file = None]
  /\ Finish(p, "failed")
  /\ UNCHANGED <<fixed, latest, bin, bak, conf, saved, had, loose, stuck>>

Verify(p) ==
  /\ At(p, "verify") /\ ~Refused(p)
  /\ Goto(p, IF cmd[p].name \in Fresh THEN "state" ELSE "open")
  /\ UNCHANGED <<fixed, latest, files, lock, hist, used>>

-----------------------------------------------------------------------------
(* The installation.                                                       *)

\* runInstall saves state.json before the binary is touched.
SaveState(p) ==
  /\ At(p, "state")
  /\ \E fails \in BOOLEAN :
       /\ MayFault(fails)
       /\ saved' = IF fails \/ kind = "naive" THEN saved ELSE TRUE
       /\ IF fails THEN Finish(p, "failed") ELSE Goto(p, "open") /\ UNCHANGED <<lock, done>>
  /\ UNCHANGED <<fixed, latest, cache, bin, bak, conf, had, loose, stuck>>

Archive(p) == cache[Name(cmd[p].ver)].file

\* PrepareAndValidate is for sing-box, and not for --core-install.
Prepared(p) == kind = "sing-box" /\ cmd[p].name # "core-install"

\* The archive is missing or no archive, or the binary in it cannot run here.
OpenFails(p) ==
  /\ At(p, "open")
  /\ \/ Archive(p) = None
     \/ "open" \in Breaks(Archive(p))
     \/ Prepared(p) /\ "copy" \in Breaks(Archive(p))
     \/ Prepared(p) /\ ~Portable(Archive(p))
  /\ Finish(p, "failed")
  /\ UNCHANGED <<fixed, latest, files, had, loose, stuck, used>>

\* sing-box is unpacked beside the binary, the others while they replace it.
Open(p) ==
  /\ At(p, "open") /\ Archive(p) # None
  /\ Breaks(Archive(p)) \cap {"copy", "no"} # {}
  /\ Prepared(p) => "no" \in Breaks(Archive(p)) /\ Portable(Archive(p))
  /\ cmd' = [cmd EXCEPT ![p].at = IF Prepared(p) THEN "render" ELSE "backup", ![p].got = Archive(p)]
  /\ UNCHANGED <<fixed, latest, files, lock, hist, used>>

\* The configuration as --install knows it, without the rules of routing.json.
Render(p) ==
  /\ At(p, "render")
  /\ \E fails \in BOOLEAN :
       /\ MayFault(fails)
       /\ conf' = IF fails THEN conf ELSE "plain"
       /\ IF fails THEN Finish(p, "failed")
          ELSE Goto(p, IF Prepared(p) THEN "try" ELSE "check") /\ UNCHANGED <<lock, done>>
  /\ UNCHANGED <<fixed, latest, cache, bin, bak, saved, had, loose, stuck>>

\* The unpacked sing-box checks the configuration before it replaces anything.
Try(p) ==
  /\ At(p, "try") /\ Accepts(cmd[p].got, conf) /\ Goto(p, "backup")
  /\ UNCHANGED <<fixed, latest, files, lock, hist, used>>

\* Mutant: the binary in place is removed instead of renamed.
BackupRemoves(p) ==
  /\ At(p, "backup") /\ bin' = None /\ Goto(p, "place")
  /\ UNCHANGED <<fixed, latest, cache, bak, conf, saved, lock, hist, used>>

\* BackupAndReplaceFromReader: the binary becomes the backup, ...
Backup(p) ==
  /\ At(p, "backup")
  /\ bak' = IF bin = None THEN bak ELSE bin
  /\ bin' = None /\ Goto(p, "place")
  /\ UNCHANGED <<fixed, latest, cache, conf, saved, lock, hist, used>>

\* Mutant: an update of xray or mihomo ends without the check.
ThenNoCheck(p) == IF kind \in CheckedAfter /\ cmd[p].name \in Fresh THEN "render" ELSE "end"

\* What follows once the binary is in place.
Then(p) == CASE kind \in CheckedAfter /\ cmd[p].name = "update" -> "check"
             [] kind \in CheckedAfter /\ cmd[p].name \in Fresh -> "render"
             [] OTHER -> "end"

\* ... and the new one is renamed into its place.
Place(p) ==
  /\ At(p, "place") /\ "no" \in Breaks(cmd[p].got)
  /\ bin' = cmd[p].got /\ had' = \A q \in Proc : cmd[q].name # "uninstall"
  /\ IF Then(p) = "end" THEN Finish(p, IF cmd[p].name = "core-install" THEN "added" ELSE "installed") ELSE Goto(p, Then(p)) /\ UNCHANGED <<lock, done>>
  /\ UNCHANGED <<fixed, latest, cache, bak, conf, saved, loose, stuck, used>>

\* The archive ends too early, or the disk is full: nothing brings the backup back.
PlaceFails(p) ==
  /\ At(p, "backup") \/ At(p, "place")
  /\ IF At(p, "place") /\ "copy" \in Breaks(cmd[p].got) THEN UNCHANGED used ELSE Fault
  /\ Finish(p, "failed")
  /\ UNCHANGED <<fixed, latest, files, had, loose, stuck>>

\* CheckConfig with the binary in place, of --start or of another core's installation.
Check(p) ==
  /\ At(p, "check") /\ Accepts(bin, conf)
  /\ Finish(p, IF cmd[p].name = "start" THEN "started" ELSE "installed")
  /\ UNCHANGED <<fixed, latest, files, had, loose, stuck, used>>

\* A check fails, or does not end in time. Files stay as they are.
CheckFails(p) ==
  /\ \/ At(p, "check") /\ IF Accepts(bin, conf) THEN Fault ELSE UNCHANGED used
     \/ At(p, "try") /\ IF Accepts(cmd[p].got, conf) THEN Fault ELSE UNCHANGED used
  /\ Finish(p, "failed")
  /\ UNCHANGED <<fixed, latest, files, had, loose, stuck>>

-----------------------------------------------------------------------------
(* --start and --uninstall.                                                *)

\* ensureConfigFreshForCore, with the rules of routing.json: an unchanged configuration is not checked again.
Compare(p) ==
  /\ At(p, "compare")
  /\ conf' = "routed"
  /\ IF conf = "routed" THEN Finish(p, "started") ELSE Goto(p, "check") /\ UNCHANGED <<lock, done>>
  /\ UNCHANGED <<fixed, latest, cache, bin, bak, saved, had, loose, stuck, used>>

\* What is left of the cache: RemoveAll stops in the middle, or empties it.
Leftovers(fails) ==
  {[v \in Ver |-> [file |-> IF "file" \in kept[v] THEN cache[v].file ELSE None,
                   etag |-> IF "etag" \in kept[v] THEN cache[v].etag ELSE 0]] :
     kept \in [Ver -> IF fails THEN SUBSET {"file", "etag"} ELSE {{}}]}

\* Mutant: the first removal that fails is the last one.
RemoveStops(p) ==
  /\ At(p, "remove")
  /\ \E what \in cmd[p].left, fails \in BOOLEAN :
       /\ "bin" \in cmd[p].left => what = "bin"
       /\ MayFault(fails)
       /\ bin' = IF what = "bin" /\ ~fails THEN None ELSE bin
       /\ cache' \in IF what = "lib" THEN Leftovers(fails) ELSE {cache}
       /\ conf' = IF what = "config" /\ ~fails THEN "none" ELSE conf
       /\ saved' = (saved /\ ~(what = "config" /\ kind = "sing-box" /\ ~fails))
       /\ stuck' = IF fails THEN stuck \cup {what} ELSE stuck
       /\ IF fails \/ cmd[p].left = {what} THEN Finish(p, "uninstalled")
          ELSE cmd' = [cmd EXCEPT ![p].left = @ \ {what}] /\ UNCHANGED <<lock, done>>
  /\ UNCHANGED <<fixed, latest, bak, had, loose>>

\* doUninstall: the files, then the directories in the order a map of Go happens
\* to have. state.json lies in the configuration directory of sing-box; the other
\* cores have one of their own under it. What cannot be removed stays, and of a
\* directory any part of it may; the command goes on and ends as if it were gone.
Remove(p) ==
  /\ At(p, "remove")
  /\ \E what \in cmd[p].left, fails \in BOOLEAN :
       /\ "bin" \in cmd[p].left => what = "bin"
       /\ MayFault(fails)
       /\ bin' = IF what = "bin" /\ ~fails THEN None ELSE bin
       /\ cache' \in IF what = "lib" THEN Leftovers(fails) ELSE {cache}
       /\ conf' \in IF what # "config" THEN {conf} ELSE IF fails THEN {conf, "none"} ELSE {"none"}
       /\ saved' \in IF what # "config" \/ kind # "sing-box" THEN {saved}
                     ELSE IF fails THEN {saved, FALSE} ELSE {FALSE}
       /\ stuck' = IF fails THEN stuck \cup {what} ELSE stuck
       /\ IF cmd[p].left = {what} THEN Finish(p, "uninstalled")
          ELSE cmd' = [cmd EXCEPT ![p].left = @ \ {what}] /\ UNCHANGED <<lock, done>>
  /\ UNCHANGED <<fixed, latest, bak, had, loose>>

-----------------------------------------------------------------------------

Fetch(p) == \/ FindRelease(p) \/ FetchFails(p) \/ MirrorFails(p) \/ NotModified(p)
            \/ Deliver(p) \/ SaveETag(p) \/ Verify(p) \/ VerifyFails(p)
Replace(p) == \/ SaveState(p) \/ Open(p) \/ OpenFails(p) \/ Render(p) \/ Try(p)
              \/ Backup(p) \/ Place(p) \/ PlaceFails(p) \/ Check(p) \/ CheckFails(p)

Next == \/ Release
        \/ \E p \in Proc : Begin(p) \/ Kill(p) \/ Fetch(p) \/ Replace(p) \/ Compare(p) \/ Remove(p)

Spec == Init /\ [][Next]_vars

-----------------------------------------------------------------------------
(* Properties.                                                             *)

TypeOK ==
  /\ cache \in [Ver -> [file : Content, etag : 0..MaxVer]]
  /\ bin \in Content /\ bak \in Content /\ conf \in {"none", "plain", "routed"}
  /\ lock \in Proc \cup {"none"} /\ \A p \in Proc : cmd[p].name \in Locked => lock = p
  /\ \A p \in Proc : cmd[p].at = "idle" <=> cmd[p].name = "idle"
  /\ saved \in BOOLEAN /\ loose \in BOOLEAN /\ latest \in Ver
  /\ stuck \subseteq {"bin", "config", "lib"}

\* A router that had a binary has it, or its backup, whatever failed or was
\* killed in between and whichever commands ran at once.
BinaryOrBackup == had => bin # None \/ bak # None

\* A damaged archive is never installed: a short one never, a changed one never
\* if the release has a sum. Excepted are downloads at once, and commands killed
\* before the end of the verification while the ETag beside the archive makes it
\* count as known.
OnlyVerified ==
  ~loose /\ bin.damage \in {"cut", "changed"} => bin.damage = "changed" /\ ~summed

\* --uninstall says "full cleanup complete" whatever failed, but a removal that
\* fails keeps no more than its own part: everything else of the core is gone,
\* and with sing-box, if binary and configuration could be removed, the next
\* --install is not refused. Excepted (loose) is a --core-install meanwhile.
UninstallClears ==
  done = "uninstalled" /\ ~loose =>
    /\ "bin" \notin stuck => bin = None
    /\ "config" \notin stuck => conf = "none"
    /\ "lib" \notin stuck => \A v \in Ver : cache[v] = [file |-> None, etag |-> 0]
    /\ kind = "sing-box" /\ stuck \subseteq {"lib"} => ~Refuses("install")

\* What a successful --install, --reinstall or --update-core leaves is a pair of
\* binary and configuration that the core accepted.
CheckedPair ==
  done = "installed" /\ ~loose /\ kind \in CheckedAfter \cup {"sing-box"} =>
    Accepts(bin, conf)

\* "the current version is already installed" is true when an update says so.
UpToDateIsInstalled == done = "up to date" => bin.ver = Offered
=============================================================================
