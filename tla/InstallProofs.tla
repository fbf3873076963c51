---------------------------- MODULE InstallProofs ----------------------------
(***************************************************************************)
(* Theorems about Install: types and the main lock, the binary or its      *)
(* backup, what verification keeps out, and what commands that succeeded   *)
(* leave behind.                                                           *)
(***************************************************************************)
EXTENDS Install, TLAPS

NameType == Locked \cup {"core-install", "idle"}
FetchAt == {"release", "get", "etag", "verify", "state", "open", "backup", "place"}
AtType == FetchAt \cup {"idle", "compare", "remove", "render", "try", "check"}
Parts == {"bin", "config", "lib"}
CmdType == [name : NameType, at : AtType, ver : 0..MaxVer, etag : 0..MaxVer, got : Content,
            tries : Nat, left : SUBSET Parts]
Entry == [file : Content, etag : 0..MaxVer]

Types ==
  /\ kind \in Kinds /\ summed \in BOOLEAN /\ latest \in Ver
  /\ cache \in [Ver -> Entry] /\ bin \in Content /\ bak \in Content
  /\ conf \in {"none", "plain", "routed"} /\ saved \in BOOLEAN
  /\ lock \in Proc \cup {"none"} /\ cmd \in [Proc -> CmdType]
  /\ had \in BOOLEAN /\ loose \in BOOLEAN /\ stuck \subseteq Parts

\* Where a command can be.
Path(c) ==
  /\ c.name = "idle" <=> c.at = "idle"
  /\ c.at \in FetchAt => c.name \in Fetching
  /\ c.at = "compare" => c.name = "start"
  /\ c.at = "remove" => c.name = "uninstall"
  /\ c.at \in {"render", "try"} => c.name \in {"update", "install", "reinstall"}
  /\ c.at = "check" => c.name \in {"update", "install", "reinstall", "start"}

Locks == \A p \in Proc : Path(cmd[p]) /\ (cmd[p].name \in Locked <=> lock = p)

\* No two downloads, and no download beside an --uninstall.
Alone == ~loose => \A p, q \in Proc : UsesCache(cmd[p].name) /\ UsesCache(cmd[q].name) => p = q

\* The newest release that can have been stored under a name, and what is known
\* of the versions: nothing is newer.
Top(n) == IF AssetOf.named THEN n ELSE Offered
Asks(c) == c.at \in {"get", "etag", "verify", "state", "open"}
Levels ==
  /\ \A n \in Ver : cache[n].etag <= Top(n) /\ cache[n].file.ver <= Top(n)
  /\ \A p \in Proc : Asks(cmd[p]) => cmd[p].ver \in Ver /\ cmd[p].ver <= Top(Name(cmd[p].ver))

Structure == Types /\ Locks /\ Alone /\ Levels

\* During an --uninstall nothing is promised of the binary, and what is about to
\* be put in place is a binary.
Present ==
  /\ \A p \in Proc : cmd[p].name = "uninstall" => ~had
  /\ \A p \in Proc : cmd[p].at \in {"render", "try", "backup", "place"} => cmd[p].got # None
  /\ BinaryOrBackup

\* An archive or binary the verification refuses.
Bad(c) == c.damage = "cut" \/ (c.damage = "changed" /\ summed)

\* Of these parts, what could be removed is gone.
Removed(parts) ==
  /\ "bin" \in parts \ stuck => bin = None
  /\ "config" \in parts \ stuck => conf = "none" /\ (kind = "sing-box" => ~saved)
  /\ "lib" \in parts \ stuck => \A v \in Ver : cache[v] = [file |-> None, etag |-> 0]

\* What the only command on the cache knows, and how far an --uninstall has come.
Holding(p) ==
  LET c == cmd[p]
      entry == cache[Name(c.ver)] IN
  /\ c.at \in {"get", "etag", "verify"} => entry.etag <= c.ver
  /\ c.at = "get" /\ c.etag = c.ver => ~Bad(entry.file)
  /\ c.at \in {"etag", "verify"} => entry.file = c.got /\ c.got.ver = c.ver
  /\ c.at \in {"state", "open"} => ~Bad(entry.file)
  /\ c.at \in {"render", "try", "backup", "place"} => ~Bad(c.got)
  /\ Prepared(p) /\ c.at \in {"backup", "place"} => Accepts(c.got, conf)
  /\ c.at = "remove" => Removed(Parts \ c.left)

\* A bad archive in the cache is being verified, or does not count as known.
Watched(n) == \E p \in Proc : cmd[p].at \in {"etag", "verify"} /\ Name(cmd[p].ver) = n
Orphans == \A n \in Ver : Bad(cache[n].file) => Watched(n) \/ cache[n].etag < cache[n].file.ver

Clean == ~loose => (\A p \in Proc : Holding(p)) /\ Orphans /\ ~Bad(bin)

\* After a command that succeeded nobody is under way.
Promising == {"installed", "uninstalled"}
Quiet == done \in Promising /\ ~loose => \A p \in Proc : cmd[p].name = "idle"
Ends == Quiet /\ UninstallClears /\ CheckedPair

InstallInv == Structure /\ Present /\ Clean /\ Ends

-----------------------------------------------------------------------------
(* Commands and names of archives.                                         *)

\* A command at rest.
LEMMA AtRest == Idle \in CmdType /\ Idle.name = "idle" /\ Idle.at = "idle" /\ Path(Idle) /\ None \in Content
BY CountAssumption DEF Idle, CmdType, NameType, AtType, Content, None, Path, FetchAt

\* The kind of the binary stays, and so does what is known of its archives.
LEMMA Fixed ==
  ASSUME UNCHANGED fixed
  PROVE  /\ AssetOf' = AssetOf /\ OpensOf' = OpensOf /\ kind' = kind /\ summed' = summed /\ accept' = accept
         /\ \A v : Name(v)' = Name(v)
<1>1. kind' = kind /\ summed' = summed /\ accept' = accept
  BY DEF fixed
<1>2. AssetOf' = AssetOf /\ OpensOf' = OpensOf
  BY <1>1 DEF AssetOf, OpensOf
<1>3. QED
  BY <1>1, <1>2 DEF Name

\* A version's archive has a name, and the newest release is the newest under it.
LEMMA Names ==
  ASSUME Types
  PROVE  /\ \A v \in Ver : Name(v) \in Ver
         /\ Offered \in Ver /\ Top(Name(Offered)) = Offered
BY CountAssumption DEF Ver, Name, Offered, Top, Types

\* Finish puts the command at rest and releases its lock.
LEMMA FinishIs ==
  ASSUME NEW p \in Proc, NEW how, Finish(p, how)
  PROVE  /\ cmd' = [cmd EXCEPT ![p] = Idle] /\ done' = how
         /\ lock' = IF Idle.name = "idle" /\ lock = p THEN "none" ELSE lock
BY AtRest DEF Finish

\* Goto takes the command to another point.
LEMMA GotoIs ==
  ASSUME Types, NEW p \in Proc, NEW at \in AtType, Goto(p, at), lock' = lock, cmd[p].name # "idle"
  PROVE  \E c \in CmdType :
           /\ cmd' = [cmd EXCEPT ![p] = c]
           /\ lock' = IF c.name = "idle" /\ lock = p THEN "none" ELSE lock
           /\ c.name = cmd[p].name /\ c.at = at /\ c.ver = cmd[p].ver /\ c.etag = cmd[p].etag
           /\ c.got = cmd[p].got /\ c.left = cmd[p].left
<1> DEFINE c == [cmd[p] EXCEPT !.at = at]
<1>1. cmd[p] \in CmdType
  BY DEF Types
<1>2. /\ c \in CmdType /\ c.name = cmd[p].name /\ c.at = at /\ c.ver = cmd[p].ver
      /\ c.etag = cmd[p].etag /\ c.got = cmd[p].got /\ c.left = cmd[p].left
  BY <1>1 DEF CmdType
<1>3. cmd' = [cmd EXCEPT ![p] = c]
  BY DEF Goto
<1>4. QED
  BY <1>2, <1>3

-----------------------------------------------------------------------------
(* What a step has to show.                                                *)

\* A command that is under way moves on or ends.
LEMMA Moves ==
  ASSUME Structure, NEW p \in Proc, NEW c \in CmdType, cmd[p].name # "idle",
         cmd' = [cmd EXCEPT ![p] = c], c.name \in {cmd[p].name, "idle"}, Path(c),
         lock' = IF c.name = "idle" /\ lock = p THEN "none" ELSE lock,
         loose => loose'
  PROVE  /\ cmd' \in [Proc -> CmdType] /\ lock' \in Proc \cup {"none"} /\ Locks' /\ Alone'
         /\ cmd'[p] = c /\ \A q \in Proc \ {p} : cmd'[q] = cmd[q]
<1>1. cmd' \in [Proc -> CmdType] /\ cmd'[p] = c /\ \A q \in Proc \ {p} : cmd'[q] = cmd[q]
  BY DEF Structure, Types
<1>2. lock' \in Proc \cup {"none"}
  BY DEF Structure, Types
<1>3. Locks'
  <2>1. ASSUME NEW q \in Proc PROVE Path(cmd'[q])
    BY <1>1, <2>1 DEF Structure, Locks
  <2>2. ASSUME NEW q \in Proc PROVE cmd'[q].name \in Locked <=> lock' = q
    BY <1>1, <2>2, ProcAssumption DEF Structure, Locks, Locked
  <2>3. QED
    BY <2>1, <2>2 DEF Locks
<1>4. Alone'
  <2>1. "idle" \notin Fetching \cup {"uninstall"}
    BY DEF Fetching
  <2>2. \A q \in Proc : UsesCache(cmd'[q].name) => UsesCache(cmd[q].name)
    BY <1>1, <2>1 DEF UsesCache
  <2>3. QED
    BY <2>2 DEF Structure, Alone
<1>5. QED
  BY <1>1, <1>2, <1>3, <1>4

\* While a command uses the cache and no other does, the others hold nothing.
LEMMA HoldNothing ==
  ASSUME Structure, NEW p \in Proc, UsesCache(cmd[p].name), ~loose, NEW q \in Proc, q # p, cmd'[q] = cmd[q]
  PROVE  Holding(q)'
<1>1. ~UsesCache(cmd[q].name)
  BY DEF Structure, Alone
<1>2. cmd[q].at \in {"idle", "compare", "check"}
  BY <1>1 DEF Structure, Types, CmdType, AtType, Locks, Path, UsesCache, Fetching
<1>3. QED
  BY <1>2 DEF Holding

\* A step of a command that uses the cache.
LEMMA Stepped ==
  ASSUME InstallInv, NEW p \in Proc, NEW c \in CmdType, UsesCache(cmd[p].name),
         cmd' = [cmd EXCEPT ![p] = c], c.name \in {cmd[p].name, "idle"}, Path(c),
         lock' = IF c.name = "idle" /\ lock = p THEN "none" ELSE lock,
         UNCHANGED <<fixed, latest>>, loose => loose', loose' \in BOOLEAN,
         cache' \in [Ver -> Entry], bin' \in Content, bak' \in Content,
         conf' \in {"none", "plain", "routed"}, saved' \in BOOLEAN, had' \in BOOLEAN, stuck' \subseteq Parts,
         \A n \in Ver : cache'[n].etag <= Top(n) /\ cache'[n].file.ver <= Top(n),
         Asks(c) => c.ver \in Ver /\ c.ver <= Top(Name(c.ver)),
         c.at \in {"render", "try", "backup", "place"} => c.got # None,
         had' => had \/ \A q \in Proc : cmd[q].name # "uninstall",
         BinaryOrBackup',
         ~loose' => Holding(p)' /\ Orphans' /\ ~Bad(bin)',
         \/ done' \notin Promising
         \/ done' = done
         \/ c.name = "idle" /\ cmd[p].name \in Locked /\ (~loose' => UninstallClears' /\ CheckedPair')
  PROVE  InstallInv'
<1> USE DEF InstallInv
<1>1. cmd[p].name # "idle"
  BY DEF UsesCache, Fetching
<1>2. /\ cmd' \in [Proc -> CmdType] /\ lock' \in Proc \cup {"none"} /\ Locks' /\ Alone'
      /\ cmd'[p] = c /\ \A q \in Proc \ {p} : cmd'[q] = cmd[q]
  BY <1>1, Moves
<1>3. Types'
  BY <1>2, Fixed DEF Structure, Types
<1>4. Levels'
  <2>1. \A n : Top(n)' = Top(n)
    BY Fixed DEF Top, Offered
  <2>2. ASSUME NEW q \in Proc, Asks(cmd'[q]) PROVE cmd'[q].ver \in Ver /\ cmd'[q].ver <= Top(Name(cmd'[q].ver))
    BY <1>2, <2>2 DEF Structure, Levels
  <2>3. QED
    BY <2>1, <2>2, Fixed DEF Levels
<1>5. Present'
  <2>1. ASSUME NEW q \in Proc PROVE cmd'[q].name = "uninstall" => ~had'
    BY <1>2, <2>1 DEF Present
  <2>2. ASSUME NEW q \in Proc PROVE cmd'[q].at \in {"render", "try", "backup", "place"} => cmd'[q].got # None
    BY <1>2, <2>2 DEF Present
  <2>3. QED
    BY <2>1, <2>2 DEF Present
<1>6. Clean'
  BY <1>2, HoldNothing DEF Clean
<1>7. Ends'
  <2>1. CASE done' \notin Promising
    BY <2>1 DEF Ends, Quiet, UninstallClears, CheckedPair, Promising
  <2>2. CASE done' = done
    <3>1. done \notin Promising \/ loose
      BY <1>1 DEF Ends, Quiet
    <3>2. QED
      BY <2>2, <3>1 DEF Ends, Quiet, UninstallClears, CheckedPair, Promising
  <2>3. CASE c.name = "idle" /\ cmd[p].name \in Locked /\ (~loose' => UninstallClears' /\ CheckedPair')
    <3>1. ASSUME ~loose', NEW q \in Proc PROVE cmd'[q].name = "idle"
      <4>1. CASE q = p
        BY <1>2, <2>3, <4>1
      <4>2. CASE q # p
        <5>1. ~UsesCache(cmd[q].name) /\ cmd[q].name \notin Locked
          BY <2>3, <3>1, <4>2 DEF Structure, Alone, Locks
        <5>2. cmd[q].name = "idle"
          BY <5>1 DEF Structure, Types, CmdType, NameType, UsesCache, Fetching
        <5>3. QED
          BY <1>2, <4>2, <5>2
      <4>3. QED
        BY <4>1, <4>2
    <3>2. QED
      BY <2>3, <3>1 DEF Ends, Quiet, UninstallClears, CheckedPair
  <2>4. QED
    BY <2>1, <2>2, <2>3
<1>8. QED
  BY <1>2, <1>3, <1>4, <1>5, <1>6, <1>7 DEF Structure

\* A step of such a command that leaves every file as it is.
LEMMA Kept ==
  ASSUME InstallInv, NEW p \in Proc, NEW c \in CmdType, UsesCache(cmd[p].name),
         cmd' = [cmd EXCEPT ![p] = c], c.name \in {cmd[p].name, "idle"}, Path(c),
         lock' = IF c.name = "idle" /\ lock = p THEN "none" ELSE lock,
         UNCHANGED <<fixed, latest, cache, bin, bak, conf, saved, had, loose, stuck>>,
         Asks(c) => c.ver \in Ver /\ c.ver <= Top(Name(c.ver)),
         c.at \in {"render", "try", "backup", "place"} => c.got # None,
         ~loose => Holding(p)',
         ~loose /\ cmd[p].at \in {"etag", "verify"} => ~Bad(cmd[p].got),
         done' \notin Promising \/ done' = done
  PROVE  InstallInv'
<1> USE DEF InstallInv
<1>1. cmd[p].name # "idle"
  BY DEF UsesCache, Fetching
<1>2. cmd'[p] = c /\ \A q \in Proc \ {p} : cmd'[q] = cmd[q]
  BY <1>1, Moves
<1>3. ASSUME ~loose' PROVE Holding(p)' /\ Orphans' /\ ~Bad(bin)'
  <2>1. ~loose /\ Holding(p) /\ Orphans /\ ~Bad(bin)
    BY <1>3 DEF Clean
  <2>2. ASSUME NEW n \in Ver, Bad(cache[n].file), Watched(n) PROVE Watched(n)'
    <3>1. PICK q \in Proc : cmd[q].at \in {"etag", "verify"} /\ Name(cmd[q].ver) = n
      BY <2>2 DEF Watched
    <3>2. q # p
      BY <2>1, <2>2, <3>1 DEF Holding
    <3>3. QED
      BY <1>2, <3>1, <3>2, Fixed DEF Watched
  <2>3. Orphans'
    BY <2>1, <2>2, Fixed DEF Orphans, Bad
  <2>4. QED
    BY <2>1, <2>3, Fixed DEF Bad
<1>4. BinaryOrBackup'
  BY DEF Present, BinaryOrBackup
<1>5. QED
  BY <1>3, <1>4, Stepped DEF Structure, Types, Levels

\* A command that uses the cache ends, without a promise and not while it has an
\* archive to verify.
LEMMA Fails ==
  ASSUME InstallInv, NEW p \in Proc, UsesCache(cmd[p].name), NEW how, how \notin Promising, Finish(p, how),
         UNCHANGED <<fixed, latest, cache, bin, bak, conf, saved, had, loose, stuck>>,
         cmd[p].at \notin {"etag", "verify"}
  PROVE  InstallInv'
<1>1. /\ cmd' = [cmd EXCEPT ![p] = Idle] /\ done' = how
      /\ lock' = IF Idle.name = "idle" /\ lock = p THEN "none" ELSE lock
  BY FinishIs
<1>2. cmd'[p] = Idle
  BY <1>1 DEF InstallInv, Structure, Types
<1>3. Holding(p)'
  BY <1>2, AtRest DEF Holding
<1>4. QED
  BY <1>1, <1>3, AtRest, Kept DEF Asks

\* A --start ends or goes on to its check; the configuration may be new.
LEMMA Started ==
  ASSUME InstallInv, NEW p \in Proc, NEW c \in CmdType, cmd[p].name = "start",
         cmd' = [cmd EXCEPT ![p] = c], c.name \in {cmd[p].name, "idle"}, Path(c), c.at \in {"idle", "check"},
         lock' = IF c.name = "idle" /\ lock = p THEN "none" ELSE lock,
         UNCHANGED <<fixed, latest, cache, bin, bak, saved, had, loose, stuck>>,
         conf' \in {"none", "plain", "routed"},
         done' \notin Promising \/ done' = done
  PROVE  InstallInv'
<1> USE DEF InstallInv
<1>1. /\ cmd' \in [Proc -> CmdType] /\ lock' \in Proc \cup {"none"} /\ Locks' /\ Alone'
      /\ cmd'[p] = c /\ \A q \in Proc \ {p} : cmd'[q] = cmd[q]
  BY Moves
<1>2. lock = p /\ cmd[p].at \notin {"etag", "verify"}
  BY DEF Structure, Locks, Locked, Path, FetchAt, Fetching
<1>3. Structure'
  <2>1. \A n : Top(n)' = Top(n)
    BY Fixed DEF Top, Offered
  <2>2. ASSUME NEW q \in Proc, Asks(cmd'[q]) PROVE cmd'[q].ver \in Ver /\ cmd'[q].ver <= Top(Name(cmd'[q].ver))
    BY <1>1, <2>2 DEF Structure, Levels, Asks
  <2>3. Levels'
    BY <2>1, <2>2, Fixed DEF Structure, Levels
  <2>4. Types'
    BY <1>1, Fixed DEF Structure, Types
  <2>5. QED
    BY <1>1, <2>3, <2>4 DEF Structure
<1>4. Present'
  <2>1. ASSUME NEW q \in Proc PROVE cmd'[q].name = "uninstall" => ~had'
    BY <1>1, <2>1 DEF Present
  <2>2. ASSUME NEW q \in Proc PROVE cmd'[q].at \in {"render", "try", "backup", "place"} => cmd'[q].got # None
    BY <1>1, <2>2 DEF Present
  <2>3. QED
    BY <2>1, <2>2 DEF Present, BinaryOrBackup
<1>5. ASSUME ~loose' PROVE (\A q \in Proc : Holding(q)') /\ Orphans' /\ ~Bad(bin)'
  <2>1. ~loose /\ (\A q \in Proc : Holding(q)) /\ Orphans /\ ~Bad(bin)
    BY <1>5 DEF Clean
  <2>2. Holding(p)'
    BY <1>1 DEF Holding
  <2>3. ASSUME NEW q \in Proc, q # p PROVE Holding(q)'
    <3>1. cmd'[q] = cmd[q] /\ Holding(q)
      BY <1>1, <2>1, <2>3
    <3>2. cmd[q].name \notin Locked
      BY <1>2, <2>3 DEF Structure, Locks
    <3>3. cmd[q].name \in {"core-install", "idle"}
      BY <3>2 DEF Structure, Types, CmdType, NameType
    <3>4. cmd[q].at # "remove" /\ (cmd[q].at \in {"backup", "place"} => ~Prepared(q)')
      BY <3>1, <3>3, Fixed DEF Structure, Locks, Path, Prepared, FetchAt, Fetching
    <3>5. QED
      BY <3>1, <3>4, Fixed DEF Holding, Bad
  <2>4. \A n \in Ver : Watched(n) => Watched(n)'
    BY <1>1, <1>2, Fixed DEF Watched
  <2>5. QED
    BY <2>1, <2>2, <2>3, <2>4, Fixed DEF Orphans, Bad
<1>6. Ends'
  <2>1. done \notin Promising \/ loose
    BY DEF Ends, Quiet
  <2>2. QED
    BY <2>1 DEF Ends, Quiet, UninstallClears, CheckedPair, Promising
<1>7. QED
  BY <1>3, <1>4, <1>5, <1>6 DEF Clean

-----------------------------------------------------------------------------
(* ghrelease.Fetch.                                                        *)

\* Where a command is, it uses the cache.
LEMMA AtFetch ==
  ASSUME InstallInv, NEW p \in Proc,
         cmd[p].at \in FetchAt \cup {"render", "try", "remove"} \/ (cmd[p].at = "check" /\ cmd[p].name # "start")
  PROVE  UsesCache(cmd[p].name) /\ cmd[p] \in CmdType /\ Path(cmd[p]) /\ cmd[p].name # "idle"
BY DEF InstallInv, Structure, Types, Locks, Path, UsesCache, Fetching

\* A command that downloads nothing finds no archive that is being verified.
LEMMA NotWatched ==
  ASSUME InstallInv, ~loose, NEW p \in Proc, UsesCache(cmd[p].name), cmd[p].at \notin {"etag", "verify"}, NEW n
  PROVE  ~Watched(n)
<1> SUFFICES ASSUME NEW q \in Proc, cmd[q].at \in {"etag", "verify"} PROVE FALSE
  BY DEF Watched
<1>1. UsesCache(cmd[q].name)
  BY AtFetch DEF FetchAt
<1>2. QED
  BY <1>1 DEF InstallInv, Structure, Alone

\* FindRelease: if the ETag sent along is that of the release, the archive is good.
LEMMA StepFindRelease == ASSUME InstallInv, NEW p \in Proc, FindRelease(p) PROVE InstallInv'
<1>1. /\ cmd[p].at = "release" /\ UsesCache(cmd[p].name) /\ cmd[p] \in CmdType /\ Path(cmd[p]) /\ cmd[p].name # "idle"
      /\ UNCHANGED <<fixed, latest, cache, bin, bak, conf, saved, had, loose, stuck, lock>> /\ done' = done
  BY AtFetch DEF FindRelease, At, FetchAt, files, hist
<1> DEFINE etag == Known(cache[Name(Offered)])
           c == [cmd[p] EXCEPT !.at = "get", !.ver = Offered, !.tries = Mirrors, !.etag = etag]
<1>2. Offered \in Ver /\ Name(Offered) \in Ver /\ Top(Name(Offered)) = Offered
  BY Names DEF InstallInv, Structure
<1>3. cache[Name(Offered)] \in Entry /\ etag \in 0..MaxVer
  BY <1>2, CountAssumption DEF InstallInv, Structure, Types, Entry, Known
<1>4. cmd' = [cmd EXCEPT ![p] = c]
  BY DEF FindRelease
<1> HIDE DEF etag
<1>5. /\ c \in CmdType /\ c.name = cmd[p].name /\ c.at = "get" /\ c.ver = Offered /\ c.etag = etag
  <2>1. Offered \in 0..MaxVer /\ Mirrors \in Nat /\ "get" \in AtType
    BY <1>2, CountAssumption DEF AtType, FetchAt, Ver
  <2>2. QED
    BY <1>1, <1>3, <2>1 DEF CmdType
<1> HIDE DEF c
<1>6. Path(c)
  BY <1>1, <1>5 DEF Path, FetchAt
<1>7. ASSUME ~loose PROVE Holding(p)'
  <2>1. cmd'[p] = c /\ cache' = cache
    BY <1>1, <1>4 DEF InstallInv, Structure, Types
  <2>2. cache[Name(Offered)].etag <= Offered /\ cache[Name(Offered)].file.ver <= Offered
    BY <1>2 DEF InstallInv, Structure, Levels
  <2>3. Orphans /\ ~Watched(Name(Offered))
    BY <1>1, <1>7, NotWatched DEF InstallInv, Clean
  <2>4. ASSUME etag = Offered PROVE ~Bad(cache[Name(Offered)].file)
    <3>1. cache[Name(Offered)].etag = Offered
      BY <1>2, <2>4, CountAssumption DEF etag, Known, Ver
    <3>2. cache[Name(Offered)].file.ver \in 0..MaxVer /\ Offered \in 1..MaxVer
      BY <1>2, <1>3, CountAssumption DEF Entry, Content, Ver, None
    <3>3. ~(cache[Name(Offered)].etag < cache[Name(Offered)].file.ver)
      BY <2>2, <3>1, <3>2, CountAssumption
    <3>4. QED
      BY <1>2, <2>3, <3>3 DEF Orphans
  <2>5. QED
    BY <1>1, <1>5, <2>1, <2>2, <2>4, Fixed DEF Holding, Bad
<1>8. Asks(c) => c.ver \in Ver /\ c.ver <= Top(Name(c.ver))
  BY <1>2, <1>5, CountAssumption DEF Ver
<1>9. c.at \notin {"render", "try", "backup", "place"} /\ cmd[p].at \notin {"etag", "verify"}
  BY <1>1, <1>5
<1>10. lock' = IF c.name = "idle" /\ lock = p THEN "none" ELSE lock
  BY <1>1, <1>5
<1>11. QED
  BY <1>1, <1>4, <1>5, <1>6, <1>7, <1>8, <1>9, <1>10, Kept

\* Whatever ends a download before an archive came, and the mirrors tried before.
LEMMA StepMirrors == ASSUME InstallInv, NEW p \in Proc, FetchFails(p) \/ MirrorFails(p) PROVE InstallInv'
<1>1. /\ cmd[p].at \in {"release", "get"} /\ UsesCache(cmd[p].name) /\ cmd[p] \in CmdType /\ Path(cmd[p])
      /\ cmd[p].name # "idle" /\ UNCHANGED <<fixed, latest, cache, bin, bak, conf, saved, had, loose, stuck>>
  BY AtFetch DEF FetchFails, MirrorFails, At, FetchAt, files
<1>2. CASE Finish(p, "failed")
  BY <1>1, <1>2, Fails DEF Promising
<1>3. CASE ~Finish(p, "failed")
  <2> DEFINE c == [cmd[p] EXCEPT !.tries = @ - 1]
  <2>1. cmd[p].tries > 1 /\ cmd' = [cmd EXCEPT ![p] = c] /\ lock' = lock /\ done' = done /\ cmd[p].at = "get"
    BY <1>3 DEF FetchFails, MirrorFails, At
  <2>2. cmd[p].tries - 1 \in Nat
    BY <1>1, <2>1 DEF CmdType
  <2>3. /\ c \in CmdType /\ c.name = cmd[p].name /\ c.at = "get" /\ c.ver = cmd[p].ver /\ c.etag = cmd[p].etag
        /\ c.got = cmd[p].got /\ c.left = cmd[p].left
    BY <1>1, <2>1, <2>2 DEF CmdType
  <2> HIDE DEF c
  <2>4. Path(c) /\ lock' = IF c.name = "idle" /\ lock = p THEN "none" ELSE lock
    BY <1>1, <2>1, <2>3 DEF Path
  <2>5. Asks(c) => c.ver \in Ver /\ c.ver <= Top(Name(c.ver))
    BY <2>1, <2>3 DEF InstallInv, Structure, Levels, Asks
  <2>6. ASSUME ~loose PROVE Holding(p)'
    <3>1. cmd'[p] = c /\ Holding(p)
      BY <2>1, <2>6 DEF InstallInv, Structure, Types, Clean
    <3>2. QED
      BY <1>1, <2>1, <2>3, <3>1, Fixed DEF Holding, Bad
  <2>7. QED
    BY <1>1, <2>1, <2>3, <2>4, <2>5, <2>6, Kept
<1>4. QED
  BY <1>2, <1>3

\* 304: the archive in the cache, which is good, is taken for the release.
LEMMA StepNotModified == ASSUME InstallInv, NEW p \in Proc, NotModified(p) PROVE InstallInv'
<1>1. /\ cmd[p].at = "get" /\ UsesCache(cmd[p].name) /\ cmd[p] \in CmdType /\ Path(cmd[p]) /\ cmd[p].name # "idle"
      /\ cmd[p].etag = cmd[p].ver
      /\ UNCHANGED <<fixed, latest, cache, bin, bak, conf, saved, had, loose, stuck>>
  BY AtFetch DEF NotModified, At, FetchAt, files
<1>2. CASE Finish(p, "up to date")
  BY <1>1, <1>2, Fails DEF Promising
<1>3. ASSUME NEW at \in {"state", "open"}, Goto(p, at), UNCHANGED <<lock, done>> PROVE InstallInv'
  <2>1. at \in AtType
    BY DEF AtType, FetchAt
  <2>2. PICK c \in CmdType :
           /\ cmd' = [cmd EXCEPT ![p] = c]
           /\ lock' = IF c.name = "idle" /\ lock = p THEN "none" ELSE lock
           /\ c.name = cmd[p].name /\ c.at = at /\ c.ver = cmd[p].ver /\ c.etag = cmd[p].etag
           /\ c.got = cmd[p].got /\ c.left = cmd[p].left
    BY <1>1, <1>3, <2>1, GotoIs DEF InstallInv, Structure
  <2>3. Path(c)
    BY <1>1, <2>2 DEF Path, FetchAt
  <2>4. Asks(c) => c.ver \in Ver /\ c.ver <= Top(Name(c.ver))
    BY <1>1, <2>2 DEF InstallInv, Structure, Levels, Asks
  <2>5. ASSUME ~loose PROVE Holding(p)'
    <3>1. cmd'[p] = c /\ Holding(p)
      BY <2>2, <2>5 DEF InstallInv, Structure, Types, Clean
    <3>2. QED
      BY <1>1, <2>2, <3>1, Fixed DEF Holding, Bad
  <2>6. QED
    BY <1>1, <1>3, <2>2, <2>3, <2>4, <2>5, Kept
<1>4. QED
  BY <1>2, <1>3 DEF NotModified

\* Verify: what passes is good.
LEMMA StepVerify == ASSUME InstallInv, NEW p \in Proc, Verify(p) PROVE InstallInv'
<1>1. /\ cmd[p].at = "verify" /\ UsesCache(cmd[p].name) /\ cmd[p] \in CmdType /\ Path(cmd[p]) /\ cmd[p].name # "idle"
      /\ ~Refused(p) /\ UNCHANGED <<fixed, latest, cache, bin, bak, conf, saved, had, loose, stuck, lock, done>>
  BY AtFetch DEF Verify, At, FetchAt, files, hist
<1>2. PICK at \in {"state", "open"} : Goto(p, at)
  BY DEF Verify
<1>3. at \in AtType
  BY DEF AtType, FetchAt
<1>4. PICK c \in CmdType :
         /\ cmd' = [cmd EXCEPT ![p] = c]
         /\ lock' = IF c.name = "idle" /\ lock = p THEN "none" ELSE lock
         /\ c.name = cmd[p].name /\ c.at = at /\ c.ver = cmd[p].ver /\ c.etag = cmd[p].etag
         /\ c.got = cmd[p].got /\ c.left = cmd[p].left
  BY <1>1, <1>2, <1>3, GotoIs DEF InstallInv, Structure
<1>5. Path(c)
  BY <1>1, <1>4 DEF Path, FetchAt
<1>6. Asks(c) => c.ver \in Ver /\ c.ver <= Top(Name(c.ver))
  BY <1>1, <1>4 DEF InstallInv, Structure, Levels, Asks
<1>7. ASSUME ~loose PROVE Holding(p)' /\ ~Bad(cmd[p].got)
  <2>1. cmd'[p] = c /\ Holding(p)
    BY <1>4, <1>7 DEF InstallInv, Structure, Types, Clean
  <2>2. ~Bad(cmd[p].got) /\ ~Bad(cache[Name(cmd[p].ver)].file)
    BY <1>1, <2>1 DEF Holding, Refused, Bad
  <2>3. QED
    BY <1>1, <1>4, <2>1, <2>2, Fixed DEF Holding, Bad
<1>8. QED
  BY <1>1, <1>4, <1>5, <1>6, <1>7, Kept

\* The types of what a step leaves alone.
LEMMA FilesType ==
  ASSUME InstallInv
  PROVE  /\ cache \in [Ver -> Entry] /\ bin \in Content /\ bak \in Content
         /\ conf \in {"none", "plain", "routed"} /\ saved \in BOOLEAN /\ had \in BOOLEAN /\ loose \in BOOLEAN
         /\ stuck \subseteq Parts
         /\ \A n \in Ver : cache[n].etag <= Top(n) /\ cache[n].file.ver <= Top(n)
         /\ BinaryOrBackup
BY DEF InstallInv, Structure, Types, Levels, Present

\* Deliver: the archive, whole or not, is in the cache and about to be verified.
LEMMA StepDeliver == ASSUME InstallInv, NEW p \in Proc, Deliver(p) PROVE InstallInv'
<1>1. /\ cmd[p].at = "get" /\ UsesCache(cmd[p].name) /\ cmd[p] \in CmdType /\ Path(cmd[p]) /\ cmd[p].name # "idle"
      /\ UNCHANGED <<fixed, latest, bin, bak, conf, saved, lock, done, had, loose, stuck>>
  BY AtFetch DEF Deliver, At, FetchAt, hist
<1>a. PICK v : v = cmd[p].ver
  OBVIOUS
<1>b. PICK n : n = Name(v)
  OBVIOUS
<1>2. v \in Ver /\ v <= Top(n) /\ n \in Ver /\ v \in Nat
  BY <1>1, <1>a, <1>b, Names, CountAssumption DEF InstallInv, Structure, Levels, Asks, Ver
<1>3. PICK damage \in {"no", "cut", "changed"} :
        /\ cache' = [cache EXCEPT ![n].file = [ver |-> v, damage |-> damage]]
        /\ cmd' = [cmd EXCEPT ![p].at = "etag", ![p].got = [ver |-> v, damage |-> damage]]
  BY <1>a, <1>b DEF Deliver
<1> DEFINE got == [ver |-> v, damage |-> damage]
           c == [cmd[p] EXCEPT !.at = "etag", !.got = got]
<1>4. got \in Content /\ got.ver = v
  BY <1>2 DEF Content
<1> HIDE DEF got
<1>5. cache' = [cache EXCEPT ![n].file = got] /\ cmd' = [cmd EXCEPT ![p] = c]
  BY <1>3 DEF got
<1>6. c \in CmdType /\ c.name = cmd[p].name /\ c.at = "etag" /\ c.ver = v /\ c.etag = cmd[p].etag /\ c.got = got
  BY <1>1, <1>4, <1>a DEF CmdType, AtType, FetchAt
<1> HIDE DEF c
<1>7. /\ cache' \in [Ver -> Entry] /\ cache'[n].file = got /\ cache'[n].etag = cache[n].etag
      /\ \A m \in Ver \ {n} : cache'[m] = cache[m]
  BY <1>2, <1>4, <1>5, FilesType DEF Entry
<1>8. \A m \in Ver : cache'[m].etag <= Top(m) /\ cache'[m].file.ver <= Top(m)
  BY <1>2, <1>4, <1>7, FilesType
<1>9. Path(c) /\ lock' = IF c.name = "idle" /\ lock = p THEN "none" ELSE lock
  BY <1>1, <1>6 DEF Path, FetchAt
<1>10. ASSUME ~loose' PROVE Holding(p)' /\ Orphans' /\ ~Bad(bin)'
  <2>1. ~loose /\ cmd'[p] = c /\ Holding(p) /\ Orphans /\ ~Bad(bin)
    BY <1>1, <1>5, <1>10 DEF InstallInv, Structure, Types, Clean
  <2>2. Holding(p)'
    BY <1>1, <1>4, <1>6, <1>7, <1>a, <1>b, <2>1, Fixed DEF Holding, Bad
  <2>3. Watched(n)'
    BY <1>1, <1>6, <1>b, <2>1, Fixed DEF Watched
  <2>4. \A m \in Ver : ~Watched(m)
    BY <1>1, <2>1, NotWatched
  <2>5. Orphans'
    <3>1. ASSUME NEW m \in Ver, Bad(cache[m].file)' PROVE Watched(m)' \/ cache'[m].etag < cache'[m].file.ver
      <4>1. CASE m = n
        BY <2>3, <4>1
      <4>2. CASE m # n
        <5>1. Bad(cache[m].file)
          BY <1>1, <1>7, <3>1, <4>2, Fixed DEF Bad
        <5>2. QED
          BY <1>7, <2>1, <2>4, <4>2, <5>1 DEF Orphans
      <4>3. QED
        BY <4>1, <4>2
    <3>2. QED
      BY <3>1 DEF Orphans
  <2>6. QED
    BY <1>1, <2>1, <2>2, <2>5, Fixed DEF Bad
<1>11. Asks(c) => c.ver \in Ver /\ c.ver <= Top(Name(c.ver))
  BY <1>2, <1>6, <1>b
<1>12. BinaryOrBackup'
  BY <1>1, FilesType DEF BinaryOrBackup
<1>13. QED
  BY <1>1, <1>5, <1>6, <1>7, <1>8, <1>9, <1>10, <1>11, <1>12, FilesType, Stepped

\* SaveETag: written or not, the archive is still to be verified.
LEMMA StepSaveETag == ASSUME InstallInv, NEW p \in Proc, SaveETag(p) PROVE InstallInv'
<1>1. /\ cmd[p].at = "etag" /\ UsesCache(cmd[p].name) /\ cmd[p] \in CmdType /\ Path(cmd[p]) /\ cmd[p].name # "idle"
      /\ Goto(p, "verify") /\ UNCHANGED <<fixed, latest, bin, bak, conf, saved, lock, done, had, loose, stuck>>
  BY AtFetch DEF SaveETag, At, FetchAt, hist
<1>a. PICK v : v = cmd[p].ver
  OBVIOUS
<1>b. PICK n : n = Name(v)
  OBVIOUS
<1>2. v \in Ver /\ v <= Top(n) /\ n \in Ver /\ v \in Nat /\ v \in 0..MaxVer
  BY <1>1, <1>a, <1>b, Names, CountAssumption DEF InstallInv, Structure, Levels, Asks, Ver
<1>3. cache' = cache \/ cache' = [cache EXCEPT ![n].etag = v]
  BY <1>a, <1>b DEF SaveETag
<1>4. PICK c \in CmdType :
         /\ cmd' = [cmd EXCEPT ![p] = c]
         /\ lock' = IF c.name = "idle" /\ lock = p THEN "none" ELSE lock
         /\ c.name = cmd[p].name /\ c.at = "verify" /\ c.ver = v /\ c.etag = cmd[p].etag
         /\ c.got = cmd[p].got /\ c.left = cmd[p].left
  BY <1>1, <1>a, GotoIs DEF InstallInv, Structure, AtType, FetchAt
<1>5. /\ cache' \in [Ver -> Entry] /\ cache'[n].etag \in {cache[n].etag, v}
      /\ \A m \in Ver : cache'[m].file = cache[m].file
      /\ \A m \in Ver \ {n} : cache'[m] = cache[m]
  BY <1>2, <1>3, FilesType DEF Entry
<1>6. \A m \in Ver : cache'[m].etag <= Top(m) /\ cache'[m].file.ver <= Top(m)
  BY <1>2, <1>5, FilesType
<1>7. Path(c) /\ (Asks(c) => c.ver \in Ver /\ c.ver <= Top(Name(c.ver)))
  BY <1>1, <1>2, <1>4, <1>b DEF Path, FetchAt
<1>8. ASSUME ~loose' PROVE Holding(p)' /\ Orphans' /\ ~Bad(bin)'
  <2>1. ~loose /\ cmd'[p] = c /\ Holding(p) /\ Orphans /\ ~Bad(bin)
    BY <1>1, <1>4, <1>8 DEF InstallInv, Structure, Types, Clean
  <2>2. cache'[n].etag <= v
    BY <1>1, <1>2, <1>5, <1>a, <1>b, <2>1 DEF Holding
  <2>3. Holding(p)'
    <3>1. cache[n].file = cmd[p].got /\ cmd[p].got.ver = v
      BY <1>1, <1>a, <1>b, <2>1 DEF Holding
    <3>2. cache'[n].file = c.got /\ c.got.ver = v
      BY <1>2, <1>4, <1>5, <3>1
    <3>3. Name(cmd[p].ver)' = n
      BY <1>1, <1>4, <1>b, <2>1, Fixed
    <3>4. cmd'[p].at = "verify" /\ cmd'[p].ver = v /\ cmd'[p].got = c.got
      BY <1>4, <2>1
    <3>5. QED
      BY <2>2, <3>2, <3>3, <3>4 DEF Holding
  <2>4. Watched(n)'
    BY <1>1, <1>4, <1>b, <2>1, Fixed DEF Watched
  <2>5. ASSUME NEW m \in Ver, Bad(cache[m].file)' PROVE Watched(m)' \/ cache'[m].etag < cache'[m].file.ver
    <3>1. CASE m = n
      BY <2>4, <3>1
    <3>2. CASE m # n
      <4>1. Bad(cache[m].file)
        BY <1>1, <1>5, <2>5, <3>2, Fixed DEF Bad
      <4>2. \A q \in Proc : cmd[q].at \in {"etag", "verify"} => q = p
        <5>1. \A q \in Proc : cmd[q].at \in {"etag", "verify"} => UsesCache(cmd[q].name)
          BY AtFetch DEF FetchAt
        <5>2. QED
          BY <1>1, <2>1, <5>1 DEF InstallInv, Structure, Alone
      <4>3. ~Watched(m)
        BY <1>a, <1>b, <3>2, <4>2 DEF Watched
      <4>4. QED
        BY <1>5, <2>1, <3>2, <4>1, <4>3 DEF Orphans
    <3>3. QED
      BY <3>1, <3>2
  <2>6. QED
    BY <1>1, <2>1, <2>3, <2>5, Fixed DEF Orphans, Bad
<1>9. BinaryOrBackup'
  BY <1>1, FilesType DEF BinaryOrBackup
<1>10. QED
  BY <1>1, <1>4, <1>5, <1>6, <1>7, <1>8, <1>9, FilesType, Stepped

\* A command that uses the cache ends, whatever the archive under its name has become.
LEMMA StepVerifyFails == ASSUME InstallInv, NEW p \in Proc, VerifyFails(p) PROVE InstallInv'
<1>1. /\ cmd[p].at = "verify" /\ UsesCache(cmd[p].name) /\ cmd[p] \in CmdType /\ Path(cmd[p]) /\ cmd[p].name # "idle"
      /\ Finish(p, "failed") /\ UNCHANGED <<fixed, latest, bin, bak, conf, saved, had, loose, stuck>>
  BY AtFetch DEF VerifyFails, At, FetchAt
<1>a. PICK v : v = cmd[p].ver
  OBVIOUS
<1>b. PICK n : n = Name(v)
  OBVIOUS
<1>2. n \in Ver
  BY <1>1, <1>a, <1>b, Names DEF InstallInv, Structure, Levels, Asks
<1>3. cache' = [cache EXCEPT ![n].file = None]
  BY <1>a, <1>b DEF VerifyFails
<1>4. /\ cmd' = [cmd EXCEPT ![p] = Idle] /\ done' = "failed"
      /\ lock' = IF Idle.name = "idle" /\ lock = p THEN "none" ELSE lock
  BY <1>1, FinishIs
<1>5. /\ cache' \in [Ver -> Entry] /\ cache'[n].file = None /\ cache'[n].etag = cache[n].etag
      /\ \A m \in Ver \ {n} : cache'[m] = cache[m]
  BY <1>2, <1>3, FilesType, AtRest DEF Entry
<1>6. \A m \in Ver : cache'[m].etag <= Top(m) /\ cache'[m].file.ver <= Top(m)
  <2>1. Top(n) \in Nat /\ None.ver = 0
    BY <1>2, Names, CountAssumption DEF Top, Ver, None, InstallInv, Structure
  <2>2. QED
    BY <1>2, <1>5, <2>1, FilesType
<1>7. ASSUME ~loose' PROVE Holding(p)' /\ Orphans' /\ ~Bad(bin)'
  <2>1. ~loose /\ cmd'[p] = Idle /\ Orphans /\ ~Bad(bin)
    BY <1>1, <1>4, <1>7 DEF InstallInv, Structure, Types, Clean
  <2>2. Holding(p)'
    BY <2>1, AtRest DEF Holding
  <2>3. ASSUME NEW m \in Ver, Bad(cache[m].file)' PROVE Watched(m)' \/ cache'[m].etag < cache'[m].file.ver
    <3>1. m # n
      BY <1>5, <2>3 DEF Bad, None
    <3>2. Bad(cache[m].file)
      BY <1>1, <1>5, <2>3, <3>1, Fixed DEF Bad
    <3>3. \A q \in Proc : cmd[q].at \in {"etag", "verify"} => q = p
      <4>1. \A q \in Proc : cmd[q].at \in {"etag", "verify"} => UsesCache(cmd[q].name)
        BY AtFetch DEF FetchAt
      <4>2. QED
        BY <1>1, <2>1, <4>1 DEF InstallInv, Structure, Alone
    <3>4. ~Watched(m)
      BY <1>a, <1>b, <3>1, <3>3 DEF Watched
    <3>5. QED
      BY <1>5, <2>1, <3>1, <3>2, <3>4 DEF Orphans
  <2>4. QED
    BY <1>1, <2>1, <2>2, <2>3, Fixed DEF Orphans, Bad
<1>8. BinaryOrBackup'
  BY <1>1, FilesType DEF BinaryOrBackup
<1>9. "failed" \notin Promising
  BY DEF Promising
<1>10. QED
  BY <1>1, <1>4, <1>5, <1>6, <1>7, <1>8, <1>9, AtRest, FilesType, Stepped DEF Asks

-----------------------------------------------------------------------------
(* The installation.                                                       *)

\* A step of such a command that leaves the cache as it is.
LEMMA Replaced ==
  ASSUME InstallInv, NEW p \in Proc, NEW c \in CmdType, UsesCache(cmd[p].name),
         cmd[p].at \notin {"etag", "verify"},
         cmd' = [cmd EXCEPT ![p] = c], c.name \in {cmd[p].name, "idle"}, Path(c),
         lock' = IF c.name = "idle" /\ lock = p THEN "none" ELSE lock,
         UNCHANGED <<fixed, latest, cache, loose, stuck>>, bin' \in Content, bak' \in Content,
         conf' \in {"none", "plain", "routed"}, saved' \in BOOLEAN, had' \in BOOLEAN,
         Asks(c) => c.ver \in Ver /\ c.ver <= Top(Name(c.ver)),
         c.at \in {"render", "try", "backup", "place"} => c.got # None,
         had' => had \/ \A q \in Proc : cmd[q].name # "uninstall",
         BinaryOrBackup',
         ~loose => Holding(p)' /\ ~Bad(bin)',
         \/ done' \notin Promising
         \/ done' = done
         \/ c.name = "idle" /\ cmd[p].name \in Locked /\ (~loose => UninstallClears' /\ CheckedPair')
  PROVE  InstallInv'
<1>1. ASSUME ~loose PROVE Orphans'
  <2>1. Orphans /\ \A m \in Ver : ~Watched(m)
    BY <1>1, NotWatched DEF InstallInv, Clean
  <2>2. QED
    BY <2>1, Fixed DEF Orphans, Bad
<1>2. cache' \in [Ver -> Entry] /\ loose' = loose /\ UNCHANGED <<fixed, latest>> /\ stuck' \subseteq Parts
      /\ \A n \in Ver : cache'[n].etag <= Top(n) /\ cache'[n].file.ver <= Top(n)
  BY FilesType
<1>3. loose' \in BOOLEAN /\ (loose => loose') /\ (~loose' => Holding(p)' /\ Orphans' /\ ~Bad(bin)')
  BY <1>1, <1>2, FilesType
<1>4. \/ done' \notin Promising
      \/ done' = done
      \/ c.name = "idle" /\ cmd[p].name \in Locked /\ (~loose' => UninstallClears' /\ CheckedPair')
  BY <1>2
<1>5. QED
  BY <1>2, <1>3, <1>4, Stepped

\* SaveState: the archive known to be good stays so.
LEMMA StepSaveState == ASSUME InstallInv, NEW p \in Proc, SaveState(p) PROVE InstallInv'
<1>1. /\ cmd[p].at = "state" /\ UsesCache(cmd[p].name) /\ cmd[p] \in CmdType /\ Path(cmd[p]) /\ cmd[p].name # "idle"
      /\ UNCHANGED <<fixed, latest, cache, bin, bak, conf, had, loose, stuck>>
  <2>1. cmd[p].at = "state" /\ UNCHANGED <<fixed, latest, cache, bin, bak, conf, had, loose, stuck>>
    BY DEF SaveState, At
  <2>2. QED
    BY <2>1, AtFetch DEF FetchAt
<1>2. saved' \in BOOLEAN /\ BinaryOrBackup'
  <2>1. saved' \in {saved, TRUE}
    BY DEF SaveState
  <2>2. QED
    BY <1>1, <2>1, FilesType DEF BinaryOrBackup
<1>3. ASSUME ~loose PROVE ~Bad(bin)'
  BY <1>1, <1>3, Fixed DEF InstallInv, Clean, Bad
<1>4. CASE Finish(p, "failed")
  <2>1. /\ cmd' = [cmd EXCEPT ![p] = Idle] /\ done' = "failed"
        /\ lock' = IF Idle.name = "idle" /\ lock = p THEN "none" ELSE lock
    BY <1>4, FinishIs
  <2>2. Holding(p)' /\ "failed" \notin Promising
    BY <2>1, AtRest DEF Holding, InstallInv, Structure, Types, Promising
  <2>3. QED
    BY <1>1, <1>2, <1>3, <2>1, <2>2, AtRest, FilesType, Replaced DEF Asks
<1>5. CASE Goto(p, "open") /\ UNCHANGED <<lock, done>>
  <2>1. PICK c \in CmdType :
         /\ cmd' = [cmd EXCEPT ![p] = c]
         /\ lock' = IF c.name = "idle" /\ lock = p THEN "none" ELSE lock
         /\ c.name = cmd[p].name /\ c.at = "open" /\ c.ver = cmd[p].ver /\ c.etag = cmd[p].etag
         /\ c.got = cmd[p].got /\ c.left = cmd[p].left
    BY <1>1, <1>5, GotoIs DEF InstallInv, Structure, AtType, FetchAt
  <2>2. Path(c) /\ (Asks(c) => c.ver \in Ver /\ c.ver <= Top(Name(c.ver)))
    BY <1>1, <2>1 DEF Path, FetchAt, InstallInv, Structure, Levels, Asks
  <2>3. ASSUME ~loose PROVE Holding(p)'
    <3>1. cmd'[p] = c /\ Holding(p)
      BY <2>1, <2>3 DEF InstallInv, Structure, Types, Clean
    <3>2. QED
      BY <1>1, <2>1, <3>1, Fixed DEF Holding, Bad
  <2>4. QED
    BY <1>1, <1>2, <1>3, <1>5, <2>1, <2>2, <2>3, FilesType, Replaced
<1>6. QED
  BY <1>4, <1>5 DEF SaveState

\* Open: what is unpacked is the archive known to be good.
LEMMA StepOpen == ASSUME InstallInv, NEW p \in Proc, Open(p) \/ OpenFails(p) PROVE InstallInv'
<1>1. /\ cmd[p].at = "open" /\ UsesCache(cmd[p].name) /\ cmd[p] \in CmdType /\ Path(cmd[p]) /\ cmd[p].name # "idle"
      /\ UNCHANGED <<fixed, latest, cache, bin, bak, conf, saved, had, loose, stuck>>
  BY AtFetch DEF Open, OpenFails, At, FetchAt, files, hist
<1>2. CASE OpenFails(p)
  BY <1>1, <1>2, Fails DEF OpenFails, Promising
<1>3. CASE Open(p)
  <2>1. PICK at \in {"render", "backup"} :
          /\ cmd' = [cmd EXCEPT ![p].at = at, ![p].got = Archive(p)]
          /\ at = "render" <=> Prepared(p)
    BY <1>3 DEF Open
  <2>2. Archive(p) # None /\ lock' = lock /\ done' = done
    BY <1>3 DEF Open, hist
  <2>3. Archive(p) \in Content
    BY <1>1, Names, FilesType DEF InstallInv, Structure, Levels, Asks, Archive, Entry
  <2> DEFINE c == [cmd[p] EXCEPT !.at = at, !.got = Archive(p)]
  <2>4. cmd' = [cmd EXCEPT ![p] = c]
    BY <2>1
  <2>5. c \in CmdType /\ c.name = cmd[p].name /\ c.at = at /\ c.got = Archive(p)
    <3>1. at \in AtType
      BY DEF AtType, FetchAt
    <3>2. QED
      BY <1>1, <2>3, <3>1 DEF CmdType
  <2> HIDE DEF c
  <2>6. Path(c) /\ ~Asks(c)
    BY <1>1, <2>1, <2>5 DEF Path, FetchAt, Prepared, Fetching, Asks
  <2>7. ASSUME ~loose PROVE Holding(p)'
    <3>1. cmd'[p] = c /\ Holding(p)
      BY <2>4, <2>7 DEF InstallInv, Structure, Types, Clean
    <3>2. ~Bad(Archive(p))
      BY <1>1, <3>1 DEF Holding, Archive
    <3>3. PICK d : d = c
      OBVIOUS
    <3>4. cmd'[p] = d /\ d.at \in {"render", "backup"} /\ d.name = cmd[p].name
          /\ (d.at = "render" <=> Prepared(p)) /\ ~Bad(d.got)
      BY <2>1, <2>5, <3>1, <3>2, <3>3
    <3>5. ~Bad(d.got)' /\ (Prepared(p)' <=> Prepared(p))
      BY <1>1, <3>4, Fixed DEF Bad, Prepared
    <3>6. QED
      BY <3>4, <3>5 DEF Holding
  <2>8. QED
    BY <1>1, <2>2, <2>4, <2>5, <2>6, <2>7, Kept
<1>4. QED
  BY <1>2, <1>3

\* Render: the binary unpacked stays as it is.
LEMMA StepRender == ASSUME InstallInv, NEW p \in Proc, Render(p) PROVE InstallInv'
<1>1. /\ cmd[p].at = "render" /\ UsesCache(cmd[p].name) /\ cmd[p] \in CmdType /\ Path(cmd[p]) /\ cmd[p].name # "idle"
      /\ UNCHANGED <<fixed, latest, cache, bin, bak, saved, had, loose, stuck>>
  BY AtFetch DEF Render, At
<1>2. conf' \in {"none", "plain", "routed"} /\ BinaryOrBackup'
  <2>1. conf' \in {conf, "plain"}
    BY DEF Render
  <2>2. QED
    BY <1>1, <2>1, FilesType DEF BinaryOrBackup
<1>3. ASSUME ~loose PROVE ~Bad(bin)'
  BY <1>1, <1>3, Fixed DEF InstallInv, Clean, Bad
<1>4. CASE Finish(p, "failed")
  <2>1. /\ cmd' = [cmd EXCEPT ![p] = Idle] /\ done' = "failed"
        /\ lock' = IF Idle.name = "idle" /\ lock = p THEN "none" ELSE lock
    BY <1>4, FinishIs
  <2>2. Holding(p)' /\ "failed" \notin Promising
    BY <2>1, AtRest DEF Holding, InstallInv, Structure, Types, Promising
  <2>3. QED
    BY <1>1, <1>2, <1>3, <2>1, <2>2, AtRest, FilesType, Replaced DEF Asks
<1>5. CASE ~Finish(p, "failed")
  <2>1. PICK at \in {"try", "check"} : Goto(p, at) /\ UNCHANGED <<lock, done>>
    BY <1>5 DEF Render
  <2>2. at \in AtType
    BY DEF AtType
  <2>3. PICK c \in CmdType :
         /\ cmd' = [cmd EXCEPT ![p] = c]
         /\ lock' = IF c.name = "idle" /\ lock = p THEN "none" ELSE lock
         /\ c.name = cmd[p].name /\ c.at = at /\ c.ver = cmd[p].ver /\ c.etag = cmd[p].etag
         /\ c.got = cmd[p].got /\ c.left = cmd[p].left
    BY <1>1, <2>1, <2>2, GotoIs DEF InstallInv, Structure
  <2>4. Path(c) /\ ~Asks(c) /\ c.got # None
    BY <1>1, <2>3 DEF Path, FetchAt, Asks, InstallInv, Present
  <2>5. ASSUME ~loose PROVE Holding(p)'
    <3>1. cmd'[p] = c /\ ~Bad(c.got)
      BY <1>1, <2>3, <2>5 DEF InstallInv, Structure, Types, Clean, Holding
    <3>2. ~Bad(c.got)'
      BY <1>1, <3>1, Fixed DEF Bad
    <3>3. QED
      BY <2>3, <3>1, <3>2 DEF Holding
  <2>6. QED
    BY <1>1, <1>2, <1>3, <2>1, <2>3, <2>4, <2>5, FilesType, Replaced
<1>6. QED
  BY <1>4, <1>5

\* Try: the core accepts the configuration before anything is replaced.
LEMMA StepTry == ASSUME InstallInv, NEW p \in Proc, Try(p) PROVE InstallInv'
<1>1. /\ cmd[p].at = "try" /\ UsesCache(cmd[p].name) /\ cmd[p] \in CmdType /\ Path(cmd[p]) /\ cmd[p].name # "idle"
      /\ Accepts(cmd[p].got, conf) /\ Goto(p, "backup")
      /\ UNCHANGED <<fixed, latest, cache, bin, bak, conf, saved, had, loose, stuck, lock, done>>
  BY AtFetch DEF Try, At, files, hist
<1>2. PICK c \in CmdType :
         /\ cmd' = [cmd EXCEPT ![p] = c]
         /\ lock' = IF c.name = "idle" /\ lock = p THEN "none" ELSE lock
         /\ c.name = cmd[p].name /\ c.at = "backup" /\ c.ver = cmd[p].ver /\ c.etag = cmd[p].etag
         /\ c.got = cmd[p].got /\ c.left = cmd[p].left
  BY <1>1, GotoIs DEF InstallInv, Structure, AtType, FetchAt
<1>3. Path(c) /\ ~Asks(c) /\ c.got # None
  BY <1>1, <1>2 DEF Path, FetchAt, Fetching, Asks, InstallInv, Present
<1>4. ASSUME ~loose PROVE Holding(p)'
  <2>1. cmd'[p] = c /\ ~Bad(c.got)
    BY <1>1, <1>2, <1>4 DEF InstallInv, Structure, Types, Clean, Holding
  <2>2. ~Bad(c.got)' /\ Accepts(c.got, conf)'
    BY <1>1, <1>2, <2>1, Fixed DEF Bad, Accepts
  <2>3. QED
    BY <1>2, <2>1, <2>2 DEF Holding
<1>5. QED
  BY <1>1, <1>2, <1>3, <1>4, Kept

\* Backup: the binary in place, if there is one, becomes the backup.
LEMMA StepBackup == ASSUME InstallInv, NEW p \in Proc, Backup(p) PROVE InstallInv'
<1>1. /\ cmd[p].at = "backup" /\ UsesCache(cmd[p].name) /\ cmd[p] \in CmdType /\ Path(cmd[p]) /\ cmd[p].name # "idle"
      /\ bak' = (IF bin = None THEN bak ELSE bin) /\ bin' = None /\ Goto(p, "place")
      /\ UNCHANGED <<fixed, latest, cache, conf, saved, had, loose, stuck, lock, done>>
  BY AtFetch DEF Backup, At, FetchAt, hist
<1>2. bak' \in Content /\ bin' \in Content /\ BinaryOrBackup'
  BY <1>1, FilesType, AtRest DEF BinaryOrBackup
<1>3. PICK c \in CmdType :
         /\ cmd' = [cmd EXCEPT ![p] = c]
         /\ lock' = IF c.name = "idle" /\ lock = p THEN "none" ELSE lock
         /\ c.name = cmd[p].name /\ c.at = "place" /\ c.ver = cmd[p].ver /\ c.etag = cmd[p].etag
         /\ c.got = cmd[p].got /\ c.left = cmd[p].left
  BY <1>1, GotoIs DEF InstallInv, Structure, AtType, FetchAt
<1>4. Path(c) /\ ~Asks(c) /\ c.got # None
  BY <1>1, <1>3 DEF Path, FetchAt, Asks, InstallInv, Present
<1>5. ASSUME ~loose PROVE Holding(p)' /\ ~Bad(bin)'
  <2>1. cmd'[p] = c /\ ~Bad(c.got) /\ (Prepared(p) => Accepts(c.got, conf))
    BY <1>1, <1>3, <1>5 DEF InstallInv, Structure, Types, Clean, Holding
  <2>2. ~Bad(c.got)' /\ (Prepared(p)' => Accepts(c.got, conf)')
    BY <1>1, <1>3, <2>1, Fixed DEF Bad, Accepts, Prepared
  <2>3. Holding(p)'
    BY <1>3, <2>1, <2>2 DEF Holding
  <2>4. QED
    BY <1>1, <2>3 DEF Bad, None
<1>6. QED
  BY <1>1, <1>2, <1>3, <1>4, <1>5, FilesType, Replaced

\* Place: the good archive's binary is in place, and accepted if it was tried.
LEMMA StepPlace == ASSUME InstallInv, NEW p \in Proc, Place(p) PROVE InstallInv'
<1>1. /\ cmd[p].at = "place" /\ UsesCache(cmd[p].name) /\ cmd[p] \in CmdType /\ Path(cmd[p]) /\ cmd[p].name # "idle"
      /\ bin' = cmd[p].got /\ had' = (\A q \in Proc : cmd[q].name # "uninstall")
      /\ UNCHANGED <<fixed, latest, cache, bak, conf, saved, loose, stuck>>
  <2>1. /\ cmd[p].at = "place" /\ bin' = cmd[p].got /\ had' = (\A q \in Proc : cmd[q].name # "uninstall")
        /\ UNCHANGED <<fixed, latest, cache, bak, conf, saved, loose, stuck>>
    BY DEF Place, At
  <2>2. QED
    BY <2>1, AtFetch DEF FetchAt
<1>2. cmd[p].got # None /\ cmd[p].got \in Content
  BY <1>1 DEF InstallInv, Present, CmdType
<1>3. BinaryOrBackup' /\ had' \in BOOLEAN /\ (had' => had \/ \A q \in Proc : cmd[q].name # "uninstall")
  BY <1>1, <1>2 DEF BinaryOrBackup, None
<1>4. ASSUME ~loose PROVE ~Bad(cmd[p].got) /\ ~Bad(bin)' /\ (Prepared(p) => Accepts(cmd[p].got, conf))
  <2>1. ~Bad(cmd[p].got) /\ (Prepared(p) => Accepts(cmd[p].got, conf))
    BY <1>1, <1>4 DEF InstallInv, Clean, Holding
  <2>2. ~Bad(bin)'
    BY <1>1, <2>1, Fixed DEF Bad
  <2>3. QED
    BY <2>1, <2>2
<1>5. CASE Then(p) = "end"
  <2>1. PICK how : Finish(p, how) /\ how = IF cmd[p].name = "core-install" THEN "added" ELSE "installed"
    BY <1>5 DEF Place
  <2>2. /\ cmd' = [cmd EXCEPT ![p] = Idle] /\ done' = how
        /\ lock' = IF Idle.name = "idle" /\ lock = p THEN "none" ELSE lock
    BY <2>1, FinishIs
  <2>3. Holding(p)'
    BY <2>2, AtRest DEF Holding, InstallInv, Structure, Types
  <2>4. CASE cmd[p].name = "core-install"
    BY <1>1, <1>2, <1>3, <1>4, <2>1, <2>2, <2>3, <2>4, AtRest, FilesType, Replaced DEF Asks, Promising
  <2>5. CASE cmd[p].name # "core-install"
    <3>1. cmd[p].name \in {"update", "install", "reinstall"} /\ cmd[p].name \in Locked
      BY <1>1, <2>5 DEF Path, FetchAt, Fetching, Locked
    <3>2. ASSUME ~loose PROVE UninstallClears' /\ CheckedPair'
      <4>1. kind \notin CheckedAfter
        BY <1>5, <3>1 DEF Then, Fresh
      <4>2. kind = "sing-box" => Accepts(bin, conf)'
        BY <1>1, <1>4, <2>5, <3>2, Fixed DEF Prepared, Accepts
      <4>3. done' = "installed" /\ kind' = kind
        BY <1>1, <2>1, <2>2, <2>5, Fixed
      <4>4. UninstallClears'
        BY <4>3 DEF UninstallClears
      <4>5. CheckedPair'
        BY <4>1, <4>2, <4>3 DEF CheckedPair
      <4>6. QED
        BY <4>4, <4>5
    <3>3. QED
      BY <1>1, <1>2, <1>3, <1>4, <2>2, <2>3, <3>1, <3>2, AtRest, FilesType, Replaced DEF Asks
  <2>6. QED
    BY <2>4, <2>5
<1>6. CASE Then(p) # "end"
  <2>1. PICK at \in {"check", "render"} : Goto(p, at) /\ UNCHANGED <<lock, done>>
    BY <1>6 DEF Place, Then
  <2>2. at \in AtType /\ cmd[p].name \in {"update", "install", "reinstall"}
    BY <1>6 DEF AtType, Then, Fresh
  <2>3. PICK c \in CmdType :
         /\ cmd' = [cmd EXCEPT ![p] = c]
         /\ lock' = IF c.name = "idle" /\ lock = p THEN "none" ELSE lock
         /\ c.name = cmd[p].name /\ c.at = at /\ c.ver = cmd[p].ver /\ c.etag = cmd[p].etag
         /\ c.got = cmd[p].got /\ c.left = cmd[p].left
    BY <1>1, <2>1, <2>2, GotoIs DEF InstallInv, Structure
  <2>4. Path(c) /\ ~Asks(c)
    BY <2>2, <2>3 DEF Path, FetchAt, Asks
  <2>5. ASSUME ~loose PROVE Holding(p)'
    <3>1. cmd'[p] = c
      BY <2>3 DEF InstallInv, Structure, Types
    <3>2. ~Bad(c.got)'
      BY <1>1, <1>4, <2>3, <2>5, Fixed DEF Bad
    <3>3. QED
      BY <2>3, <3>1, <3>2 DEF Holding
  <2>6. QED
    BY <1>1, <1>2, <1>3, <1>4, <2>1, <2>3, <2>4, <2>5, FilesType, Replaced
<1>7. QED
  BY <1>5, <1>6

\* PlaceFails: the binary that was there is the backup.
LEMMA StepPlaceFails == ASSUME InstallInv, NEW p \in Proc, PlaceFails(p) PROVE InstallInv'
<1>1. cmd[p].at \in {"backup", "place"} /\ UsesCache(cmd[p].name)
  BY AtFetch DEF PlaceFails, At, FetchAt
<1>2. QED
  BY <1>1, Fails DEF PlaceFails, Promising, files

\* A --start that ends, with whatever result.
LEMMA StartEnds ==
  ASSUME InstallInv, NEW p \in Proc, cmd[p].name = "start", NEW how, how \notin Promising, Finish(p, how),
         UNCHANGED <<fixed, latest, cache, bin, bak, saved, had, loose, stuck>>, conf' \in {"none", "plain", "routed"}
  PROVE  InstallInv'
<1>1. /\ cmd' = [cmd EXCEPT ![p] = Idle] /\ done' = how
      /\ lock' = IF Idle.name = "idle" /\ lock = p THEN "none" ELSE lock
  BY FinishIs
<1>2. QED
  BY <1>1, AtRest, Started

\* Check: the binary in place accepted its configuration.
LEMMA StepCheck == ASSUME InstallInv, NEW p \in Proc, Check(p) PROVE InstallInv'
<1>1. cmd[p].at = "check" /\ Accepts(bin, conf)
      /\ UNCHANGED <<fixed, latest, cache, bin, bak, conf, saved, had, loose, stuck>>
  BY DEF Check, At, files
<1>2. CASE cmd[p].name = "start"
  BY <1>1, <1>2, StartEnds, FilesType DEF Check, Promising
<1>3. CASE cmd[p].name # "start"
  <2>1. UsesCache(cmd[p].name) /\ Path(cmd[p]) /\ cmd[p].name \in Locked
    BY <1>1, <1>3, AtFetch DEF Path, Locked
  <2>2. /\ cmd' = [cmd EXCEPT ![p] = Idle] /\ done' = "installed"
        /\ lock' = IF Idle.name = "idle" /\ lock = p THEN "none" ELSE lock
    BY <1>3, FinishIs DEF Check
  <2>3. Holding(p)' /\ BinaryOrBackup'
    BY <1>1, <2>2, AtRest, FilesType DEF Holding, BinaryOrBackup, InstallInv, Structure, Types
  <2>4. ASSUME ~loose PROVE ~Bad(bin)'
    BY <1>1, <2>4, Fixed DEF InstallInv, Clean, Bad
  <2>5. UninstallClears' /\ CheckedPair'
    <3>1. Accepts(bin, conf)'
      BY <1>1, Fixed DEF Accepts
    <3>2. QED
      BY <2>2, <3>1 DEF UninstallClears, CheckedPair
  <2>6. QED
    BY <1>1, <2>1, <2>2, <2>3, <2>4, <2>5, AtRest, FilesType, Replaced DEF Asks
<1>4. QED
  BY <1>2, <1>3

\* CheckFails: the command ends, the files stay.
LEMMA StepCheckFails == ASSUME InstallInv, NEW p \in Proc, CheckFails(p) PROVE InstallInv'
<1>1. cmd[p].at \in {"check", "try"} /\ Finish(p, "failed")
      /\ UNCHANGED <<fixed, latest, cache, bin, bak, conf, saved, had, loose, stuck>>
  BY DEF CheckFails, At, files
<1>2. CASE cmd[p].name = "start"
  BY <1>1, <1>2, StartEnds, FilesType DEF Promising
<1>3. CASE cmd[p].name # "start"
  <2>1. UsesCache(cmd[p].name)
    BY <1>1, <1>3, AtFetch
  <2>2. QED
    BY <1>1, <2>1, Fails DEF Promising
<1>4. QED
  BY <1>2, <1>3

-----------------------------------------------------------------------------
(* --start and --uninstall.                                                *)

\* Compare: only the configuration is new.
LEMMA StepCompare == ASSUME InstallInv, NEW p \in Proc, Compare(p) PROVE InstallInv'
<1>1. cmd[p].at = "compare" /\ conf' = "routed" /\ UNCHANGED <<fixed, latest, cache, bin, bak, saved, had, loose, stuck>>
  BY DEF Compare, At
<1>2. cmd[p].name = "start"
  BY <1>1 DEF InstallInv, Structure, Locks, Path
<1>3. CASE Finish(p, "started")
  BY <1>1, <1>2, <1>3, StartEnds DEF Promising
<1>4. CASE Goto(p, "check") /\ UNCHANGED <<lock, done>>
  <2>1. PICK c \in CmdType :
         /\ cmd' = [cmd EXCEPT ![p] = c]
         /\ lock' = IF c.name = "idle" /\ lock = p THEN "none" ELSE lock
         /\ c.name = cmd[p].name /\ c.at = "check" /\ c.ver = cmd[p].ver /\ c.etag = cmd[p].etag
         /\ c.got = cmd[p].got /\ c.left = cmd[p].left
    BY <1>2, <1>4, GotoIs DEF InstallInv, Structure, AtType
  <2>2. Path(c)
    BY <1>2, <2>1 DEF Path, FetchAt
  <2>3. QED
    BY <1>1, <1>2, <1>4, <2>1, <2>2, Started
<1>5. QED
  BY <1>3, <1>4 DEF Compare

\* What is left of the cache is what was there, less some of it.
LEMMA LeftoversAre ==
  ASSUME InstallInv, NEW fails \in BOOLEAN, NEW rest \in Leftovers(fails)
  PROVE  /\ rest \in [Ver -> Entry]
         /\ \A n \in Ver : /\ rest[n].file \in {cache[n].file, None} /\ rest[n].etag \in {cache[n].etag, 0}
                           /\ ~fails => rest[n] = [file |-> None, etag |-> 0]
<1>1. PICK kept \in [Ver -> IF fails THEN SUBSET {"file", "etag"} ELSE {{}}] :
        rest = [v \in Ver |-> [file |-> IF "file" \in kept[v] THEN cache[v].file ELSE None,
                               etag |-> IF "etag" \in kept[v] THEN cache[v].etag ELSE 0]]
  BY DEF Leftovers
<1>2. 0 \in 0..MaxVer
  BY CountAssumption
<1>3. ASSUME NEW n \in Ver
      PROVE  /\ rest[n] = [file |-> IF "file" \in kept[n] THEN cache[n].file ELSE None,
                           etag |-> IF "etag" \in kept[n] THEN cache[n].etag ELSE 0]
             /\ rest[n] \in Entry
  BY <1>1, <1>2, <1>3, FilesType, AtRest DEF Entry
<1>4. ASSUME NEW n \in Ver, ~fails PROVE kept[n] = {}
  BY <1>1, <1>4
<1>5. QED
  BY <1>1, <1>3, <1>4

\* Remove: what is off the list is gone or could not be removed.
LEMMA StepRemove == ASSUME InstallInv, NEW p \in Proc, Remove(p) PROVE InstallInv'
<1>1. /\ cmd[p].at = "remove" /\ UsesCache(cmd[p].name) /\ cmd[p] \in CmdType /\ Path(cmd[p]) /\ cmd[p].name = "uninstall"
      /\ UNCHANGED <<fixed, latest, bak, had, loose>>
  <2>1. cmd[p].at = "remove" /\ UNCHANGED <<fixed, latest, bak, had, loose>>
    BY DEF Remove, At
  <2>2. QED
    BY <2>1, AtFetch DEF Path
<1>2. PICK what \in cmd[p].left, fails \in BOOLEAN :
       /\ bin' = (IF what = "bin" /\ ~fails THEN None ELSE bin)
       /\ cache' \in (IF what = "lib" THEN Leftovers(fails) ELSE {cache})
       /\ conf' \in (IF what # "config" THEN {conf} ELSE IF fails THEN {conf, "none"} ELSE {"none"})
       /\ saved' \in (IF what # "config" \/ kind # "sing-box" THEN {saved}
                      ELSE IF fails THEN {saved, FALSE} ELSE {FALSE})
       /\ stuck' = (IF fails THEN stuck \cup {what} ELSE stuck)
       /\ IF cmd[p].left = {what} THEN Finish(p, "uninstalled")
          ELSE cmd' = [cmd EXCEPT ![p].left = @ \ {what}] /\ UNCHANGED <<lock, done>>
  BY DEF Remove
<1>3. bin' \in Content /\ conf' \in {"none", "plain", "routed"} /\ saved' \in BOOLEAN /\ what \in Parts /\ stuck' \subseteq Parts
  <2>1. what \in Parts
    BY <1>1 DEF CmdType
  <2>2. bin' \in Content /\ conf' \in {"none", "plain", "routed"} /\ saved' \in BOOLEAN
    BY <1>2, FilesType, AtRest
  <2>3. QED
    BY <1>2, <2>1, <2>2 DEF InstallInv, Structure, Types
<1>4. BinaryOrBackup'
  BY <1>1 DEF InstallInv, Present, BinaryOrBackup
<1>5. /\ cache' \in [Ver -> Entry]
      /\ \A n \in Ver : cache'[n].file \in {cache[n].file, None} /\ cache'[n].etag \in {cache[n].etag, 0}
      /\ what # "lib" => cache' = cache
      /\ what = "lib" /\ ~fails => \A n \in Ver : cache'[n] = [file |-> None, etag |-> 0]
  <2>1. CASE what # "lib"
    BY <1>2, <2>1, FilesType
  <2>2. CASE what = "lib"
    <3>1. PICK rest \in Leftovers(fails) : cache' = rest
      BY <1>2, <2>2
    <3>2. QED
      BY <2>2, <3>1, LeftoversAre
  <2>3. QED
    BY <2>1, <2>2
<1>6. \A n \in Ver : cache'[n].etag <= Top(n) /\ cache'[n].file.ver <= Top(n)
  <2>1. \A n \in Ver : Top(n) \in Nat /\ None.ver = 0
    BY Names, CountAssumption DEF Top, Ver, InstallInv, Structure, None
  <2>2. QED
    BY <1>5, <2>1, FilesType
<1>7. ASSUME ~loose' PROVE ~Bad(bin)'
  BY <1>1, <1>2, <1>7, Fixed DEF InstallInv, Clean, Bad, None
<1>8. ASSUME ~loose' PROVE Orphans'
  <2>1. Orphans /\ \A m \in Ver : ~Watched(m)
    BY <1>1, <1>8, NotWatched DEF InstallInv, Clean
  <2>2. ASSUME NEW m \in Ver, Bad(cache[m].file)' PROVE Watched(m)' \/ cache'[m].etag < cache'[m].file.ver
    <3>1. cache'[m].file = cache[m].file /\ Bad(cache[m].file)
      BY <1>1, <1>5, <2>2, Fixed DEF Bad, None
    <3>2. cache[m].etag < cache[m].file.ver
      BY <2>1, <3>1 DEF Orphans
    <3>3. cache[m].etag \in Nat /\ cache[m].file.ver \in Nat /\ cache'[m].etag \in {cache[m].etag, 0}
      BY <1>5, FilesType, CountAssumption DEF Entry, Content, Ver, None
    <3>4. QED
      BY <3>1, <3>2, <3>3
  <2>3. QED
    BY <2>2 DEF Orphans
<1>9. PICK rest \in SUBSET Parts : rest = cmd[p].left \ {what}
  BY <1>1 DEF CmdType
<1>10. ASSUME ~loose PROVE Removed(Parts \ rest)'
  <2>1. Removed(Parts \ cmd[p].left)
    BY <1>1, <1>10 DEF InstallInv, Clean, Holding
  <2>2. \A x \in Parts : x \in (Parts \ rest) \ stuck' => x \in (Parts \ cmd[p].left) \ stuck \/ (x = what /\ ~fails)
    BY <1>2, <1>9
  <2>3. "bin" \in (Parts \ rest) \ stuck' => bin' = None
    BY <1>2, <2>1, <2>2 DEF Removed, Parts
  <2>4. "config" \in (Parts \ rest) \ stuck' => conf' = "none" /\ (kind = "sing-box" => saved' = FALSE)
    <3>1. saved \in BOOLEAN
      BY FilesType
    <3>2. QED
      BY <1>2, <2>1, <2>2, <3>1 DEF Removed, Parts
  <2>5. "lib" \in (Parts \ rest) \ stuck' => \A v \in Ver : cache'[v] = [file |-> None, etag |-> 0]
    <3>1. CASE what = "lib"
      BY <1>2, <1>5, <2>1, <2>2, <3>1 DEF Removed, Parts
    <3>2. CASE what # "lib"
      BY <1>5, <2>1, <2>2, <3>2 DEF Removed, Parts
    <3>3. QED
      BY <3>1, <3>2
  <2>6. kind' = kind
    BY <1>1, Fixed
  <2>7. QED
    BY <2>3, <2>4, <2>5, <2>6 DEF Removed, Parts
<1>11. CASE cmd[p].left = {what}
  <2>1. /\ cmd' = [cmd EXCEPT ![p] = Idle] /\ done' = "uninstalled"
        /\ lock' = IF Idle.name = "idle" /\ lock = p THEN "none" ELSE lock
    BY <1>2, <1>11, FinishIs
  <2>2. Holding(p)'
    BY <2>1, AtRest DEF Holding, InstallInv, Structure, Types
  <2>3. ASSUME ~loose PROVE UninstallClears' /\ CheckedPair'
    <3>1. Removed(Parts)' /\ rest = {}
      <4>1. rest = {} /\ Parts \ rest = Parts
        BY <1>9, <1>11
      <4>2. QED
        BY <1>10, <2>3, <4>1
    <3>2. /\ "bin" \notin stuck' => bin' = None
          /\ "config" \notin stuck' => conf' = "none" /\ (kind' = "sing-box" => ~saved')
          /\ "lib" \notin stuck' => \A v \in Ver : cache'[v] = [file |-> None, etag |-> 0]
      BY <3>1 DEF Removed, Parts
    <3>3. ASSUME kind' = "sing-box", stuck' \subseteq {"lib"} PROVE ~Refuses("install")'
      BY <3>2, <3>3 DEF Refuses
    <3>4. QED
      BY <2>1, <3>2, <3>3 DEF UninstallClears, CheckedPair
  <2>4. cmd[p].name \in Locked
    BY <1>1 DEF Locked
  <2>5. QED
    BY <1>1, <1>3, <1>4, <1>5, <1>6, <1>7, <1>8, <2>1, <2>2, <2>3, <2>4, AtRest, FilesType, Stepped DEF Asks
<1>12. CASE cmd[p].left # {what}
  <2> DEFINE d == [cmd[p] EXCEPT !.left = @ \ {what}]
  <2>1. cmd' = [cmd EXCEPT ![p] = d] /\ UNCHANGED <<lock, done>>
    BY <1>2, <1>12
  <2>2. d \in CmdType /\ d.name = cmd[p].name /\ d.at = "remove" /\ d.left = cmd[p].left \ {what}
    BY <1>1 DEF CmdType
  <2> HIDE DEF d
  <2>3. PICK c : c = d
    OBVIOUS
  <2>4. /\ c \in CmdType /\ c.name = cmd[p].name /\ c.at = "remove" /\ c.left = rest
        /\ cmd' = [cmd EXCEPT ![p] = c] /\ lock' = IF c.name = "idle" /\ lock = p THEN "none" ELSE lock
    BY <1>1, <1>9, <2>1, <2>2, <2>3
  <2>5. Path(c) /\ ~Asks(c)
    BY <1>1, <2>4 DEF Path, FetchAt, Asks
  <2>6. ASSUME ~loose PROVE Holding(p)'
    <3>1. cmd'[p] = c
      BY <2>4 DEF InstallInv, Structure, Types
    <3>2. Removed(Parts \ c.left)'
      BY <1>10, <2>4, <2>6
    <3>3. QED
      BY <2>4, <3>1, <3>2 DEF Holding
  <2>7. QED
    BY <1>1, <1>3, <1>4, <1>5, <1>6, <1>7, <1>8, <2>1, <2>4, <2>5, <2>6, FilesType, Stepped
<1>13. QED
  BY <1>11, <1>12

-----------------------------------------------------------------------------
(* Commands begin, are killed, and releases appear.                        *)

\* A step that leaves the files as they are, the kind and the releases too.
LEMMA Same ==
  ASSUME Types, UNCHANGED <<fixed, latest, cache, bin, bak, conf, saved>>
  PROVE  /\ \A c : Bad(c)' <=> Bad(c)
         /\ \A n : Top(n)' = Top(n)
         /\ \A n : Name(n)' = Name(n)
BY Fixed DEF Bad, Top, Offered

\* The commands of a binary, and what Begin makes of one.
LEMMA CommandNames == Commands \subseteq NameType \ {"idle"}
BY DEF Commands, Locked, NameType

\* Begin: refused, only the result is new; otherwise nobody else is in the way,
\* or it is noted.
LEMMA StepBegin == ASSUME InstallInv, NEW p \in Proc, Begin(p) PROVE InstallInv'
<1> USE DEF InstallInv
<1>1. cmd[p].at = "idle" /\ cmd[p].name = "idle" /\ UNCHANGED <<fixed, latest, cache, bin, bak, conf, saved>>
  BY DEF Begin, At, files, Structure, Locks, Path
<1>2. PICK name \in Commands :
        /\ name \in Locked => lock = "none"
        /\ IF Refuses(name) THEN done' = "refused" /\ UNCHANGED <<lock, cmd>>
           ELSE /\ lock' = IF name \in Locked THEN p ELSE lock
                /\ cmd' = [cmd EXCEPT ![p] = [Idle EXCEPT !.name = name,
                             !.at = CASE name = "start" -> "compare" [] name = "uninstall" -> "remove"
                                      [] OTHER -> "release",
                             !.left = IF name = "uninstall" THEN {"bin", "config", "lib"} ELSE {}]]
                /\ done' = "nothing"
        /\ had' = (had /\ name # "uninstall")
        /\ stuck' = (IF name = "uninstall" THEN {} ELSE stuck)
        /\ loose' = (loose \/ (UsesCache(name) /\ \E q \in Proc : UsesCache(cmd[q].name)))
  BY DEF Begin
<1>3. name \in NameType /\ name # "idle" /\ had' \in BOOLEAN /\ loose' \in BOOLEAN /\ (loose => loose') /\ (had' => had)
      /\ stuck' \subseteq Parts
  BY <1>2, CommandNames, FilesType DEF Structure, Types
<1>4. /\ \A c : Bad(c)' <=> Bad(c)
      /\ \A n : Top(n)' = Top(n)
      /\ \A n : Name(n)' = Name(n)
  BY <1>1, Same DEF Structure
<1>5. CASE Refuses(name)
  <2>1. cmd' = cmd /\ lock' = lock /\ done' = "refused" /\ stuck' = stuck
    BY <1>2, <1>5 DEF Refuses
  <2>2. Structure'
    <3>1. Types'
      BY <1>1, <1>3, <2>1, Fixed DEF Structure, Types
    <3>2. Locks' /\ Alone'
      BY <1>3, <2>1 DEF Structure, Locks, Alone
    <3>3. Levels'
      BY <1>1, <1>4, <2>1 DEF Structure, Levels
    <3>4. QED
      BY <3>1, <3>2, <3>3 DEF Structure
  <2>3. Present'
    BY <1>1, <1>3, <2>1 DEF Present, BinaryOrBackup
  <2>4. Clean'
    <3>1. ASSUME ~loose', NEW q \in Proc PROVE Holding(q)'
      <4>1. Holding(q)
        BY <1>3, <3>1 DEF Clean
      <4>2. QED
        BY <1>1, <1>4, <2>1, <4>1, Fixed DEF Holding, Prepared, Accepts, Removed
    <3>2. QED
      BY <1>1, <1>3, <1>4, <2>1, <3>1 DEF Clean, Orphans, Watched
  <2>5. Ends'
    BY <2>1 DEF Ends, Quiet, UninstallClears, CheckedPair, Promising
  <2>6. QED
    BY <2>2, <2>3, <2>4, <2>5
<1>6. CASE ~Refuses(name)
  <2> DEFINE d == [Idle EXCEPT !.name = name,
                     !.at = CASE name = "start" -> "compare" [] name = "uninstall" -> "remove"
                              [] OTHER -> "release",
                     !.left = IF name = "uninstall" THEN {"bin", "config", "lib"} ELSE {}]
  <2>1. /\ d \in CmdType /\ d.name = name /\ d.at \in {"compare", "remove", "release"}
        /\ d.at = "compare" <=> name = "start"
        /\ d.at = "remove" <=> name = "uninstall"
        /\ d.left = IF name = "uninstall" THEN {"bin", "config", "lib"} ELSE {}
    <3>1. {"bin", "config", "lib"} \in SUBSET Parts /\ {} \in SUBSET Parts
      BY DEF Parts
    <3>2. QED
      BY <1>3, <3>1, AtRest DEF CmdType, AtType, FetchAt, Idle
  <2>2. cmd' = [cmd EXCEPT ![p] = d] /\ lock' = (IF name \in Locked THEN p ELSE lock) /\ done' = "nothing"
    BY <1>2, <1>6
  <2> HIDE DEF d
  <2>3. PICK c : c = d
    OBVIOUS
  <2>4. Path(c) /\ ~Asks(c)
    BY <1>3, <2>1, <2>3 DEF Path, FetchAt, Asks, NameType, Locked, Fetching
  <2>5. cmd' \in [Proc -> CmdType] /\ cmd'[p] = c /\ \A q \in Proc \ {p} : cmd'[q] = cmd[q]
    BY <2>1, <2>2, <2>3 DEF Structure, Types
  <2>6. Types'
    BY <1>1, <1>3, <2>2, <2>5, Fixed DEF Structure, Types
  <2>7. Locks'
    <3>1. ASSUME NEW q \in Proc PROVE Path(cmd'[q])
      BY <2>4, <2>5 DEF Structure, Locks
    <3>2. ASSUME NEW q \in Proc PROVE cmd'[q].name \in Locked <=> lock' = q
      <4>1. CASE name \in Locked
        <5>1. cmd[q].name \notin Locked
          BY <1>2, <4>1, ProcAssumption DEF Structure, Locks
        <5>2. QED
          BY <2>1, <2>2, <2>3, <2>5, <4>1, <5>1
      <4>2. CASE name \notin Locked
        <5>1. cmd[q].name \in Locked <=> lock = q
          BY DEF Structure, Locks
        <5>2. cmd[p].name \notin Locked
          BY <1>1 DEF Locked
        <5>3. QED
          BY <2>1, <2>2, <2>3, <2>5, <4>2, <5>1, <5>2
      <4>3. QED
        BY <4>1, <4>2
    <3>3. QED
      BY <3>1, <3>2 DEF Locks
  <2>8. Alone'
    <3>1. ASSUME ~loose', NEW q \in Proc, NEW r \in Proc, UsesCache(cmd'[q].name), UsesCache(cmd'[r].name)
          PROVE  q = r
      <4>1. ~loose /\ (UsesCache(name) => \A s \in Proc : ~UsesCache(cmd[s].name))
        BY <1>2, <3>1
      <4>2. CASE UsesCache(name)
        BY <2>5, <3>1, <4>1, <4>2
      <4>3. CASE ~UsesCache(name)
        BY <2>1, <2>3, <2>5, <3>1, <4>1, <4>3 DEF Structure, Alone
      <4>4. QED
        BY <4>2, <4>3
    <3>2. QED
      BY <3>1 DEF Alone
  <2>9. Levels'
    BY <1>1, <1>4, <2>4, <2>5 DEF Structure, Levels
  <2>10. Present'
    <3>1. ASSUME NEW q \in Proc PROVE cmd'[q].name = "uninstall" => ~had'
      BY <1>2, <1>3, <2>1, <2>3, <2>5 DEF Present
    <3>2. ASSUME NEW q \in Proc PROVE cmd'[q].at \in {"render", "try", "backup", "place"} => cmd'[q].got # None
      BY <2>1, <2>3, <2>5 DEF Present
    <3>3. QED
      BY <1>1, <1>3, <3>1, <3>2 DEF Present, BinaryOrBackup
  <2>11. Clean'
    <3>1. ASSUME ~loose' PROVE Holding(p)'
      <4>1. c.at = "remove" => Parts \ c.left = {}
        BY <2>1, <2>3 DEF Parts
      <4>2. c.at = "remove" => Removed(Parts \ c.left)'
        BY <4>1 DEF Removed
      <4>3. QED
        BY <2>1, <2>3, <2>5, <4>2 DEF Holding
    <3>2. ASSUME ~loose', NEW q \in Proc, q # p PROVE Holding(q)'
      <4>1. Holding(q) /\ cmd'[q] = cmd[q]
        BY <1>3, <2>5, <3>2 DEF Clean
      <4>2. cmd[q].at = "remove" => stuck' = stuck
        <5>1. ASSUME cmd[q].at = "remove" PROVE name # "uninstall"
          BY <1>2, <5>1, ProcAssumption DEF Structure, Locks, Path, Locked
        <5>2. QED
          BY <1>2, <5>1
      <4>3. cmd[q].at = "remove" => Removed(Parts \ cmd[q].left)'
        BY <1>1, <4>1, <4>2, Fixed DEF Holding, Removed
      <4>4. QED
        BY <1>1, <1>4, <4>1, <4>3, Fixed DEF Holding, Prepared, Accepts
    <3>3. ASSUME ~loose' PROVE Orphans'
      <4>1. \A n : Watched(n) => Watched(n)'
        BY <1>1, <1>4, <2>5 DEF Watched
      <4>2. Orphans
        BY <1>3, <3>3 DEF Clean
      <4>3. QED
        BY <1>1, <1>4, <4>1, <4>2 DEF Orphans
    <3>4. QED
      BY <1>1, <1>3, <1>4, <3>1, <3>2, <3>3 DEF Clean
  <2>12. Ends'
    BY <2>2 DEF Ends, Quiet, UninstallClears, CheckedPair, Promising
  <2>13. QED
    BY <2>6, <2>7, <2>8, <2>9, <2>10, <2>11, <2>12 DEF Structure
<1>7. QED
  BY <1>5, <1>6

\* Kill: of an archive under verification either it is noted, or its ETag is older.
LEMMA StepKill == ASSUME InstallInv, NEW p \in Proc, Kill(p) PROVE InstallInv'
<1>1. /\ cmd[p].name # "idle" /\ cmd[p] \in CmdType /\ Path(cmd[p])
      /\ cmd' = [cmd EXCEPT ![p] = Idle] /\ done' = "nothing"
      /\ lock' = (IF Idle.name = "idle" /\ lock = p THEN "none" ELSE lock)
      /\ loose' = (loose \/ Unverified(p)) /\ UNCHANGED <<fixed, latest, cache, bin, bak, conf, saved, had, stuck>>
  BY AtRest DEF Kill, files, InstallInv, Structure, Types, Locks
<1>2. loose' \in BOOLEAN /\ (loose => loose') /\ BinaryOrBackup' /\ "nothing" \notin Promising
  BY <1>1, FilesType DEF BinaryOrBackup, Promising
<1>3. CASE cmd[p].name = "start"
  <2>1. loose' = loose
    BY <1>1, <1>3, FilesType DEF Path, FetchAt, Fetching, Unverified
  <2>2. QED
    BY <1>1, <1>2, <1>3, <2>1, StartEnds, AtRest, Started, FilesType
<1>4. CASE cmd[p].name # "start"
  <2>1. UsesCache(cmd[p].name)
    BY <1>1, <1>4 DEF CmdType, NameType, Locked, UsesCache, Fetching
  <2>2. cmd'[p] = Idle
    BY <1>1 DEF InstallInv, Structure, Types
  <2>3. Holding(p)'
    BY <2>2, AtRest DEF Holding
  <2>4. ASSUME ~loose' PROVE Orphans' /\ ~Bad(bin)'
    <3>1. ~loose /\ ~Unverified(p) /\ Holding(p) /\ Orphans /\ ~Bad(bin)
      BY <1>1, <2>4 DEF InstallInv, Clean
    <3>2. ASSUME NEW m \in Ver, Bad(cache[m].file), Watched(m) PROVE cache[m].etag < cache[m].file.ver
      <4>1. PICK q \in Proc : cmd[q].at \in {"etag", "verify"} /\ Name(cmd[q].ver) = m
        BY <3>2 DEF Watched
      <4>2. UsesCache(cmd[q].name)
        BY <4>1, AtFetch DEF FetchAt
      <4>3. q = p
        BY <2>1, <3>1, <4>2 DEF InstallInv, Structure, Alone
      <4>4. /\ cache[m].etag <= cmd[p].ver /\ cache[m].etag # cmd[p].ver
            /\ cache[m].file.ver = cmd[p].ver
        BY <3>1, <4>1, <4>3 DEF Holding, Unverified
      <4>5. cache[m].etag \in Nat /\ cmd[p].ver \in Nat
        BY <1>1, CountAssumption, FilesType DEF Entry, CmdType
      <4>6. QED
        BY <4>4, <4>5
    <3>3. ~Bad(bin)' /\ Orphans'
      BY <1>1, <3>1, <3>2, Fixed DEF Bad, Orphans
    <3>4. QED
      BY <3>3
  <2>5. QED
    BY <1>1, <1>2, <2>1, <2>3, <2>4, AtRest, FilesType, Stepped DEF Asks
<1>5. QED
  BY <1>3, <1>4

\* Release: the newest release is newer than all there is.
LEMMA StepRelease == ASSUME InstallInv, Release PROVE InstallInv'
<1> USE DEF InstallInv
<1>1. /\ UNCHANGED <<fixed, cache, bin, bak, conf, saved, lock, cmd, done, had, loose, stuck>>
      /\ latest' = latest + 1 /\ latest \in Ver /\ latest' \in Ver
  BY CountAssumption DEF Release, files, hist, Ver, Structure, Types
<1>2. \A c : Bad(c)' <=> Bad(c)
  BY <1>1, Fixed DEF Bad
<1>3. ASSUME NEW n \in Ver PROVE Top(n)' \in Nat /\ Top(n) \in Nat /\ Top(n) <= Top(n)'
  BY <1>1, <1>3, Fixed, CountAssumption DEF Top, Offered, Ver
<1>4. Types'
  BY <1>1, Fixed DEF Structure, Types
<1>5. Locks' /\ Alone'
  BY <1>1 DEF Structure, Locks, Alone
<1>6. Levels'
  <2>1. ASSUME NEW n \in Ver PROVE cache'[n].etag <= Top(n)' /\ cache'[n].file.ver <= Top(n)'
    <3>1. cache[n].etag \in Nat /\ cache[n].file.ver \in Nat
      BY FilesType, CountAssumption DEF Entry, Content, Ver, None
    <3>2. cache[n].etag <= Top(n) /\ cache[n].file.ver <= Top(n)
      BY FilesType
    <3>3. QED
      BY <1>1, <1>3, <3>1, <3>2
  <2>2. ASSUME NEW q \in Proc, Asks(cmd[q]) PROVE cmd[q].ver \in Ver /\ cmd[q].ver <= Top(Name(cmd[q].ver))'
    <3>1. cmd[q].ver \in Ver /\ cmd[q].ver <= Top(Name(cmd[q].ver)) /\ Name(cmd[q].ver) \in Ver
      BY <2>2, Names DEF Structure, Levels
    <3>2. PICK n \in Ver : n = Name(cmd[q].ver)
      BY <3>1
    <3>3. Name(cmd[q].ver)' = n
      BY <1>1, <3>2, Fixed
    <3>4. Top(Name(cmd[q].ver))' = Top(n)'
      BY <3>3
    <3>5. cmd[q].ver \in Nat /\ cmd[q].ver <= Top(n)
      BY <3>1, <3>2, CountAssumption DEF Ver
    <3>6. QED
      BY <1>3, <3>1, <3>4, <3>5
  <2>3. QED
    BY <1>1, <2>1, <2>2 DEF Levels
<1>7. Present'
  BY <1>1 DEF Present, BinaryOrBackup
<1>8. Clean'
  <2>1. ASSUME ~loose, NEW q \in Proc PROVE Holding(q)'
    <3>1. Holding(q)
      BY <2>1 DEF Clean
    <3>2. QED
      BY <1>1, <1>2, <3>1, Fixed DEF Holding, Prepared, Accepts, Removed
  <2>2. \A n : Watched(n)' <=> Watched(n)
    BY <1>1, Fixed DEF Watched
  <2>3. QED
    BY <1>1, <1>2, <2>1, <2>2 DEF Clean, Orphans
<1>9. Ends'
  BY <1>1, Fixed DEF Ends, Quiet, UninstallClears, CheckedPair, Refuses, Accepts
<1>10. QED
  BY <1>4, <1>5, <1>6, <1>7, <1>8, <1>9 DEF Structure

-----------------------------------------------------------------------------
(* The invariant and the theorems.                                         *)

\* It holds of a router nothing is installed on.
LEMMA InvInit == Init => InstallInv
<1> SUFFICES ASSUME Init PROVE InstallInv
  OBVIOUS
<1>1. /\ kind \in Kinds /\ summed \in BOOLEAN /\ latest = 1
      /\ cache = [v \in Ver |-> [file |-> None, etag |-> 0]] /\ bin = None /\ bak = None
      /\ conf = "none" /\ saved = FALSE /\ lock = "none" /\ cmd = [p \in Proc |-> Idle]
      /\ done = "nothing" /\ had = FALSE /\ loose = FALSE /\ stuck = {}
  BY DEF Init
<1>2. \A p \in Proc : cmd[p] = Idle
  BY <1>1
<1>3. \A n \in Ver : cache[n] = [file |-> None, etag |-> 0]
  BY <1>1
<1>4. None.ver = 0 /\ None.damage = "none" /\ 0 \in 0..MaxVer /\ 1 \in Ver
  BY CountAssumption DEF None, Ver
<1>5. Types
  <2>1. [file |-> None, etag |-> 0] \in Entry
    BY <1>4, AtRest DEF Entry
  <2>2. cache \in [Ver -> Entry] /\ cmd \in [Proc -> CmdType]
    BY <1>1, <2>1, AtRest
  <2>3. QED
    BY <1>1, <1>4, <2>2, AtRest DEF Types
<1>6. Locks
  <2>1. Idle.name \notin Locked
    BY AtRest DEF Locked
  <2>2. QED
    BY <1>1, <1>2, <2>1, AtRest, ProcAssumption DEF Locks
<1>7. Alone
  BY <1>2, AtRest DEF Alone, UsesCache, Fetching
<1>8. Levels
  <2>1. \A n \in Ver : Top(n) \in Nat
    BY <1>5, Names, CountAssumption DEF Top, Ver
  <2>2. QED
    BY <1>2, <1>3, <1>4, <2>1, AtRest DEF Levels, Asks
<1>9. Present
  BY <1>1, <1>2, AtRest DEF Present, BinaryOrBackup
<1>10. Clean
  BY <1>1, <1>2, <1>3, <1>4, AtRest DEF Clean, Holding, Orphans, Bad
<1>11. Ends
  BY <1>1 DEF Ends, Quiet, UninstallClears, CheckedPair, Promising
<1>12. QED
  BY <1>5, <1>6, <1>7, <1>8, <1>9, <1>10, <1>11 DEF InstallInv, Structure

\* Every step preserves it.
LEMMA InvNext == InstallInv /\ [Next]_vars => InstallInv'
<1> SUFFICES ASSUME InstallInv, [Next]_vars PROVE InstallInv'
  OBVIOUS
<1>1. CASE UNCHANGED vars
  <2>1. /\ UNCHANGED <<fixed, latest, cache, bin, bak, conf, saved, lock, cmd, done, had, loose, stuck>>
    BY <1>1 DEF vars, files, hist
  <2>2. QED
    BY <2>1, Fixed DEF InstallInv, Structure, Types, Locks, Alone, Levels, Top, Offered, Present, BinaryOrBackup, Clean,
       Holding, Removed, Prepared, Accepts, Bad, Orphans, Watched, Ends, Quiet, UninstallClears, CheckedPair, Refuses
<1>2. CASE Release
  BY <1>2, StepRelease
<1>3. ASSUME NEW p \in Proc, Begin(p) \/ Kill(p) PROVE InstallInv'
  BY <1>3, StepBegin, StepKill
<1>4. ASSUME NEW p \in Proc, Fetch(p) PROVE InstallInv'
  BY <1>4, StepFindRelease, StepMirrors, StepNotModified, StepDeliver, StepSaveETag, StepVerify, StepVerifyFails DEF Fetch
<1>5. ASSUME NEW p \in Proc, Replace(p) PROVE InstallInv'
  BY <1>5, StepSaveState, StepOpen, StepRender, StepTry, StepBackup, StepPlace, StepPlaceFails, StepCheck, StepCheckFails
  DEF Replace
<1>6. ASSUME NEW p \in Proc, Compare(p) \/ Remove(p) PROVE InstallInv'
  BY <1>6, StepCompare, StepRemove
<1>7. QED
  BY <1>1, <1>2, <1>3, <1>4, <1>5, <1>6 DEF Next

\* The inductive invariant, for any number of commands, releases, mirrors and faults.
THEOREM Invariant == Spec => []InstallInv
BY InvInit, InvNext, PTL DEF Spec

\* Every variable has its type, the main lock is held by the command that takes
\* it (withLockMode), and a command is somewhere if and only if it runs.
THEOREM TypeCorrect == Spec => []TypeOK
<1>1. InstallInv => TypeOK
  <2> SUFFICES ASSUME InstallInv PROVE TypeOK
    OBVIOUS
  <2>1. Types /\ Locks
    BY DEF InstallInv, Structure
  <2>2. QED
    BY <2>1 DEF TypeOK, Types, Locks, Path, Entry, Parts
<1>2. QED
  BY <1>1, Invariant, PTL

\* BackupAndReplaceFromReader renames the binary to the backup before it renames
\* the new one into its place, so wherever a command fails or is killed, and
\* whichever run at once, the one or the other is there until --uninstall.
THEOREM NeverWithoutBinary == Spec => []BinaryOrBackup
<1>1. InstallInv => BinaryOrBackup
  BY DEF InstallInv, Present
<1>2. QED
  BY <1>1, Invariant, PTL

\* Fetch verifies what it downloads, removes what it refuses, and believes a 304
\* only of an archive whose ETag it has: what is not excepted by loose is
\* installed verified, whatever fails how often.
THEOREM VerifiedOnly == Spec => []OnlyVerified
<1>1. InstallInv => OnlyVerified
  BY DEF InstallInv, Structure, Types, Clean, Bad, OnlyVerified
<1>2. QED
  BY <1>1, Invariant, PTL

\* doUninstall goes on after every removal that fails, and each of its parts is
\* removed on its own: whichever fail, everything else is gone when it reports
\* that it is through, and with sing-box the next --install then finds nothing to
\* refuse unless binary or configuration is what could not be removed.
THEOREM UninstallLeavesNothing == Spec => []UninstallClears
<1>1. InstallInv => UninstallClears
  BY DEF InstallInv, Ends
<1>2. QED
  BY <1>1, Invariant, PTL

\* PrepareAndValidate before the replacement (sing-box) and CheckConfig after it
\* (xray, mihomo) see the very pair of binary and configuration that remains when
\* the command reports success.
THEOREM SuccessIsChecked == Spec => []CheckedPair
<1>1. InstallInv => CheckedPair
  BY DEF InstallInv, Ends
<1>2. QED
  BY <1>1, Invariant, PTL
=============================================================================
