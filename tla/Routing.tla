------------------------------ MODULE Routing ------------------------------
(***************************************************************************)
(* routing.json and the ways it changes: the handlers of the routing       *)
(* editor (internal/web/routingui_*.go), --install --preset, the bootstrap *)
(* from state.json, the migration a render makes; and the way from it to   *)
(* the running core: /api/apply and --restart.  The document is loaded,    *)
(* changed in memory and saved without any lock; only the commands and     *)
(* the restart of /api/apply take the main lock.                           *)
(***************************************************************************)
EXTENDS Render

CONSTANTS Procs,       \* requests and commands that run at the same time
          NewRules,    \* rules a user may type
          NewTags,     \* outbounds a user may add
          NewSets,     \* rule_sets a user may add
          Starts,      \* pairs of routing.json and state.json = [outs, inbound, core]
          MaxRules,    \* bound on the length of the rule list
          MaxEdits, MaxRuns, MaxEvents,  \* bounds on edits, on applies and commands, on events
          MaxAll       \* bound on all of them together

VARIABLES file,     \* routing.json: a document, None or Corrupt
          ver,      \* how often it was written
          st,       \* state.json
          dat,      \* geosite.dat and geoip.dat were downloaded
          config,   \* configuration file of each core
          run,      \* configuration the running core started with
          lock,     \* holder of the main lock
          req,      \* request or command each process is at
          left,     \* edits, runs and events that remain
          applied,  \* newest document an apply or restart reported as running
          gaveUp    \* an apply wrote a configuration and ended before its restart
vars == <<file, ver, st, dat, config, run, lock, req, left, applied, gaveUp>>

Corrupt == [corrupt |-> TRUE]
NoLock == "free"
Idle == [op |-> "none", at |-> "idle", doc |-> None, ver |-> 0, core |-> "none", rp |-> None]
IsDocument(d) == DOMAIN d = DOMAIN Empty

ASSUME LockAssumption == NoLock \notin Procs
ASSUME StartsAssumption ==
  \A s \in Starts : /\ s[1] \in {None, Corrupt} \/ (IsDocument(s[1]) /\ Valid(s[1]))
                    /\ DOMAIN s[2] = {"outs", "inbound", "core"} /\ s[2].core \in Cores

Init ==
  /\ \E s \in Starts : file = s[1] /\ st = s[2]
  /\ dat = FALSE
  /\ ver = 0 /\ applied = 0 /\ gaveUp = FALSE /\ run = None /\ lock = NoLock
  /\ config = [c \in Cores |-> None]
  /\ req = [p \in Procs |-> Idle]
  /\ left = [edits |-> MaxEdits, runs |-> MaxRuns, events |-> MaxEvents, all |-> MaxAll]

Goto(p, at) == req' = [req EXCEPT ![p].at = at]
Spend(what) ==
  /\ left[what] > 0 /\ left.all > 0
  /\ left' = [left EXCEPT ![what] = @ - 1, !.all = @ - 1]

(* The request ends; a command gives the lock back. *)
Finish(p) ==
  /\ req' = [req EXCEPT ![p] = Idle]
  /\ lock' = IF lock = p THEN NoLock ELSE lock
  /\ gaveUp' = (gaveUp \/ (req[p].op = "apply" /\ lock # p /\ req[p].at \in {"check", "lock"}))

Written(d) == file' = d /\ ver' = ver + 1

-----------------------------------------------------------------------------
(* Handlers of the routing editor                                          *)

(* loadRoutingConfig: a file that is missing or does not load is an empty document. *)
Loaded == IF file \in {None, Corrupt} THEN Empty ELSE file

(* Load and change in memory; Save follows.  What a handler refuses (404,  *)
(* 409, 400) changes nothing and is left out.                              *)
Edit(p, op, d) ==
  /\ req[p].at = "idle"
  /\ Spend("edits")
  /\ req' = [req EXCEPT ![p] = [Idle EXCEPT !.op = op, !.at = "save", !.doc = d]]
  /\ UNCHANGED <<file, ver, st, dat, config, run, lock, applied, gaveUp>>

RulesAdd(p) ==
  \E r \in NewRules :
    /\ ValidRule(r) /\ Len(Loaded.rules) < MaxRules
    /\ Edit(p, "rules_add", [Loaded EXCEPT !.rules = Append(@, r)])
RulesUpdate(p) ==
  \E i \in DOMAIN Loaded.rules, r \in NewRules :
    ValidRule(r) /\ Edit(p, "rules_update", [Loaded EXCEPT !.rules[i] = r])
RulesDelete(p) ==
  \E i \in DOMAIN Loaded.rules :
    Edit(p, "rules_delete", [Loaded EXCEPT !.rules = RemoveAt(@, i)])
RulesReorder(p) ==
  \E from, to \in DOMAIN Loaded.rules :
    /\ from # to
    /\ LET rules == Loaded.rules
           at    == IF to > from THEN to - 1 ELSE to
       IN  Edit(p, "rules_reorder",
                [Loaded EXCEPT !.rules = InsertAt(RemoveAt(rules, from), at, rules[from])])

(* crudAdd, crudUpdate and crudDelete of a list whose elements tagOf names; *)
(* an update may change the tag.                                           *)
Own == [x \in STRING |-> x]
TagOf == [x \in [tag : STRING, fmt : STRING] |-> x.tag]
HasTag(s, tag, tagOf) == \E x \in ToSet(s) : tagOf[x] = tag
CrudAdd(s, x, tagOf) == IF HasTag(s, tagOf[x], tagOf) THEN {} ELSE {Append(s, x)}
CrudUpdate(s, tag, x, tagOf) ==
  IF HasTag(s, tag, tagOf) THEN {[i \in DOMAIN s |-> IF tagOf[s[i]] = tag THEN x ELSE s[i]]}
  ELSE {}
CrudDelete(s, tag, tagOf) ==
  IF HasTag(s, tag, tagOf) THEN {SelectSeq(s, LAMBDA x : tagOf[x] # tag)} ELSE {}

Inbounds(p) ==
  \E t, u \in {"tun", "mixed"} :
    \E s \in CrudAdd(Loaded.inbs, t, Own) \cup CrudUpdate(Loaded.inbs, t, u, Own)
               \cup CrudDelete(Loaded.inbs, t, Own) :
      Edit(p, "inbounds", [Loaded EXCEPT !.inbs = s])
Outbounds(p) ==
  \E t, u \in NewTags :
    \E s \in CrudAdd(Loaded.outs, t, Own) \cup CrudUpdate(Loaded.outs, t, u, Own)
               \cup CrudDelete(Loaded.outs, t, Own) :
      Edit(p, "outbounds", [Loaded EXCEPT !.outs = s])
RuleSets(p) ==
  \E x \in NewSets :
    \E s \in CrudAdd(Loaded.sets, x, TagOf) \cup CrudDelete(Loaded.sets, x.tag, TagOf) :
      Edit(p, "rule_sets", [Loaded EXCEPT !.sets = s])
FinalSet(p) ==
  \E t \in {""} \cup Service \cup NewTags : Edit(p, "final", [Loaded EXCEPT !.final = t])

(* DefaultOutboundTag of the editor's callbacks. *)
VPNTag == IF st.outs = <<>> THEN "direct" ELSE Head(st.outs)

PresetsApply(p) ==
  \E name \in DOMAIN BuiltinPresets :
    Edit(p, "preset_add", ApplyToConfig(Loaded, BuiltinPresets[name], VPNTag, st.core, "add"))

(* Preview works on a copy and writes nothing; the editor keeps the result *)
(* as its draft until the operator saves it with PUT /api/routing.         *)
PresetsPreview(p) ==
  /\ req[p].at = "idle"
  /\ Spend("edits")
  /\ \E name \in DOMAIN BuiltinPresets, mode \in {"add", "replace"} :
       req' = [req EXCEPT ![p] = [Idle EXCEPT !.op = "commit", !.at = "draft",
                 !.doc = ApplyToConfig(Loaded, BuiltinPresets[name], VPNTag, st.core, mode)]]
  /\ UNCHANGED <<file, ver, st, dat, config, run, lock, applied, gaveUp>>
RoutingCommit(p) ==
  /\ req[p].at = "draft"
  /\ LET draft == req[p].doc
     IN  req' = [req EXCEPT ![p].at = "save",
                   ![p].doc = [Loaded EXCEPT !.rules = draft.rules, !.sets = draft.sets,
                                             !.final = draft.final]]
  /\ UNCHANGED <<file, ver, st, dat, config, run, lock, left, applied, gaveUp>>

(* routing.Save: refused if the document is not valid, else one atomic write. *)
RefusesOnlyTwins(d) == ~(IsInjective(d.inbs) /\ IsInjective(d.outs))
Refuses(d) == ~Valid(d)
Save(p) ==
  /\ req[p].at = "save"
  /\ IF Refuses(req[p].doc) THEN Finish(p) /\ UNCHANGED <<file, ver>>
     ELSE /\ Written(req[p].doc)
          /\ IF req[p].op \in {"apply", "install"}
             THEN /\ req' = [req EXCEPT ![p].at = "read", ![p].ver = ver']
                  /\ UNCHANGED <<lock, gaveUp>>
             ELSE Finish(p)
  /\ UNCHANGED <<st, dat, config, run, left, applied>>

-----------------------------------------------------------------------------
(* Commands and /api/apply                                                 *)

Apply(p) ==
  /\ req[p].at = "idle"
  /\ Spend("runs")
  /\ req' = [req EXCEPT ![p] = [Idle EXCEPT !.op = "apply", !.at = "save", !.doc = Loaded]]
  /\ UNCHANGED <<file, ver, st, dat, config, run, lock, applied, gaveUp>>

(* --restart, --install --preset, and --ui on, which bootstraps only. *)
Command(p) ==
  /\ req[p].at = "idle"
  /\ Spend("runs")
  /\ \E op \in {"restart", "install", "ui"} :
       req' = [req EXCEPT ![p] = [Idle EXCEPT !.op = op, !.at = IF op = "ui" THEN "boot" ELSE "lock"]]
  /\ UNCHANGED <<file, ver, st, dat, config, run, lock, applied, gaveUp>>

(* withLock; a restart stops the core first.  Who waits may be cancelled:  *)
(* the client disconnects, the operator interrupts.                        *)
TakeLockAsRendered(p) ==
  /\ req[p].at = "lock"
  /\ lock = NoLock
  /\ lock' = p
  /\ IF req[p].op = "install" THEN Goto(p, "boot") /\ UNCHANGED run
     ELSE Goto(p, IF req[p].op = "apply" THEN "start" ELSE "read") /\ run' = None
  /\ UNCHANGED <<file, ver, st, dat, config, left, applied, gaveUp>>
TakeLock(p) ==
  /\ req[p].at = "lock"
  /\ lock = NoLock
  /\ lock' = p
  /\ IF req[p].op = "install" THEN Goto(p, "boot") /\ UNCHANGED run
     ELSE Goto(p, "read") /\ run' = None
  /\ UNCHANGED <<file, ver, st, dat, config, left, applied, gaveUp>>
GiveUp(p) ==
  /\ req[p].at = "lock"
  /\ lock # NoLock
  /\ Finish(p)
  /\ UNCHANGED <<file, ver, st, dat, config, run, left, applied>>

(* The document made from state.json goes through Save, which may refuse  *)
(* it: an install fails on that, the editor starts without the file.       *)
FirstTag(outs) == IF outs = <<>> THEN "" ELSE Head(outs)
FromState == [Empty EXCEPT !.inbs = <<"tun">>, !.outs = st.outs, !.final = FirstTag(st.outs)]
BootstrapFromState(p) ==
  /\ req[p].at = "boot"
  /\ IF file # None \/ Refuses(FromState) THEN UNCHANGED <<file, ver>> ELSE Written(FromState)
  /\ IF req[p].op = "ui" \/ (file = None /\ Refuses(FromState)) THEN Finish(p)
     ELSE Goto(p, "preset") /\ UNCHANGED <<lock, gaveUp>>
  /\ UNCHANGED <<st, dat, config, run, left, applied>>

(* applyInstallPreset: a preset that needs a VPN is refused before the     *)
(* bootstrap; unlike the editor it fails on a file that does not load.     *)
LacksVPN(preset) == UsesVPN(preset) /\ VPNTag = "direct"
RefusePreset(p) ==
  /\ req[p].at = "boot" /\ req[p].op = "install"
  /\ \E name \in DOMAIN BuiltinPresets : LacksVPN(BuiltinPresets[name])
  /\ Finish(p)
  /\ UNCHANGED <<file, ver, st, dat, config, run, left, applied>>
InstallPreset(p) ==
  /\ req[p].at = "preset"
  /\ \E name \in DOMAIN BuiltinPresets :
       LET preset == BuiltinPresets[name]
       IN  /\ ~LacksVPN(preset)
           /\ IF file \in {None, Corrupt} THEN Finish(p)
              ELSE /\ req' = [req EXCEPT ![p].at = "save",
                        ![p].doc = ApplyToConfig(file, preset, VPNTag, st.core, "replace")]
                   /\ UNCHANGED <<lock, gaveUp>>
  /\ UNCHANGED <<file, ver, st, dat, config, run, left, applied>>

(* loadAndFilterRouting and coreRenderParamsFromState: a file that does not load counts as   *)
(* none; in TPROXY mode TUN inbounds are taken out and the document saved.                   *)
DropsLoneTun(d) == st.inbound = "tproxy" /\ d # None /\ d.inbs = <<"tun">>
DropsTun(d) == st.inbound = "tproxy" /\ d # None /\ HasTag(d.inbs, "tun", Own)
WithoutTun(d) == [d EXCEPT !.inbs = SelectSeq(@, LAMBDA t : t # "tun")]
DefaultTag(rc) ==
  IF st.outs # <<>> \/ rc = None THEN FirstTag(st.outs) ELSE FirstTag(rc.outs)
Read(p) ==
  /\ req[p].at = "read"
  /\ LET d    == IF file = Corrupt THEN None ELSE file
         drop == DropsTun(d)
         rc   == IF drop THEN WithoutTun(d) ELSE d
     IN  req' = [req EXCEPT ![p].at = IF drop THEN "migrate" ELSE "write", ![p].core = st.core,
                   ![p].rp = [outs |-> st.outs, rc |-> rc, inbound |-> st.inbound,
                              dflt |-> DefaultTag(rc), ver |-> ver],
                   ![p].ver = IF req[p].op = "restart" THEN ver ELSE @]
  /\ UNCHANGED <<file, ver, st, dat, config, run, lock, left, applied, gaveUp>>
Migrate(p) ==
  /\ req[p].at = "migrate"
  /\ IF Refuses(req[p].rp.rc) THEN UNCHANGED <<file, ver>> ELSE Written(req[p].rp.rc)
  /\ Goto(p, "write")
  /\ UNCHANGED <<st, dat, config, run, lock, left, applied, gaveUp>>

(* After the configuration: apply waits for the lock and restarts, a restart starts. *)
ContinueUnlocked(p) ==
  IF req[p].op = "install" THEN Finish(p) ELSE Goto(p, "start") /\ UNCHANGED <<lock, gaveUp>>
Continue(p) ==
  IF req[p].op = "install" THEN Finish(p)
  ELSE Goto(p, IF lock = p THEN "start" ELSE "lock") /\ UNCHANGED <<lock, gaveUp>>

SameText(a, b) == b # None /\ RenderConfig(a) = RenderConfig(b)

(* ensureConfigFreshForCore: render, compare with the file, write, check. *)
Write(p) ==
  /\ req[p].at = "write"
  /\ LET c == req[p].core
         f == [core |-> c, rp |-> req[p].rp, dat |-> dat]
     IN  IF RenderConfig(f) = None THEN Finish(p) /\ UNCHANGED config
         ELSE /\ config' = [config EXCEPT ![c] =
                              IF SameText(f, @) /\ @.rp.ver > f.rp.ver THEN @ ELSE f]
              /\ IF SameText(f, config[c]) THEN Continue(p)
                 ELSE Goto(p, "check") /\ UNCHANGED <<lock, gaveUp>>
  /\ UNCHANGED <<file, ver, st, dat, run, left, applied>>
Check(p) ==
  /\ req[p].at = "check"
  /\ IF Accepts(config[req[p].core]) THEN Continue(p) ELSE Finish(p)
  /\ UNCHANGED <<file, ver, st, dat, config, run, left, applied>>

(* The core starts with the file as it is by now and fails on one it does not accept. *)
Start(p) ==
  /\ req[p].at = "start"
  /\ LET cfg == config[req[p].core]
     IN  IF Accepts(cfg)
         THEN run' = cfg /\ applied' = IF req[p].ver > applied THEN req[p].ver ELSE applied
         ELSE run' = None /\ UNCHANGED applied
  /\ Finish(p)
  /\ UNCHANGED <<file, ver, st, dat, config, left>>

-----------------------------------------------------------------------------
(* Events: --core, --update-geo, a slip of the editor's  *)
(* hand in routing.json.                                                   *)

SwitchCore ==
  /\ Spend("events")
  /\ \E c \in Cores \ {st.core} : st' = [st EXCEPT !.core = c]
  /\ UNCHANGED <<file, ver, dat, config, run, lock, req, applied, gaveUp>>
UpdateGeo ==
  /\ ~dat /\ Spend("events")
  /\ dat' = TRUE
  /\ UNCHANGED <<file, ver, st, config, run, lock, req, applied, gaveUp>>
HandEdit ==
  /\ Spend("events")
  /\ Written(Corrupt)
  /\ UNCHANGED <<st, dat, config, run, lock, req, applied, gaveUp>>

Next ==
  \/ \E p \in Procs :
       \/ RulesAdd(p) \/ RulesUpdate(p) \/ RulesDelete(p) \/ RulesReorder(p)
       \/ Inbounds(p) \/ Outbounds(p) \/ RuleSets(p) \/ FinalSet(p)
       \/ PresetsApply(p) \/ PresetsPreview(p) \/ RoutingCommit(p)
       \/ Save(p) \/ Apply(p) \/ Command(p) \/ TakeLock(p) \/ GiveUp(p)
       \/ BootstrapFromState(p) \/ RefusePreset(p) \/ InstallPreset(p) \/ Read(p) \/ Migrate(p)
       \/ Write(p) \/ Check(p) \/ Start(p)
  \/ SwitchCore \/ UpdateGeo \/ HandEdit

Spec == Init /\ [][Next]_vars

-----------------------------------------------------------------------------
(* Properties                                                              *)

(* Types, and the discipline of the lock: only what restarts a core or     *)
(* applies a preset at install holds it, and from there to its end.        *)
TypeOK ==
  /\ file \in {None, Corrupt} \/ IsDocument(file)
  /\ run = None \/ run.core \in Cores
  /\ \A c \in Cores : config[c] = None \/ config[c].core = c
  /\ lock \in Procs \cup {NoLock}
  /\ \A p \in Procs :
       /\ req[p].at \in {"idle", "save", "draft", "lock", "boot", "preset",
                         "read", "migrate", "write", "check", "start"}
       /\ lock = p => req[p].op \in {"apply", "restart", "install"}
       /\ req[p].at = "start" => lock = p
       /\ req[p].at \in {"migrate", "write"} => req[p].rp # None

(* What the program wrote to routing.json it reads back: no handler,       *)
(* preset, bootstrap or migration leaves a document that Load refuses,     *)
(* which the editor would take for an empty one.                           *)
SavedFileLoads == file \in {None, Corrupt} \/ Valid(file)

(* When nothing is under way, a running core was started with a            *)
(* configuration no older than the newest document that an apply or a      *)
(* restart reported as running, whatever requests overlapped with it,      *)
(* unless an apply was cancelled between its write and its restart.        *)
SettledCoreIsCurrent ==
  (run # None /\ ~gaveUp /\ \A p \in Procs : req[p].at = "idle") => run.rp.ver >= applied

(* A configuration sends every packet where the document it was rendered   *)
(* from says, by an outbound the configuration has, if the core can        *)
(* express the rules of the document and its outbounds do not repeat       *)
(* direct or block, which the renderers supply.                            *)
WrittenConfigRoutesAsDocument ==
  [][\A c \in Cores : config'[c] # config[c] => RoutesAsDocument(config'[c])]_vars

(* In TPROXY mode no core is given a TUN inbound, whatever routing.json    *)
(* has or a request that overlapped put back; base rules name an inbound   *)
(* the configuration has.                                                  *)
InboundsFitMode ==
  [][\A c \in Cores : config'[c] # config[c] =>
       LET cfg == RenderConfig(config'[c])
       IN  /\ config'[c].rp.inbound = "tproxy" => "tun" \notin ToSet(cfg.inbs)
           /\ cfg.base \in ToSet(cfg.inbs)]_vars

(* A preset that is added changes nothing for a packet that an earlier     *)
(* rule of the operator catches, nor an explicit final outbound.           *)
AddedPresetYields ==
  [][\A p \in Procs :
       (req[p].at = "idle" /\ req'[p].op = "preset_add" /\ req'[p].at = "save") =>
         LET old == Loaded
             new == req'[p].doc
         IN  /\ old.final # "" => new.final = old.final
             /\ \A q \in Packets :
                  (\E l \in ToSet(SingBoxLines(old.rules)) : q \in l.pkts) =>
                    Wanted(new, VPNTag)[q] = Wanted(old, VPNTag)[q]]_vars

(* Preset block-bogon-udp blocks NetBIOS over UDP and nothing else, on     *)
(* every core.                                                             *)
BogonPresetSparesOthers ==
  \A c \in Cores :
    LET rp    == config[c].rp
        cfg   == RenderConfig(config[c])
        bogon == BuiltinPresets["block-bogon-udp"].rules
    IN  (config[c] # None /\ rp.rc # None /\ rp.rc.rules = bogon /\ rp.rc.final # "block") =>
          \A q \in Packets : Verdict(cfg.lines, cfg.rest, q) \in {"block", "REJECT"}
                               => q \in Covers("netbios")
=============================================================================
