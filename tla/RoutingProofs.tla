--------------------------- MODULE RoutingProofs ---------------------------
(***************************************************************************)
(* Theorems about Routing: the discipline of the lock, that a saved        *)
(* document loads, and that a settled core runs what was applied last,     *)
(* for any number of requests.                                             *)
(***************************************************************************)
EXTENDS Routing, TLAPS

AtType == {"idle", "save", "draft", "lock", "boot", "preset",
           "read", "migrate", "write", "check", "start"}
Commands == {"apply", "restart", "install"}
Restarting == {"apply", "restart"}
Fields == {"op", "at", "doc", "ver", "core", "rp"}

Good(d) == IsDocument(d) /\ Valid(d)
IsConfig(f, c) == f.core = c /\ f.rp.ver \in Nat

Types ==
  /\ ver \in Nat /\ applied \in 0..ver
  /\ DOMAIN st = {"outs", "inbound", "core"} /\ st.core \in Cores
  /\ DOMAIN config = Cores
  /\ \A c \in Cores : config[c] = None \/ IsConfig(config[c], c)
  /\ run = None \/ \E c \in Cores : IsConfig(run, c)
  /\ lock \in Procs \cup {NoLock}
  /\ DOMAIN req = Procs
  /\ gaveUp \in BOOLEAN

\* What a request has in hand at each of its steps.
Request(r) ==
  /\ DOMAIN r = Fields /\ r.at \in AtType /\ r.ver \in Nat
  /\ r.at \in {"save", "draft"} => IsDocument(r.doc)
  /\ r.at = "migrate" => IsDocument(r.rp.rc)
  /\ r.at \in {"migrate", "write"} => r.rp # None /\ r.rp.ver \in Nat
  /\ r.at \in {"migrate", "write", "check", "start"} => r.core \in Cores
  /\ r.at \in {"lock", "read", "migrate", "write", "check", "start"} => r.op \in Commands
  /\ r.at = "boot" => r.op \in {"install", "ui"}
  /\ r.at = "preset" => r.op = "install"
  /\ r.at = "start" => r.op # "install"
  /\ r.at = "draft" => r.op = "commit"

\* Who holds the lock, and who may do without it.
Holder(p) ==
  /\ lock = p => req[p].op \in Commands /\ req[p].at \notin {"idle", "lock", "draft"}
  /\ req[p].op \in {"restart", "install"} /\ req[p].at \notin {"idle", "lock"} => lock = p
  /\ req[p].at = "start" => lock = p

\* An apply wrote its configuration and has not restarted the core yet, or
\* gave that up.
Pending(p) == req[p].op = "apply" /\ req[p].at \in {"check", "lock"} /\ lock # p
Behind == gaveUp \/ \E p \in Procs : Pending(p)

\* The configuration a restart under the lock has rendered or is about to
\* start is no older than what it will report.
Recent(rp, r) == rp.ver >= applied /\ rp.ver >= r.ver
Fresh(p) ==
  /\ req[p].ver <= ver
  /\ lock = p /\ req[p].op \in Restarting =>
       /\ req[p].at \in {"migrate", "write"} => Recent(req[p].rp, req[p])
       /\ req[p].at \in {"check", "start"} =>
            Behind \/ (config[req[p].core] # None /\ Recent(config[req[p].core].rp, req[p]))

Process(p) == Request(req[p]) /\ Holder(p) /\ Fresh(p)
Loads == file \in {None, Corrupt} \/ Good(file)
Settled == run # None => Behind \/ run.rp.ver >= applied

RoutingInv == Types /\ Loads /\ Settled /\ \A p \in Procs : Process(p)
-----------------------------------------------------------------------------
(* Steps of one request, seen from the others *)

\* Nobody but p moves, and p takes the lock from nobody.
OthersStay(p) ==
  /\ DOMAIN req' = Procs
  /\ \A q \in Procs \ {p} : req'[q] = req[q] /\ (lock' = q <=> lock = q)

\* An apply that leaves its wait does so with the lock, or gives up.
Remembers(p) ==
  /\ gaveUp' \in BOOLEAN /\ (gaveUp => gaveUp')
  /\ Pending(p) => Pending(p)' \/ gaveUp'

\* What is behind stays so while p does not take the lock.
LEMMA BehindStays ==
  ASSUME NEW p \in Procs, OthersStay(p), Remembers(p), Behind
  PROVE  Behind'
<1>1. CASE gaveUp
  BY <1>1 DEF Remembers, Behind
<1>2. CASE \E q \in Procs : Pending(q)
  <2>1. PICK q \in Procs : Pending(q)
    BY <1>2
  <2>2. CASE q = p
    BY <2>1, <2>2 DEF Remembers, Behind
  <2>3. CASE q # p
    <3>1. Pending(q)'
      BY <2>1, <2>3 DEF OthersStay, Pending
    <3> QED
      BY <3>1 DEF Behind
  <2> QED
    BY <2>2, <2>3
<1> QED
  BY <1>1, <1>2 DEF Behind

\* What a step of p may change for whoever holds the lock.
Spares(p) ==
  /\ ver \in Nat /\ ver' \in Nat /\ ver' >= ver
  /\ applied' = applied \/ lock = p
  /\ lock \in {p, NoLock} \/ Behind' \/ (config' = config /\ (Behind => Behind'))

\* A step of p keeps what the invariant says of the others.
LEMMA OthersKeep ==
  ASSUME NEW p \in Procs, NEW q \in Procs, q # p, Process(q), OthersStay(p), Spares(p)
  PROVE  Process(q)'
<1>1. req'[q] = req[q] /\ (lock' = q <=> lock = q)
  BY DEF OthersStay
<1>2. Request(req[q])'
  BY <1>1 DEF Process
<1>3. Holder(q)'
  BY <1>1 DEF Process, Holder
<1>4. req[q].ver \in Nat /\ req'[q].ver <= ver'
  BY <1>1 DEF Process, Request, Fresh, Spares
<1>5. ASSUME lock' = q, req'[q].op \in Restarting
      PROVE  /\ req'[q].at \in {"migrate", "write"} => Recent(req[q].rp, req[q])'
             /\ req'[q].at \in {"check", "start"} =>
                  Behind' \/ (config'[req'[q].core] # None /\ Recent(config[req[q].core].rp, req[q])')
  <2>1. lock = q /\ q # NoLock /\ applied' = applied
    BY <1>1, <1>5, LockAssumption DEF Spares
  <2>2. Behind' \/ (config' = config /\ (Behind => Behind'))
    BY <2>1 DEF Spares
  <2> QED
    BY <1>1, <1>5, <2>1, <2>2 DEF Process, Fresh, Recent
<1> QED
  BY <1>2, <1>3, <1>4, <1>5 DEF Process, Fresh

\* A step of p that leaves configurations and core alone keeps the invariant if
\* it leaves p itself and the file in order.
LEMMA Quiet ==
  ASSUME RoutingInv, NEW p \in Procs, OthersStay(p), Remembers(p), Process(p)', Loads',
         ver' \in Nat, ver' >= ver, lock' \in Procs \cup {NoLock},
         UNCHANGED <<st, config, run, applied>>
  PROVE  RoutingInv'
<1>1. Behind => Behind'
  BY BehindStays
<1>2. Spares(p)
  BY <1>1 DEF Spares, RoutingInv, Types
<1>3. \A q \in Procs : Process(q)'
  BY <1>2, OthersKeep DEF RoutingInv
<1>4. Types'
  <2>1. Types
    BY DEF RoutingInv
  <2>2. applied' \in 0..ver'
    BY <2>1 DEF Types
  <2>3. \A c \in Cores : config'[c] = None \/ IsConfig(config[c], c)'
    BY <2>1 DEF Types, IsConfig
  <2>4. run' = None \/ \E c \in Cores : IsConfig(run, c)'
    BY <2>1 DEF Types, IsConfig
  <2> QED
    BY <2>1, <2>2, <2>3, <2>4 DEF Types, OthersStay, Remembers
<1>5. Settled'
  BY <1>1 DEF RoutingInv, Settled
<1> QED
  BY <1>3, <1>4, <1>5 DEF RoutingInv

\* A request that ends.
LEMMA Finishing ==
  ASSUME RoutingInv, NEW p \in Procs, Finish(p), ver' \in Nat, ver' >= ver
  PROVE  /\ OthersStay(p) /\ Remembers(p) /\ Process(p)'
         /\ lock' \in Procs \cup {NoLock} /\ lock' # p
<1>1. DOMAIN req = Procs /\ lock \in Procs \cup {NoLock} /\ gaveUp \in BOOLEAN /\ ver \in Nat
  BY DEF RoutingInv, Types
<1>2. req'[p] = Idle /\ DOMAIN req' = Procs /\ \A q \in Procs \ {p} : req'[q] = req[q]
  BY <1>1 DEF Finish
<1>3. lock' # p /\ lock' \in Procs \cup {NoLock} /\ \A q \in Procs \ {p} : lock' = q <=> lock = q
  BY <1>1, LockAssumption DEF Finish
<1>4. OthersStay(p)
  BY <1>2, <1>3 DEF OthersStay
<1>5. Remembers(p)
  BY <1>1 DEF Finish, Remembers, Pending
<1>6. Request(Idle)
  BY DEF Request, Idle, Fields, AtType
<1>7. Idle.op = "none" /\ Idle.at = "idle" /\ Idle.ver = 0
  BY DEF Idle
<1>8. Process(p)'
  BY <1>1, <1>2, <1>3, <1>6, <1>7 DEF Process, Holder, Fresh
<1> QED
  BY <1>3, <1>4, <1>5, <1>8

\* A request whose record alone changes, and which was not waiting as Pending.
LEMMA Moving ==
  ASSUME RoutingInv, NEW p \in Procs, NEW r, req' = [req EXCEPT ![p] = r],
         UNCHANGED <<lock, gaveUp>>, ~Pending(p) \/ Pending(p)'
  PROVE  OthersStay(p) /\ Remembers(p) /\ req'[p] = r /\ lock' \in Procs \cup {NoLock}
<1>1. DOMAIN req = Procs /\ lock \in Procs \cup {NoLock} /\ gaveUp \in BOOLEAN
  BY DEF RoutingInv, Types
<1> QED
  BY <1>1 DEF OthersStay, Remembers
-----------------------------------------------------------------------------
(* The handlers of the editor *)

\* What a handler loads is a document.
LEMMA LoadedIsDocument ==
  ASSUME Loads
  PROVE  IsDocument(Loaded)
BY DEF Loads, Loaded, Good, IsDocument

\* Every request that edits keeps the document's fields and goes on to Save.
Editing(p) == \E op, d : op \notin Commands /\ IsDocument(d) /\ Edit(p, op, d)

Editor(p) ==
  \/ RulesAdd(p) \/ RulesUpdate(p) \/ RulesDelete(p) \/ RulesReorder(p)
  \/ Inbounds(p) \/ Outbounds(p) \/ RuleSets(p) \/ FinalSet(p) \/ PresetsApply(p)

\* Whatever is changed in a document, it stays one.
LEMMA StaysDocument ==
  ASSUME NEW d, IsDocument(d), NEW x, NEW y, NEW z, NEW i
  PROVE  /\ IsDocument([d EXCEPT !.rules = x]) /\ IsDocument([d EXCEPT !.rules[i] = x])
         /\ IsDocument([d EXCEPT !.inbs = x]) /\ IsDocument([d EXCEPT !.outs = x])
         /\ IsDocument([d EXCEPT !.sets = x]) /\ IsDocument([d EXCEPT !.final = x])
         /\ IsDocument([d EXCEPT !.rules = x, !.sets = y, !.final = z])
         /\ IsDocument([d EXCEPT !.inbs = x, !.outs = y, !.final = z])
BY DEF IsDocument

\* So does the one a preset is applied to.
LEMMA PresetKeepsDocument ==
  ASSUME NEW d, IsDocument(d), NEW preset, NEW vpn, NEW core, NEW mode
  PROVE  IsDocument(ApplyToConfig(d, preset, vpn, core, mode))
BY StaysDocument DEF ApplyToConfig

\* So the editor's requests are all of one form.
LEMMA EditorEdits ==
  ASSUME Loads, NEW p \in Procs, Editor(p)
  PROVE  Editing(p)
<1>1. IsDocument(Loaded)
  BY LoadedIsDocument
<1>2. CASE RulesAdd(p)
  <2>1. PICK r \in NewRules : Edit(p, "rules_add", [Loaded EXCEPT !.rules = Append(@, r)])
    BY <1>2 DEF RulesAdd
  <2> QED
    BY <1>1, <2>1, StaysDocument DEF Editing, Commands
<1>3. CASE RulesUpdate(p)
  <2>1. PICK i \in DOMAIN Loaded.rules, r \in NewRules :
          Edit(p, "rules_update", [Loaded EXCEPT !.rules[i] = r])
    BY <1>3 DEF RulesUpdate
  <2> QED
    BY <1>1, <2>1, StaysDocument DEF Editing, Commands
<1>4. CASE RulesDelete(p)
  <2>1. PICK i \in DOMAIN Loaded.rules :
          Edit(p, "rules_delete", [Loaded EXCEPT !.rules = RemoveAt(@, i)])
    BY <1>4 DEF RulesDelete
  <2> QED
    BY <1>1, <2>1, StaysDocument DEF Editing, Commands
<1>5. CASE RulesReorder(p)
  <2>1. \E x : Edit(p, "rules_reorder", [Loaded EXCEPT !.rules = x])
    BY <1>5 DEF RulesReorder
  <2> QED
    BY <1>1, <2>1, StaysDocument DEF Editing, Commands
<1>6. CASE Inbounds(p)
  <2>1. \E x : Edit(p, "inbounds", [Loaded EXCEPT !.inbs = x])
    BY <1>6 DEF Inbounds
  <2> QED
    BY <1>1, <2>1, StaysDocument DEF Editing, Commands
<1>7. CASE Outbounds(p)
  <2>1. \E x : Edit(p, "outbounds", [Loaded EXCEPT !.outs = x])
    BY <1>7 DEF Outbounds
  <2> QED
    BY <1>1, <2>1, StaysDocument DEF Editing, Commands
<1>8. CASE RuleSets(p)
  <2>1. \E x : Edit(p, "rule_sets", [Loaded EXCEPT !.sets = x])
    BY <1>8 DEF RuleSets
  <2> QED
    BY <1>1, <2>1, StaysDocument DEF Editing, Commands
<1>9. CASE FinalSet(p)
  <2>1. \E x : Edit(p, "final", [Loaded EXCEPT !.final = x])
    BY <1>9 DEF FinalSet
  <2> QED
    BY <1>1, <2>1, StaysDocument DEF Editing, Commands
<1>10. CASE PresetsApply(p)
  <2>1. PICK name \in DOMAIN BuiltinPresets :
          Edit(p, "preset_add", ApplyToConfig(Loaded, BuiltinPresets[name], VPNTag, st.core, "add"))
    BY <1>10 DEF PresetsApply
  <2> QED
    BY <1>1, <2>1, PresetKeepsDocument DEF Editing, Commands
<1> QED
  BY <1>2, <1>3, <1>4, <1>5, <1>6, <1>7, <1>8, <1>9, <1>10 DEF Editor

\* A fresh request is in order: it holds nothing and has promised nothing.
LEMMA Beginning ==
  ASSUME RoutingInv, NEW p \in Procs, NEW r, req[p].at = "idle", r.at # "idle",
         req' = [req EXCEPT ![p] = r], Request(r), r.ver = 0,
         r.op \in {"restart", "install"} => r.at = "lock", r.at # "start",
         UNCHANGED <<file, ver, st, config, run, lock, applied, gaveUp>>
  PROVE  RoutingInv'
<1>1. OthersStay(p) /\ Remembers(p) /\ req'[p] = r /\ lock' \in Procs \cup {NoLock}
  BY Moving DEF Pending
<1>2. lock' # p
  BY DEF RoutingInv, Process, Holder
<1>3. Process(p)'
  BY <1>1, <1>2 DEF Process, Holder, Fresh, RoutingInv, Types
<1>4. Loads' /\ ver' \in Nat /\ ver' >= ver
  BY DEF RoutingInv, Types, Loads
<1> QED
  BY <1>1, <1>3, <1>4, Quiet

\* The record of a request that has just begun.
Begun(r, op, at) ==
  DOMAIN r = Fields /\ r.op = op /\ r.at = at /\ r.ver = 0

\* An edit keeps the invariant.
LEMMA EditorStep ==
  ASSUME RoutingInv, NEW p \in Procs, Editor(p)
  PROVE  RoutingInv'
<1>1. PICK op, d : op \notin Commands /\ IsDocument(d) /\ Edit(p, op, d)
  BY EditorEdits DEF RoutingInv, Editing
<1>2. PICK r : /\ Begun(r, op, "save") /\ r.doc = d
               /\ req' = [req EXCEPT ![p] = r]
  <2>1. req' = [req EXCEPT ![p] = [Idle EXCEPT !.op = op, !.at = "save", !.doc = d]]
    BY <1>1 DEF Edit
  <2>2. PICK r : r = [Idle EXCEPT !.op = op, !.at = "save", !.doc = d]
    OBVIOUS
  <2>3. Begun(r, op, "save") /\ r.doc = d
    BY <2>2 DEF Begun, Idle, Fields
  <2> QED
    BY <2>1, <2>2, <2>3
<1>3. Request(r)
  BY <1>1, <1>2 DEF Request, Begun, AtType
<1> QED
  BY <1>1, <1>2, <1>3, Beginning DEF Begun, Edit, Commands

\* So does a preview.
LEMMA PreviewStep ==
  ASSUME RoutingInv, NEW p \in Procs, PresetsPreview(p)
  PROVE  RoutingInv'
<1>1. PICK name \in DOMAIN BuiltinPresets, mode \in {"add", "replace"} :
        req' = [req EXCEPT ![p] = [Idle EXCEPT !.op = "commit", !.at = "draft",
                 !.doc = ApplyToConfig(Loaded, BuiltinPresets[name], VPNTag, st.core, mode)]]
  BY DEF PresetsPreview
<1>2. PICK d : IsDocument(d) /\ req' = [req EXCEPT ![p] = [Idle EXCEPT !.op = "commit", !.at = "draft", !.doc = d]]
  BY <1>1, LoadedIsDocument, PresetKeepsDocument DEF RoutingInv
<1>3. PICK r : /\ Begun(r, "commit", "draft") /\ r.doc = d
               /\ req' = [req EXCEPT ![p] = r]
  <2>1. PICK r : r = [Idle EXCEPT !.op = "commit", !.at = "draft", !.doc = d]
    OBVIOUS
  <2>2. Begun(r, "commit", "draft") /\ r.doc = d
    BY <2>1 DEF Begun, Idle, Fields
  <2> QED
    BY <1>2, <2>1, <2>2
<1>4. Request(r)
  BY <1>2, <1>3 DEF Request, Begun, AtType
<1> QED
  BY <1>3, <1>4, Beginning DEF Begun, PresetsPreview

\* And the beginning of an apply.
LEMMA ApplyStep ==
  ASSUME RoutingInv, NEW p \in Procs, Apply(p)
  PROVE  RoutingInv'
<1>1. PICK d : IsDocument(d) /\ req' = [req EXCEPT ![p] = [Idle EXCEPT !.op = "apply", !.at = "save", !.doc = d]]
  BY LoadedIsDocument DEF RoutingInv, Apply
<1>2. PICK r : /\ Begun(r, "apply", "save") /\ r.doc = d
               /\ req' = [req EXCEPT ![p] = r]
  <2>1. PICK r : r = [Idle EXCEPT !.op = "apply", !.at = "save", !.doc = d]
    OBVIOUS
  <2>2. Begun(r, "apply", "save") /\ r.doc = d
    BY <2>1 DEF Begun, Idle, Fields
  <2> QED
    BY <1>1, <2>1, <2>2
<1>3. Request(r)
  BY <1>1, <1>2 DEF Request, Begun, AtType
<1> QED
  BY <1>2, <1>3, Beginning DEF Begun, Apply

\* And of a command.
LEMMA CommandStep ==
  ASSUME RoutingInv, NEW p \in Procs, Command(p)
  PROVE  RoutingInv'
<1>1. PICK op \in {"restart", "install", "ui"} :
        req' = [req EXCEPT ![p] = [Idle EXCEPT !.op = op, !.at = IF op = "ui" THEN "boot" ELSE "lock"]]
  BY DEF Command
<1>2. PICK at : at = (IF op = "ui" THEN "boot" ELSE "lock")
  OBVIOUS
<1>3. PICK r : /\ Begun(r, op, at)
               /\ req' = [req EXCEPT ![p] = r]
  <2>1. PICK r : r = [Idle EXCEPT !.op = op, !.at = at]
    OBVIOUS
  <2>2. Begun(r, op, at)
    BY <2>1 DEF Begun, Idle, Fields
  <2> QED
    BY <1>1, <1>2, <2>1, <2>2
<1>4. Request(r)
  BY <1>2, <1>3 DEF Request, Begun, AtType, Commands
<1> QED
  BY <1>2, <1>3, <1>4, Beginning DEF Begun, Command
-----------------------------------------------------------------------------
(* Steps that write no configuration *)

\* What the invariant says of the request that moves.
LEMMA Facts ==
  ASSUME RoutingInv, NEW p \in Procs
  PROVE  /\ Request(req[p]) /\ Holder(p) /\ Fresh(p) /\ DOMAIN req = Procs
         /\ lock \in Procs \cup {NoLock}
         /\ ver \in Nat /\ applied \in Nat /\ applied <= ver /\ req[p].ver \in Nat /\ req[p].ver <= ver
         /\ st.core \in Cores /\ gaveUp \in BOOLEAN
BY DEF RoutingInv, Process, Types, Holder, Fresh, Request

\* A request that moves on outside the lock, or before it has rendered.
Prepares(p, r) ==
  /\ req' = [req EXCEPT ![p] = r]
  /\ Request(r) /\ r.op = req[p].op /\ r.at \in {"save", "preset", "read"} /\ r.ver <= ver'
  /\ ver' \in Nat /\ ver' >= ver
  /\ UNCHANGED <<st, config, run, lock, applied, gaveUp>>

LEMMA Preparing ==
  ASSUME RoutingInv, NEW p \in Procs, NEW r, Prepares(p, r), Loads',
         req[p].at \notin {"idle", "lock", "draft", "check"}
  PROVE  RoutingInv'
<1>1. OthersStay(p) /\ Remembers(p) /\ req'[p] = r /\ lock' \in Procs \cup {NoLock}
  BY Moving DEF Prepares, Pending
<1>2. Process(p)'
  BY <1>1, Facts DEF Process, Holder, Fresh, Prepares
<1> QED
  BY <1>1, <1>2, Quiet DEF Prepares

\* A request that ends without touching anything else.
LEMMA Ending ==
  ASSUME RoutingInv, NEW p \in Procs, Finish(p), Loads', ver' \in Nat, ver' >= ver,
         UNCHANGED <<st, config, run, applied>>
  PROVE  RoutingInv'
BY Finishing, Quiet

\* The editor's draft goes to Save.
LEMMA CommitStep ==
  ASSUME RoutingInv, NEW p \in Procs, RoutingCommit(p)
  PROVE  RoutingInv'
<1>1. PICK d : IsDocument(d) /\ req' = [req EXCEPT ![p].at = "save", ![p].doc = d]
  BY LoadedIsDocument, StaysDocument DEF RoutingCommit, RoutingInv
<1>2. PICK r : /\ r = [req[p] EXCEPT !.at = "save", !.doc = d]
               /\ req' = [req EXCEPT ![p] = r]
  BY <1>1, Facts
<1>3. /\ req[p].at = "draft" /\ req[p].op = "commit"
      /\ UNCHANGED <<file, ver, st, config, run, lock, applied, gaveUp>>
  BY Facts DEF RoutingCommit, Request
<1>4. /\ DOMAIN r = Fields /\ r.at = "save" /\ r.doc = d /\ r.op = "commit" /\ r.ver = req[p].ver
      /\ r.ver \in Nat /\ r.ver <= ver
  BY <1>2, <1>3, Facts DEF Request, Fields
<1>5. Request(r)
  BY <1>1, <1>4 DEF Request, AtType
<1>6. OthersStay(p) /\ Remembers(p) /\ req'[p] = r /\ lock' \in Procs \cup {NoLock}
  BY <1>2, <1>3, Moving DEF Pending
<1>7. lock # p
  BY <1>3, Facts DEF Holder
<1>8. Process(p)'
  BY <1>3, <1>4, <1>5, <1>6, <1>7, Facts DEF Process, Holder, Fresh, Restarting
<1> QED
  BY <1>3, <1>6, <1>8, Facts, Quiet DEF RoutingInv, Loads

\* A document that is refused is not written; what is written loads.
LEMMA SaveStep ==
  ASSUME RoutingInv, NEW p \in Procs, Save(p)
  PROVE  RoutingInv'
<1>1. req[p].at = "save" /\ IsDocument(req[p].doc) /\ UNCHANGED <<st, config, run, applied>>
  BY Facts DEF Save, Request
<1>2. CASE Refuses(req[p].doc)
  <2>1. Finish(p) /\ UNCHANGED <<file, ver>>
    BY <1>2 DEF Save
  <2> QED
    BY <1>1, <2>1, Facts, Ending DEF RoutingInv, Loads
<1>3. CASE ~Refuses(req[p].doc)
  <2>1. file' = req[p].doc /\ ver' = ver + 1
    BY <1>3 DEF Save, Written
  <2>2. Loads'
    BY <1>1, <1>3, <2>1 DEF Loads, Good, Refuses
  <2>3. CASE req[p].op \in {"apply", "install"}
    <3>1. req' = [req EXCEPT ![p].at = "read", ![p].ver = ver'] /\ UNCHANGED <<lock, gaveUp>>
      BY <1>3, <2>3 DEF Save
    <3>2. PICK r : /\ r = [req[p] EXCEPT !.at = "read", !.ver = ver']
                   /\ req' = [req EXCEPT ![p] = r]
      BY <3>1, Facts
    <3>3. /\ DOMAIN r = Fields /\ r.at = "read" /\ r.op = req[p].op /\ r.ver = ver'
      BY <3>2, Facts DEF Request, Fields
    <3>4. Request(r)
      BY <2>1, <2>3, <3>3, Facts DEF Request, AtType, Commands
    <3>5. ver' \in Nat /\ ver' >= ver /\ r.ver <= ver'
      BY <2>1, <3>3, Facts
    <3>6. UNCHANGED <<st, config, run, lock, applied, gaveUp>>
      BY <1>1, <3>1
    <3>7. Prepares(p, r)
      BY <3>2, <3>3, <3>4, <3>5, <3>6 DEF Prepares
    <3> QED
      BY <1>1, <2>2, <3>7, Preparing
  <2>4. CASE req[p].op \notin {"apply", "install"}
    BY <1>1, <1>3, <2>1, <2>2, <2>4, Facts, Ending DEF Save
  <2> QED
    BY <2>3, <2>4
<1> QED
  BY <1>2, <1>3

\* Who waits for the lock may give up.
LEMMA GiveUpStep ==
  ASSUME RoutingInv, NEW p \in Procs, GiveUp(p)
  PROVE  RoutingInv'
BY Facts, Ending DEF GiveUp, RoutingInv, Loads

\* A step that only changes where a request is.
At(p, r, at) ==
  /\ req' = [req EXCEPT ![p] = r] /\ DOMAIN r = Fields /\ r.at = at
  /\ r.op = req[p].op /\ r.doc = req[p].doc /\ r.ver = req[p].ver
  /\ r.core = req[p].core /\ r.rp = req[p].rp

LEMMA GotoFields ==
  ASSUME RoutingInv, NEW p \in Procs, NEW at, Goto(p, at)
  PROVE  \E r : At(p, r, at)
<1>1. PICK r : r = [req[p] EXCEPT !.at = at]
  OBVIOUS
<1>2. req' = [req EXCEPT ![p] = r]
  BY <1>1, Facts DEF Goto
<1>3. At(p, r, at)
  BY <1>1, <1>2, Facts DEF Request, Fields, At
<1> QED
  BY <1>3

\* The document made from state.json, or none.
LEMMA BootstrapStep ==
  ASSUME RoutingInv, NEW p \in Procs, BootstrapFromState(p)
  PROVE  RoutingInv'
<1>1. IsDocument(FromState)
  BY StaysDocument DEF FromState, IsDocument
<1>2. req[p].at = "boot" /\ UNCHANGED <<st, config, run, applied>>
  BY DEF BootstrapFromState
<1>3. Loads' /\ ver' \in Nat /\ ver' >= ver
  <2>1. CASE file # None \/ Refuses(FromState)
    BY <2>1, Facts DEF BootstrapFromState, RoutingInv, Loads
  <2>2. CASE ~(file # None \/ Refuses(FromState))
    <3>1. file' = FromState /\ ver' = ver + 1
      BY <2>2 DEF BootstrapFromState, Written
    <3> QED
      BY <1>1, <2>2, <3>1, Facts DEF Loads, Good, Refuses
  <2> QED
    BY <2>1, <2>2
<1>4. CASE Finish(p)
  BY <1>2, <1>3, <1>4, Ending
<1>5. CASE Goto(p, "preset") /\ req[p].op # "ui" /\ UNCHANGED <<lock, gaveUp>>
  <2>1. PICK r : At(p, r, "preset")
    BY <1>5, GotoFields
  <2>2. Request(r)
    BY <1>2, <1>5, <2>1, Facts DEF Request, AtType, At
  <2>3. Prepares(p, r)
    BY <1>2, <1>3, <1>5, <2>1, <2>2, Facts DEF Prepares, At
  <2> QED
    BY <1>2, <1>3, <2>3, Preparing
<1> QED
  BY <1>4, <1>5 DEF BootstrapFromState

\* A preset that lacks its VPN.
LEMMA RefusePresetStep ==
  ASSUME RoutingInv, NEW p \in Procs, RefusePreset(p)
  PROVE  RoutingInv'
BY Facts, Ending DEF RefusePreset, RoutingInv, Loads

\* A preset applied to the document that was loaded.
LEMMA InstallPresetStep ==
  ASSUME RoutingInv, NEW p \in Procs, InstallPreset(p)
  PROVE  RoutingInv'
<1>1. /\ req[p].at = "preset" /\ UNCHANGED <<st, config, run, applied>>
      /\ Loads' /\ ver' \in Nat /\ ver' >= ver
  BY Facts DEF InstallPreset, RoutingInv, Loads
<1>2. CASE Finish(p)
  BY <1>1, <1>2, Ending
<1>3. CASE ~Finish(p)
  <2>1. PICK name \in DOMAIN BuiltinPresets :
          /\ file \notin {None, Corrupt}
          /\ req' = [req EXCEPT ![p].at = "save", ![p].doc =
                       ApplyToConfig(file, BuiltinPresets[name], VPNTag, st.core, "replace")]
          /\ UNCHANGED <<lock, gaveUp>>
    BY <1>3 DEF InstallPreset
  <2>2. PICK d : IsDocument(d) /\ req' = [req EXCEPT ![p].at = "save", ![p].doc = d]
    BY <2>1, PresetKeepsDocument DEF RoutingInv, Loads, Good
  <2>3. PICK r : /\ r = [req[p] EXCEPT !.at = "save", !.doc = d]
                 /\ req' = [req EXCEPT ![p] = r]
    BY <2>2, Facts
  <2>4. DOMAIN r = Fields /\ r.at = "save" /\ r.doc = d /\ r.op = req[p].op /\ r.ver = req[p].ver
    BY <2>3, Facts DEF Request, Fields
  <2>5. Request(r)
    BY <2>2, <2>4, Facts DEF Request, AtType
  <2>6. r.ver <= ver'
    BY <1>1, <2>4, Facts
  <2>7. UNCHANGED <<st, config, run, lock, applied, gaveUp>>
    BY <1>1, <2>1
  <2>8. Prepares(p, r)
    BY <1>1, <2>3, <2>4, <2>5, <2>6, <2>7 DEF Prepares
  <2> QED
    BY <1>1, <2>8, Preparing
<1> QED
  BY <1>2, <1>3
-----------------------------------------------------------------------------
(* From the document to the running core *)

\* Reading the document takes along how new it is.
LEMMA ReadStep ==
  ASSUME RoutingInv, NEW p \in Procs, Read(p)
  PROVE  RoutingInv'
<1>1. PICK d : d = (IF file = Corrupt THEN None ELSE file)
  OBVIOUS
<1>2. PICK drop : drop = DropsTun(d)
  OBVIOUS
<1>3. PICK rc : rc = (IF drop THEN WithoutTun(d) ELSE d)
  OBVIOUS
<1>4. PICK rp : rp = [outs |-> st.outs, rc |-> rc, inbound |-> st.inbound,
                      dflt |-> DefaultTag(rc), ver |-> ver]
  OBVIOUS
<1>5. PICK at : at = (IF drop THEN "migrate" ELSE "write")
  OBVIOUS
<1>6. PICK n : n = (IF req[p].op = "restart" THEN ver ELSE req[p].ver)
  OBVIOUS
<1>7. req' = [req EXCEPT ![p].at = at, ![p].core = st.core, ![p].rp = rp, ![p].ver = n]
  BY <1>1, <1>2, <1>3, <1>4, <1>5, <1>6, Facts DEF Read
<1>8. PICK r : /\ r = [req[p] EXCEPT !.at = at, !.core = st.core, !.rp = rp, !.ver = n]
               /\ req' = [req EXCEPT ![p] = r]
  BY <1>7, Facts
<1>9. /\ DOMAIN r = Fields /\ r.at = at /\ r.op = req[p].op /\ r.ver = n /\ r.core = st.core /\ r.rp = rp
  BY <1>8, Facts DEF Request, Fields
<1>10. rp # None /\ rp.ver = ver /\ rp.rc = rc
  <2>1. "outs" \in DOMAIN rp /\ "outs" \notin DOMAIN None
    BY <1>4 DEF None
  <2> QED
    BY <1>4, <2>1
<1>11. drop => IsDocument(rc)
  <2>1. drop => d # None
    BY <1>2 DEF DropsTun
  <2>2. drop => IsDocument(d)
    BY <1>1, <2>1 DEF RoutingInv, Loads, Good
  <2> QED
    BY <1>3, <2>2, StaysDocument DEF WithoutTun
<1>12. n \in Nat /\ n <= ver
  BY <1>6, Facts
<1>13. /\ req[p].at = "read"
       /\ UNCHANGED <<file, ver, st, config, run, lock, applied, gaveUp>>
  BY DEF Read
<1>14. Request(r)
  BY <1>5, <1>9, <1>10, <1>11, <1>12, <1>13, Facts DEF Request, AtType
<1>15. OthersStay(p) /\ Remembers(p) /\ req'[p] = r /\ lock' \in Procs \cup {NoLock}
  BY <1>8, <1>13, Moving DEF Pending
<1>16. Holder(p)'
  BY <1>5, <1>9, <1>13, <1>15, Facts DEF Holder
<1>17. Recent(r.rp, r)
  BY <1>9, <1>10, <1>12, Facts DEF Recent
<1>18. Fresh(p)'
  BY <1>5, <1>9, <1>12, <1>13, <1>15, <1>17 DEF Fresh, Recent
<1>19. Process(p)'
  BY <1>14, <1>15, <1>16, <1>18 DEF Process
<1> QED
  BY <1>13, <1>15, <1>19, Facts, Quiet DEF RoutingInv, Loads

\* The migration writes a document that loads, or none.
LEMMA MigrateStep ==
  ASSUME RoutingInv, NEW p \in Procs, Migrate(p)
  PROVE  RoutingInv'
<1>1. /\ req[p].at = "migrate" /\ IsDocument(req[p].rp.rc)
      /\ UNCHANGED <<st, config, run, lock, applied, gaveUp>>
  BY Facts DEF Migrate, Request
<1>2. Loads' /\ ver' \in Nat /\ ver' >= ver
  <2>1. CASE Refuses(req[p].rp.rc)
    BY <2>1, Facts DEF Migrate, RoutingInv, Loads
  <2>2. CASE ~Refuses(req[p].rp.rc)
    <3>1. file' = req[p].rp.rc /\ ver' = ver + 1
      BY <2>2 DEF Migrate, Written
    <3> QED
      BY <1>1, <2>2, <3>1, Facts DEF Loads, Good, Refuses
  <2> QED
    BY <2>1, <2>2
<1>3. PICK r : At(p, r, "write")
  BY GotoFields DEF Migrate
<1>4. OthersStay(p) /\ Remembers(p) /\ req'[p] = r /\ lock' \in Procs \cup {NoLock}
  BY <1>1, <1>3, Moving DEF Pending, At
<1>5. Request(r)
  BY <1>1, <1>3, Facts DEF Request, AtType, At
<1>6. Holder(p)'
  BY <1>1, <1>3, <1>4, Facts DEF Holder, At
<1>7. r.ver <= ver'
  BY <1>2, <1>3, Facts DEF At
<1>8. Fresh(p)'
  BY <1>1, <1>3, <1>4, <1>7, Facts DEF Fresh, Recent, At
<1>9. Process(p)'
  BY <1>4, <1>5, <1>6, <1>8 DEF Process
<1> QED
  BY <1>1, <1>2, <1>4, <1>9, Quiet

\* Once the lock is taken the core is stopped, or an install reads on.
LEMMA TakeLockStep ==
  ASSUME RoutingInv, NEW p \in Procs, TakeLock(p)
  PROVE  RoutingInv'
<1>1. /\ req[p].at = "lock" /\ lock = NoLock /\ lock' = p
      /\ UNCHANGED <<file, ver, st, config, applied, gaveUp>>
  BY DEF TakeLock
<1>2. PICK at \in {"boot", "read"} :
        /\ Goto(p, at) /\ (at = "boot" <=> req[p].op = "install")
        /\ run' = IF at = "boot" THEN run ELSE None
  BY DEF TakeLock
<1>3. PICK r : At(p, r, at)
  BY <1>2, GotoFields
<1>4. OthersStay(p)
  BY <1>1, <1>3, Facts, LockAssumption DEF OthersStay, At
<1>5. req'[p] = r
  BY <1>3, Facts DEF At
<1>6. Request(r)
  BY <1>1, <1>2, <1>3, Facts DEF Request, AtType, At
<1>7. Process(p)'
  BY <1>1, <1>2, <1>3, <1>5, <1>6, Facts DEF Process, Holder, Fresh, Request, At
<1>8. Spares(p)
  BY <1>1, Facts DEF Spares
<1>9. \A q \in Procs : Process(q)'
  BY <1>4, <1>7, <1>8, OthersKeep DEF RoutingInv
<1>10. Settled'
  <2>1. CASE at = "read"
    BY <1>2, <2>1 DEF Settled
  <2>2. CASE at = "boot"
    <3>1. req[p].op = "install"
      BY <1>2, <2>2
    <3>2. Behind => Behind'
      BY <1>1, <1>4, <3>1, Facts, BehindStays DEF Remembers, Pending
    <3> QED
      BY <1>1, <1>2, <2>2, <3>2 DEF Settled, RoutingInv
  <2> QED
    BY <2>1, <2>2
<1>11. Types'
  BY <1>1, <1>2, <1>4, Facts DEF RoutingInv, Types, IsConfig, OthersStay
<1>12. Loads'
  BY <1>1 DEF RoutingInv, Loads
<1> QED
  BY <1>9, <1>10, <1>11, <1>12 DEF RoutingInv

\* What an apply or a restart does once the configuration is in place.
LEMMA ContinueCases ==
  ASSUME NEW p \in Procs, Continue(p)
  PROVE  \/ req[p].op = "install" /\ Finish(p)
         \/ /\ req[p].op # "install" /\ UNCHANGED <<lock, gaveUp>>
            /\ \E at : Goto(p, at) /\ at = (IF lock = p THEN "start" ELSE "lock")
BY DEF Continue

\* The core's own check of the file.
LEMMA CheckStep ==
  ASSUME RoutingInv, NEW p \in Procs, Check(p)
  PROVE  RoutingInv'
<1>1. req[p].at = "check" /\ UNCHANGED <<file, ver, st, config, run, applied>>
  BY DEF Check
<1>2. Loads' /\ ver' \in Nat /\ ver' >= ver
  BY <1>1, Facts DEF RoutingInv, Loads
<1>3. CASE Finish(p)
  BY <1>1, <1>2, <1>3, Ending
<1>4. CASE ~Finish(p)
  <2>1. PICK at : /\ Goto(p, at) /\ at = (IF lock = p THEN "start" ELSE "lock")
                  /\ req[p].op # "install" /\ UNCHANGED <<lock, gaveUp>>
    BY <1>4, ContinueCases DEF Check
  <2>2. PICK r : At(p, r, at)
    BY <2>1, GotoFields
  <2>3. req[p].op \in Restarting /\ (lock # p => req[p].op = "apply")
    BY <1>1, <2>1, Facts DEF Request, Holder, Commands, Restarting
  <2>4. DOMAIN req' = Procs /\ req'[p] = r
    BY <2>2, Facts DEF At
  <2>5. Pending(p) => Pending(p)'
    BY <2>1, <2>2, <2>4 DEF Pending, At
  <2>6. OthersStay(p) /\ Remembers(p) /\ lock' \in Procs \cup {NoLock}
    BY <2>1, <2>2, <2>5, Moving DEF At
  <2>7. Behind => Behind'
    BY <2>6, BehindStays
  <2>8. Request(r)
    BY <1>1, <2>1, <2>2, <2>3, Facts DEF Request, AtType, At, Restarting, Commands
  <2>9. Holder(p)'
    BY <2>1, <2>2, <2>3, <2>4, Facts DEF Holder, At, Restarting, Commands
  <2>10. Fresh(p)'
    BY <1>1, <2>1, <2>2, <2>3, <2>4, <2>7, Facts DEF Fresh, Recent, At
  <2>11. Process(p)'
    BY <2>4, <2>8, <2>9, <2>10 DEF Process
  <2> QED
    BY <1>1, <1>2, <2>6, <2>11, Quiet
<1> QED
  BY <1>3, <1>4
\* A configuration that was rendered, or was there and says the same, is in place.
Puts(p, g) ==
  LET c == req[p].core
  IN  /\ config' = [config EXCEPT ![c] = g]
      /\ g # None /\ IsConfig(g, c) /\ g.rp.ver >= req[p].rp.ver

\* What Write leaves in the file.
LEMMA WritePuts ==
  ASSUME RoutingInv, NEW p \in Procs, Write(p), ~(Finish(p) /\ UNCHANGED config)
  PROVE  \E g : Puts(p, g)
<1>1. PICK c \in Cores : c = req[p].core
  BY Facts DEF Write, Request
<1>2. PICK f : f = [core |-> c, rp |-> req[p].rp, dat |-> dat]
  OBVIOUS
<1>3. PICK g : g = (IF SameText(f, config[c]) /\ config[c].rp.ver > f.rp.ver THEN config[c] ELSE f)
  OBVIOUS
<1>4. config' = [config EXCEPT ![c] = g]
  <2>1. config' = [config EXCEPT ![c] = IF SameText(f, @) /\ @.rp.ver > f.rp.ver THEN @ ELSE f]
    BY <1>1, <1>2 DEF Write
  <2> QED
    BY <1>1, <1>3, <2>1 DEF RoutingInv, Types
<1>5. req[p].rp.ver \in Nat /\ f.core = c /\ f.rp = req[p].rp
  BY <1>2, Facts DEF Write, Request
<1>6. f # None
  <2>1. "core" \in DOMAIN f /\ "core" \notin DOMAIN None
    BY <1>2 DEF None
  <2> QED
    BY <2>1
<1>7. CASE g = f
  <2>1. g # None /\ IsConfig(g, c) /\ g.rp.ver >= req[p].rp.ver
    BY <1>5, <1>6, <1>7 DEF IsConfig
  <2> QED
    BY <1>1, <1>4, <2>1 DEF Puts
<1>8. CASE g # f
  <2>1. g = config[c] /\ config[c] # None /\ config[c].rp.ver > f.rp.ver
    BY <1>3, <1>8 DEF SameText
  <2>2. IsConfig(config[c], c)
    BY <2>1 DEF RoutingInv, Types
  <2>3. g # None /\ IsConfig(g, c) /\ g.rp.ver >= req[p].rp.ver
    BY <1>5, <2>1, <2>2 DEF IsConfig
  <2> QED
    BY <1>1, <1>4, <2>3 DEF Puts
<1> QED
  BY <1>7, <1>8

\* A step that puts a configuration in place keeps the invariant if whoever
\* does so without the lock is remembered.
LEMMA Putting ==
  ASSUME RoutingInv, NEW p \in Procs, NEW g, Puts(p, g), req[p].core \in Cores,
         OthersStay(p), Remembers(p), Process(p)', lock' \in Procs \cup {NoLock},
         lock = p \/ Behind',
         UNCHANGED <<file, ver, st, run, applied>>
  PROVE  RoutingInv'
<1>1. Behind => Behind'
  BY BehindStays
<1>2. Spares(p)
  BY Facts DEF Spares
<1>3. \A q \in Procs : Process(q)'
  BY <1>2, OthersKeep DEF RoutingInv
<1>4. Settled'
  BY <1>1 DEF RoutingInv, Settled
<1>5. DOMAIN config' = Cores /\ \A c \in Cores : config'[c] = None \/ IsConfig(config'[c], c)
  BY DEF Puts, RoutingInv, Types
<1>6. Types'
  BY <1>5 DEF RoutingInv, Types, IsConfig, OthersStay, Remembers
<1>7. Loads'
  BY DEF RoutingInv, Loads
<1> QED
  BY <1>3, <1>4, <1>6, <1>7 DEF RoutingInv

\* Rendering, comparing with the file, writing it.
LEMMA WriteStep ==
  ASSUME RoutingInv, NEW p \in Procs, Write(p)
  PROVE  RoutingInv'
<1>1. /\ req[p].at = "write" /\ req[p].core \in Cores /\ req[p].rp.ver \in Nat /\ req[p].op \in Commands
      /\ UNCHANGED <<file, ver, st, run, applied>>
  BY Facts DEF Write, Request
<1>2. Loads' /\ ver' \in Nat /\ ver' >= ver
  BY <1>1, Facts DEF RoutingInv, Loads
<1>3. CASE Finish(p) /\ UNCHANGED config
  BY <1>1, <1>2, <1>3, Ending
<1>4. CASE ~(Finish(p) /\ UNCHANGED config)
  <2>1. PICK g : Puts(p, g)
    BY <1>4, WritePuts
  <2>2. Continue(p) \/ (Goto(p, "check") /\ UNCHANGED <<lock, gaveUp>>)
    BY <1>4 DEF Write
  <2>3. CASE req[p].op = "install" /\ Finish(p)
    <3>1. lock = p
      BY <1>1, <2>3, Facts DEF Holder
    <3>2. /\ OthersStay(p) /\ Remembers(p) /\ Process(p)'
          /\ lock' \in Procs \cup {NoLock}
      BY <1>2, <2>3, Finishing
    <3> QED
      BY <1>1, <2>1, <3>1, <3>2, Putting
  <2>4. CASE ~(req[p].op = "install" /\ Finish(p))
    <3>1. PICK at : /\ Goto(p, at) /\ UNCHANGED <<lock, gaveUp>>
                    /\ \/ at = "check"
                       \/ req[p].op # "install" /\ at = (IF lock = p THEN "start" ELSE "lock")
      BY <2>2, <2>4, ContinueCases
    <3>2. PICK r : At(p, r, at)
      BY <3>1, GotoFields
    <3>3. OthersStay(p) /\ Remembers(p) /\ req'[p] = r /\ lock' \in Procs \cup {NoLock}
      BY <1>1, <3>1, <3>2, Moving DEF Pending, At
    <3>4. lock # p => req[p].op = "apply"
      BY <1>1, Facts DEF Holder, Commands
    <3>5. lock = p \/ Behind'
      <4>1. ASSUME lock # p PROVE Pending(p)'
        BY <3>1, <3>2, <3>3, <3>4, <4>1 DEF Pending, At
      <4> QED
        BY <4>1 DEF Behind
    <3>6. Request(r)
      BY <1>1, <3>1, <3>2, Facts DEF Request, AtType, At, Commands
    <3>7. Holder(p)'
      BY <1>1, <3>1, <3>2, <3>3, <3>4, Facts DEF Holder, At
    <3>8. ASSUME lock = p, req[p].op \in Restarting
          PROVE  config'[r.core] # None /\ config'[r.core].rp.ver >= applied /\ config'[r.core].rp.ver >= r.ver
      <4>1. Recent(req[p].rp, req[p])
        BY <1>1, <3>8, Facts DEF Fresh
      <4>2. config'[r.core] = g /\ g # None /\ g.rp.ver >= req[p].rp.ver /\ g.rp.ver \in Nat
        BY <1>1, <2>1, <3>2 DEF Puts, At, IsConfig, RoutingInv, Types
      <4>3. r.ver = req[p].ver
        BY <3>2 DEF At
      <4> QED
        BY <1>1, <4>1, <4>2, <4>3, Facts DEF Recent
    <3>9. Fresh(p)'
      <4>1. req'[p].ver <= ver' /\ applied' = applied /\ lock' = lock
        BY <1>1, <3>1, <3>2, <3>3, Facts DEF At
      <4>2. req'[p].at \notin {"migrate", "write"} /\ req'[p].op = req[p].op
        BY <3>1, <3>2, <3>3 DEF At
      <4> QED
        BY <3>3, <3>8, <4>1, <4>2 DEF Fresh, Recent
    <3>10. Process(p)'
      BY <3>3, <3>6, <3>7, <3>9 DEF Process
    <3> QED
      BY <1>1, <2>1, <3>3, <3>5, <3>10, Putting
  <2> QED
    BY <2>3, <2>4
<1> QED
  BY <1>3, <1>4

\* The core starts with what is in the file by now.
LEMMA StartStep ==
  ASSUME RoutingInv, NEW p \in Procs, Start(p)
  PROVE  RoutingInv'
<1>1. /\ req[p].at = "start" /\ lock = p /\ req[p].core \in Cores /\ req[p].op \in Restarting
      /\ UNCHANGED <<file, ver, st, config>>
  BY Facts DEF Start, Request, Holder, Commands, Restarting
<1>2. /\ OthersStay(p) /\ Remembers(p) /\ Process(p)'
      /\ lock' \in Procs \cup {NoLock}
  BY <1>1, Facts, Finishing DEF Start
<1>3. Behind => Behind'
  BY <1>2, BehindStays
<1>4. Spares(p)
  BY <1>1, Facts DEF Spares
<1>5. \A q \in Procs : Process(q)'
  BY <1>2, <1>4, OthersKeep DEF RoutingInv
<1>6. Behind \/ (config[req[p].core] # None /\ Recent(config[req[p].core].rp, req[p]))
  BY <1>1, Facts DEF Fresh
<1>7. config[req[p].core] = None \/ IsConfig(config[req[p].core], req[p].core)
  BY <1>1 DEF RoutingInv, Types
<1>8. \/ /\ run' = config[req[p].core]
         /\ applied' = IF req[p].ver > applied THEN req[p].ver ELSE applied
      \/ run' = None /\ applied' = applied
  BY DEF Start
<1>9. applied' \in 0..ver'
  BY <1>1, <1>8, Facts
<1>10. Settled'
  BY <1>3, <1>6, <1>7, <1>8, Facts DEF Settled, Recent
<1>11. run' = None \/ \E c \in Cores : IsConfig(run', c)
  BY <1>1, <1>7, <1>8
<1>12. Types'
  BY <1>1, <1>2, <1>9, <1>11 DEF RoutingInv, Types, IsConfig, OthersStay, Remembers
<1>13. Loads'
  BY <1>1 DEF RoutingInv, Loads
<1> QED
  BY <1>5, <1>10, <1>12, <1>13 DEF RoutingInv

-----------------------------------------------------------------------------
(* Events *)

\* What happens outside the requests.
LEMMA Outside ==
  ASSUME RoutingInv, Loads', ver' \in Nat, ver' >= ver,
         DOMAIN st' = {"outs", "inbound", "core"}, st'.core \in Cores,
         UNCHANGED <<config, run, lock, req, applied, gaveUp>>
  PROVE  RoutingInv'
<1>1. Behind' <=> Behind
  BY DEF Behind, Pending
<1>2. ASSUME NEW p \in Procs PROVE Process(p)'
  <2>1. req[p].ver <= ver'
    BY Facts
  <2> QED
    BY <1>1, <2>1, Facts DEF Process, Request, Holder, Fresh, Recent
<1>3. applied' \in 0..ver'
  BY DEF RoutingInv, Types
<1>4. Types'
  BY <1>3 DEF RoutingInv, Types, IsConfig
<1>5. Settled'
  BY <1>1 DEF RoutingInv, Settled
<1> QED
  BY <1>2, <1>4, <1>5 DEF RoutingInv

\* A switch of the core, geo data that arrive, a slip of the hand.
LEMMA EventStep ==
  ASSUME RoutingInv, SwitchCore \/ UpdateGeo \/ HandEdit
  PROVE  RoutingInv'
<1>1. ver \in Nat /\ DOMAIN st = {"outs", "inbound", "core"} /\ st.core \in Cores /\ Loads
  BY DEF RoutingInv, Types
<1>2. CASE SwitchCore
  <2>1. DOMAIN st' = {"outs", "inbound", "core"} /\ st'.core \in Cores
    BY <1>1, <1>2 DEF SwitchCore
  <2> QED
    BY <1>1, <1>2, <2>1, Outside DEF SwitchCore, Loads
<1>3. CASE UpdateGeo
  BY <1>1, <1>3, Outside DEF UpdateGeo, Loads
<1>4. CASE HandEdit
  BY <1>1, <1>4, Outside DEF HandEdit, Written, Loads
<1> QED
  BY <1>2, <1>3, <1>4

-----------------------------------------------------------------------------
(* The invariant and what follows from it *)

\* It holds at the start.
LEMMA InitHolds ==
  ASSUME Init
  PROVE  RoutingInv
<1>1. PICK s \in Starts : file = s[1] /\ st = s[2]
  BY DEF Init
<1>2. Loads /\ DOMAIN st = {"outs", "inbound", "core"} /\ st.core \in Cores
  BY <1>1, StartsAssumption DEF Loads, Good
<1>3. Request(Idle)
  BY DEF Request, Idle, Fields, AtType
<1>4. Idle.op = "none" /\ Idle.at = "idle" /\ Idle.ver = 0
  BY DEF Idle
<1>5. ASSUME NEW p \in Procs PROVE Process(p)
  <2>1. req[p] = Idle /\ lock # p /\ ver = 0
    BY LockAssumption DEF Init
  <2> QED
    BY <1>3, <1>4, <2>1 DEF Process, Holder, Fresh
<1>6. Types
  <2>1. DOMAIN config = Cores /\ \A c \in Cores : config[c] = None
    BY DEF Init
  <2>2. ver \in Nat /\ applied \in 0..ver
    BY DEF Init
  <2>3. run = None /\ lock = NoLock /\ gaveUp = FALSE /\ DOMAIN req = Procs
    BY DEF Init
  <2> QED
    BY <1>2, <2>1, <2>2, <2>3 DEF Types
<1>7. Settled
  BY DEF Init, Settled
<1> QED
  BY <1>2, <1>5, <1>6, <1>7 DEF RoutingInv

\* A step that changes nothing keeps it.
LEMMA Stuttering ==
  ASSUME RoutingInv, UNCHANGED vars
  PROVE  RoutingInv'
BY Outside DEF vars, RoutingInv, Types, Loads

\* Every step keeps it.
LEMMA StepHolds ==
  ASSUME RoutingInv, [Next]_vars
  PROVE  RoutingInv'
<1>1. CASE UNCHANGED vars
  BY <1>1, Stuttering
<1>2. CASE SwitchCore \/ UpdateGeo \/ HandEdit
  BY <1>2, EventStep
<1>3. ASSUME NEW p \in Procs, Editor(p)
      PROVE  RoutingInv'
  BY <1>3, EditorStep
<1>4. ASSUME NEW p \in Procs,
             \/ PresetsPreview(p) \/ RoutingCommit(p) \/ Save(p) \/ Apply(p) \/ Command(p)
             \/ TakeLock(p) \/ GiveUp(p)
      PROVE  RoutingInv'
  BY <1>4, PreviewStep, CommitStep, SaveStep, ApplyStep, CommandStep, TakeLockStep, GiveUpStep
<1>5. ASSUME NEW p \in Procs,
             \/ BootstrapFromState(p) \/ RefusePreset(p) \/ InstallPreset(p) \/ Read(p) \/ Migrate(p)
             \/ Write(p) \/ Check(p) \/ Start(p)
      PROVE  RoutingInv'
  BY <1>5, BootstrapStep, RefusePresetStep, InstallPresetStep, ReadStep, MigrateStep, WriteStep,
     CheckStep, StartStep
<1> QED
  BY <1>1, <1>2, <1>3, <1>4, <1>5 DEF Next, Editor

\* Hence it always holds.
THEOREM Invariance == Spec => []RoutingInv
<1>1. Init => RoutingInv
  BY InitHolds
<1>2. RoutingInv /\ [Next]_vars => RoutingInv'
  BY StepHolds
<1> QED
  BY <1>1, <1>2, PTL DEF Spec

\* Types and the discipline of the lock: only a command or an apply holds it,
\* and nobody starts a core without it.
THEOREM TypeCorrect == Spec => []TypeOK
<1>1. RoutingInv => TypeOK
  <2> SUFFICES ASSUME RoutingInv PROVE TypeOK
    OBVIOUS
  <2>1. file \in {None, Corrupt} \/ IsDocument(file)
    BY DEF RoutingInv, Loads, Good
  <2>2. run = None \/ run.core \in Cores
    BY DEF RoutingInv, Types, IsConfig
  <2>3. \A c \in Cores : config[c] = None \/ config[c].core = c
    BY DEF RoutingInv, Types, IsConfig
  <2>4. ASSUME NEW p \in Procs
        PROVE  /\ req[p].at \in AtType
               /\ lock = p => req[p].op \in Commands
               /\ req[p].at = "start" => lock = p
               /\ req[p].at \in {"migrate", "write"} => req[p].rp # None
    BY Facts DEF Request, Holder
  <2> QED
    BY <2>1, <2>2, <2>3, <2>4 DEF TypeOK, RoutingInv, Types, AtType, Commands
<1> QED
  BY <1>1, Invariance, PTL

\* Whatever handlers, presets, bootstraps and migrations wrote to routing.json
\* in whatever order, Load accepts it.
THEOREM WrittenDocumentLoads == Spec => []SavedFileLoads
<1>1. RoutingInv => SavedFileLoads
  BY DEF RoutingInv, Loads, Good, SavedFileLoads
<1> QED
  BY <1>1, Invariance, PTL

\* When nothing is under way, the running core was started with a configuration
\* no older than the newest document an apply or a restart reported as running,
\* unless an apply was cancelled between its write and its restart.
THEOREM CoreCatchesUp == Spec => []SettledCoreIsCurrent
<1>1. RoutingInv => SettledCoreIsCurrent
  <2> SUFFICES ASSUME RoutingInv, run # None, ~gaveUp, \A p \in Procs : req[p].at = "idle"
               PROVE  run.rp.ver >= applied
    BY DEF SettledCoreIsCurrent
  <2>1. ~Behind
    BY DEF Behind, Pending
  <2> QED
    BY <2>1 DEF RoutingInv, Settled
<1> QED
  BY <1>1, Invariance, PTL
=============================================================================
