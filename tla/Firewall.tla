------------------------------ MODULE Firewall ------------------------------
(***************************************************************************)
(* The applier of package firewall: Apply, Reconcile and Remove as the     *)
(* sequences of iptables, ip, ipset and sysctl calls they are, against a   *)
(* kernel whose tables NDM may rebuild between any two calls.              *)
(*                                                                         *)
(* A rule in a system chain is a counter (iptables keeps duplicates); a    *)
(* chain of sign-craze is a sequence of the kinds of rules in it. One      *)
(* operation runs at a time: the callers hold the main lock (module        *)
(* RuleRecovery).                                                          *)
(***************************************************************************)
EXTENDS Naturals, Sequences, FiniteSets

CONSTANTS Settings,  \* what the user switches between: mode, inbound, DPI, and which lists are not empty
          MaxOps,    \* Apply, Reconcile and Remove calls
          MaxEvents  \* rebuilds, failures, crashes, reboots

ASSUME SettingsAssumption ==
  /\ Settings \subseteq [mode : {"policy", "full"}, tproxy : BOOLEAN, dpi : BOOLEAN,
                         ports : BOOLEAN, admin : BOOLEAN, excludes : BOOLEAN]
  /\ Settings # {}
ASSUME BoundAssumption == MaxOps \in Nat /\ MaxEvents \in Nat

\* Ways to capture traffic: the mark into the TUN device, TPROXY, REDIRECT,
\* the chains of ModeFull, by ipset and by port.
Path == {"tun", "tproxy", "redirect", "full"}

SysRule == {"polJumpM", "polJumpN",               \* PREROUTING jumps to signcraze_policy (mangle, nat)
            "fullJump", "portsJump", "queueJump", \* to signcraze, signcraze_ports, signcraze_dpi
            "dpiJump", "tcpmss",                  \* mangle FORWARD
            "fwdAccept", "inAccept", "wanDrop"}   \* filter FORWARD and INPUT
Chain == {"policyM", "policyN", "full", "ports", "queue", "dpi"}

\* The jump into a chain, and the table of a rule or a chain.
JumpTo == [policyM |-> "polJumpM", policyN |-> "polJumpN", dpi |-> "dpiJump",
           full |-> "fullJump", ports |-> "portsJump", queue |-> "queueJump"]
InTable(t, x) ==
  CASE t = "nat"    -> x \in {"polJumpN", "policyN"}
    [] t = "filter" -> x \in {"fwdAccept", "inAccept", "wanDrop"}
    [] t = "mangle" -> x \notin {"polJumpN", "policyN", "fwdAccept", "inAccept", "wanDrop"}

\* The chain of a path that the bypass rules go to. ModeFull has a second one that
\* captures, by port, when ports are listed: no bypass rule goes there.
CaptureChain == [tun |-> "policyM", tproxy |-> "policyM", redirect |-> "policyN", full |-> "full"]
CaptureChains(p, ports) == {CaptureChain[p]} \cup (IF p = "full" /\ ports THEN {"ports"} ELSE {})
Bypass == {"lan", "admin", "exclude"}

VARIABLES k,       \* the kernel: rules, chains, routing, ipsets, fast path, and the saved sysctl file
          cfg,     \* what state.json asks for
          op,      \* the running operation: its name, steps left, its applier's settings
          done,    \* history: how the last operation ended, what it was about
          used     \* operations, events and failed calls nobody noticed, so far; whether a saved value was forgotten

vars == <<k, cfg, op, done, used>>

NoRules == [r \in SysRule |-> 0]
NoChains == [c \in Chain |-> <<>>]
Idle == [name |-> "idle", todo |-> <<>>, path |-> "tun", dpi |-> FALSE, ports |-> FALSE,
         tproxy |-> FALSE, wan |-> FALSE]

Init ==
  /\ \E factory \in {0, 1} :
       k = [sys |-> NoRules, exist |-> {}, body |-> NoChains, ipRule |-> FALSE, routes |-> {},
            sets |-> FALSE, fast |-> factory, saved |-> {}, factory |-> factory]
  /\ cfg \in Settings
  /\ op = Idle
  /\ done = [what |-> "removed", path |-> "tun", ports |-> FALSE, passes |-> {}, calm |-> TRUE]
  /\ used = [ops |-> 0, events |-> 0, lost |-> 0, forgot |-> FALSE]

-----------------------------------------------------------------------------
(* What the calls do to the kernel.                                        *)

\* EnsureRule: -C, then -A.
EnsureRule(r) == [k EXCEPT !.sys[r] = IF @ = 0 THEN 1 ELSE @]

\* Mutant: -D without looking whether the rule is there.
DeleteRuleBlind(r) == [k EXCEPT !.sys[r] = @ - 1]

\* DeleteRule: -C, then one -D.
DeleteRule(r) == [k EXCEPT !.sys[r] = IF @ = 0 THEN 0 ELSE @ - 1]

\* How many duplicates of a jump DeleteJumpAll deletes.
maxIter == 16

\* DeleteJumpAll: up to maxIter times -D chain -j target. iptables deletes a rule
\* only when the whole specification is equal: the jump to signcraze_dpi_fwd
\* carries -o and -m mark, so this call never finds it.
DeleteJumpAll(r) == [k EXCEPT !.sys[r] = IF r = "dpiJump" THEN @ ELSE IF @ > maxIter THEN @ - maxIter ELSE 0]

\* Mutant: the chains are flushed after they were filled.
RestoreBatchFlushLast(fill, append) ==
  [k EXCEPT !.exist = @ \cup DOMAIN fill,
            !.body = [c \in Chain |-> IF c \in DOMAIN fill THEN <<>> ELSE @[c]],
            !.sys = [r \in SysRule |-> IF r \in append THEN @[r] + 1 ELSE @[r]]]

\* iptables-restore --noflush: the declared chains are flushed and filled, the
\* rules for system chains are appended, all of it or nothing.
RestoreBatch(fill, append) ==
  [k EXCEPT !.exist = @ \cup DOMAIN fill,
            !.body = [c \in Chain |-> IF c \in DOMAIN fill THEN fill[c] ELSE @[c]],
            !.sys = [r \in SysRule |-> IF r \in append THEN @[r] + 1 ELSE @[r]]]

\* Mutant: the bypass rules are appended instead of inserted.
InsertLast(c, kind) ==
  [k EXCEPT !.body[c] = IF \E i \in DOMAIN @ : @[i] = kind THEN @ ELSE Append(@, kind)]

\* InsertRule at position 1, unless the rule is there.
InsertRule(c, kind) ==
  [k EXCEPT !.body[c] = IF \E i \in DOMAIN @ : @[i] = kind THEN @ ELSE <<kind>> \o @]

\* FlushAndDeleteChain: -F, then -X, which fails while a jump leads to it.
DeleteChain(c) ==
  [k EXCEPT !.body[c] = <<>>,
            !.exist = IF k.sys[JumpTo[c]] = 0 THEN @ \ {c} ELSE @]

\* Mutant: the saved values are overwritten by every Apply.
DisableFastPathAnew == [k EXCEPT !.saved = {k.fast}, !.fast = 0]

\* DisableFastPath: the values found are saved once, then fastnat is 0.
DisableFastPath == [k EXCEPT !.saved = IF @ = {} THEN {k.fast} ELSE @, !.fast = 0]

\* RestoreFastPath: back to the saved value, and the file is removed.
RestoreFastPath == [k EXCEPT !.fast = IF k.saved = {} THEN @ ELSE CHOOSE v \in k.saved : TRUE,
                             !.saved = {}]

-----------------------------------------------------------------------------
(* The steps of the operations.                                            *)

DpiFill(dpi) == IF dpi THEN [dpi |-> <<"queue">>] ELSE <<>>
PolicyFill(c, dpi) == [x \in {c} \cup (IF dpi THEN {"dpi"} ELSE {}) |->
                         IF x = c THEN <<"capture">> ELSE <<"queue">>]
DpiJump(dpi) == IF dpi THEN {"dpiJump"} ELSE {}

Step(what, on) == <<[do |-> what, on |-> on]>>

\* The jumps of an earlier Apply go before the batch adds its own.
Cleanup(jump) == Step("drop", jump)

\* precleanupDPIForwardJump: nothing when DPI is off.
DropDpi(dpi) == IF dpi THEN Cleanup("dpiJump") ELSE <<>>

\* The bypass rules that are due on path p: for the router's address if it is found,
\* for the admin ports and the excluded destinations if there are any.
PassesOf(c, p, lan) ==
  {x \in Bypass : CASE x = "lan"     -> lan /\ p # "full"
                    [] x = "admin"   -> c.admin
                    [] x = "exclude" -> c.excludes /\ p = "full"}

LetBy(x, passes) == IF x \in passes THEN Step("bypass", x) ELSE <<>>

\* ensurePolicyBypass: ensureLANBypass, then ensureAdminPortsBypass.
PolicyBypass(passes) == LetBy("lan", passes) \o LetBy("admin", passes)

\* applyInternal for each path.
ApplySteps(path, dpi, passes) ==
  CASE path = "tun" ->
         Step("ipRule", "none") \o Cleanup("polJumpM") \o DropDpi(dpi)
         \o Step("batch", "mangle") \o Step("batch", "filter")
         \o PolicyBypass(passes) \o Step("ensure", "wanDrop")
    [] path = "tproxy" ->
         Step("ipRule", "none") \o Cleanup("polJumpM") \o DropDpi(dpi)
         \o Step("batch", "mangle") \o Step("route", "local")
         \o PolicyBypass(passes) \o Step("ensure", "inAccept") \o Step("ensure", "wanDrop")
    [] path = "redirect" ->
         Step("ipRule", "none") \o Cleanup("polJumpN") \o DropDpi(dpi)
         \o Step("batch", "nat") \o (IF dpi THEN Step("batch", "dpi") ELSE <<>>)
         \o PolicyBypass(passes) \o Step("ensure", "inAccept") \o Step("ensure", "wanDrop")
    [] path = "full" ->
         Step("sets", "none") \o Step("ipRule", "none")
         \o Cleanup("queueJump") \o Cleanup("portsJump") \o Cleanup("fullJump")
         \o Step("batch", "mangle") \o LetBy("admin", passes) \o LetBy("exclude", passes)
         \o Step("ensure", "wanDrop")

\* Mutant: Remove believes the mode and leaves the nat table alone.
RemoveMangleOnly ==
  Step("delete", "fwdAccept") \o Step("drop", "polJumpM") \o Step("drop", "queueJump")
  \o Step("drop", "portsJump") \o Step("drop", "fullJump") \o Step("drop", "dpiJump")
  \o Step("chain", "dpi") \o Step("chain", "policyM") \o Step("chain", "queue")
  \o Step("chain", "ports") \o Step("chain", "full")
  \o Step("unroute", "none") \o Step("ipRuleOff", "none") \o Step("destroy", "none")
  \o Step("delete", "wanDrop") \o Step("fastOn", "none")

\* Remove, call by call.
RemoveSteps ==
  Step("delete", "fwdAccept") \o Step("drop", "polJumpM") \o Step("drop", "queueJump")
  \o Step("drop", "portsJump") \o Step("drop", "fullJump")
  \o Step("drop", "polJumpN") \o Step("drop", "dpiJump")
  \o Step("chain", "dpi") \o Step("chain", "policyM") \o Step("chain", "queue")
  \o Step("chain", "ports") \o Step("chain", "full") \o Step("chain", "policyN")
  \o Step("unroute", "none") \o Step("ipRuleOff", "none") \o Step("destroy", "none")
  \o Step("delete", "wanDrop") \o Step("fastOn", "none")

\* The chains and jumps of ModeFull: all three chains are declared, the jump to
\* signcraze_ports comes with its rules.
FullFill(dpi, ports) == [full  |-> <<"capture">>,
                         queue |-> IF dpi THEN <<"queue">> ELSE <<>>,
                         ports |-> IF ports THEN <<"capture">> ELSE <<>>]
FullJumps(ports) == {"queueJump", "fullJump"} \cup (IF ports THEN {"portsJump"} ELSE {})

\* The batch of table t for path p.
Batch(p, t, dpi, ports) ==
  CASE t = "mangle" /\ p = "tun" ->
         RestoreBatch(PolicyFill("policyM", dpi), {"polJumpM", "tcpmss"} \cup DpiJump(dpi))
    [] t = "mangle" /\ p = "tproxy" ->
         RestoreBatch(PolicyFill("policyM", dpi), {"polJumpM"} \cup DpiJump(dpi))
    [] t = "mangle" /\ p = "full" -> RestoreBatch(FullFill(dpi, ports), FullJumps(ports))
    [] t = "filter" -> RestoreBatch(<<>>, {"fwdAccept"})
    [] t = "nat" -> RestoreBatch([policyN |-> <<"capture">>], {"polJumpN"})
    [] t = "dpi" -> RestoreBatch(DpiFill(TRUE), {"dpiJump"})

\* A call that must find its chain and does not returns an error.
Possible(s) == s.do = "bypass" => CaptureChain[op.path] \in k.exist

Effect(s) ==
  CASE s.do \in {"preflight", "wan"} -> k
    [] s.do = "fastOff"   -> DisableFastPath
    [] s.do = "fastOn"    -> RestoreFastPath
    [] s.do = "ipRule"    -> [k EXCEPT !.ipRule = TRUE]
    [] s.do = "ipRuleOff" -> [k EXCEPT !.ipRule = FALSE]
    [] s.do = "sets"      -> [k EXCEPT !.sets = TRUE]
    [] s.do = "destroy"   -> [k EXCEPT !.sets = (@ /\ k.body["full"] # <<>>)]
    [] s.do = "route"     -> [k EXCEPT !.routes = @ \cup {"local"}]
    [] s.do = "unroute"   -> [k EXCEPT !.routes = @ \ {IF op.tproxy THEN "local" ELSE "tun"}]
    [] s.do = "drop"      -> DeleteJumpAll(s.on)
    [] s.do = "delete"    -> IF s.on = "wanDrop" /\ ~op.wan THEN k ELSE DeleteRule(s.on)
    [] s.do = "ensure"    -> EnsureRule(s.on)
    [] s.do = "batch"     -> Batch(op.path, s.on, op.dpi, op.ports)
    [] s.do = "bypass"    -> InsertRule(CaptureChain[op.path], s.on)
    [] s.do = "chain"     -> DeleteChain(s.on)

-----------------------------------------------------------------------------
(* Operations.                                                             *)

\* The path applyPolicyMode takes: TPROXY only if the kernel modules load.
PathOf(c, loads) == IF c.mode = "full" THEN "full"
                    ELSE IF ~c.tproxy THEN "tun" ELSE IF loads THEN "tproxy" ELSE "redirect"

SpendOp == used.ops < MaxOps /\ used' = [used EXCEPT !.ops = @ + 1]
SpendEvent == used.events < MaxEvents /\ used' = [used EXCEPT !.events = @ + 1]

\* A new applier is built from state.json: its WAN interface is not known yet.
Begin(name, path, todo) ==
  op' = [name |-> name, todo |-> todo, path |-> path, dpi |-> cfg.dpi, ports |-> cfg.ports,
         tproxy |-> cfg.tproxy, wan |-> FALSE]

\* What the operation on path p is about to install.
Aim(p, passes) == done' = [what |-> "none", path |-> p, ports |-> cfg.ports, passes |-> passes, calm |-> TRUE]

Apply == \E loads, lan \in BOOLEAN :
  /\ op.name = "idle" /\ SpendOp
  /\ LET p == PathOf(cfg, loads)
         passes == PassesOf(cfg, p, lan)
     IN  /\ Begin("apply", p, Step("preflight", "none") \o Step("fastOff", "none")
                                   \o Step("wan", "none") \o ApplySteps(p, cfg.dpi, passes))
         /\ Aim(p, passes)
  /\ UNCHANGED <<k, cfg>>

Reconcile == \E loads, lan \in BOOLEAN :
  /\ op.name = "idle" /\ SpendOp
  /\ LET p == PathOf(cfg, loads)
         passes == PassesOf(cfg, p, lan)
     IN  /\ Begin("reconcile", p, Step("wan", "none") \o ApplySteps(p, cfg.dpi, passes))
         /\ Aim(p, passes)
  /\ UNCHANGED <<k, cfg>>

Remove ==
  /\ op.name = "idle" /\ SpendOp
  /\ Begin("remove", "tun", RemoveSteps)
  /\ done' = [done EXCEPT !.what = "none", !.calm = TRUE]
  /\ UNCHANGED <<k, cfg>>

\* The running operation goes on to its next call, or ends after the last one.
Advance(calm) ==
  LET last == Tail(op.todo) = <<>>
  IN  /\ op' = IF last THEN Idle
               ELSE [op EXCEPT !.todo = Tail(@), !.wan = @ \/ Head(op.todo).do = "wan"]
      /\ done' = [done EXCEPT !.calm = calm,
                              !.what = IF ~last THEN @
                                       ELSE IF op.name \in {"remove", "rollback"} THEN "removed" ELSE "applied"]

Call ==
  /\ op.todo # <<>> /\ Possible(Head(op.todo))
  /\ k' = Effect(Head(op.todo))
  /\ Advance(done.calm)
  /\ UNCHANGED <<cfg, used>>

\* Calls whose failure is at most logged. DeleteJumpAll takes every error, a
\* busy xtables lock too, for `no such rule`.
Tolerated == {"fastOff", "drop", "delete", "chain", "unroute", "ipRuleOff", "destroy", "fastOn"}

\* What a call whose failure is only logged has done. DisableFastPath may have saved
\* the values before it failed to write 0. RestoreFastPath removes the file after a
\* write that failed, or when it cannot parse it; it may also fail to read the file,
\* or to remove it after the write.
Leaves(s) ==
  {k} \cup CASE s.do = "fastOff" -> {[DisableFastPath EXCEPT !.fast = k.fast]}
           [] s.do = "fastOn"  -> {[k EXCEPT !.saved = {}], [RestoreFastPath EXCEPT !.saved = k.saved]}
           [] OTHER            -> {}

\* The file is gone and the values it held were not restored.
Forgets == k'.saved = {} /\ k'.fast # k.factory

CallLost ==
  /\ op.todo # <<>> /\ Head(op.todo).do \in Tolerated
  /\ used.events < MaxEvents
  /\ k' \in Leaves(Head(op.todo))
  /\ used' = [used EXCEPT !.events = @ + 1, !.lost = @ + 1, !.forgot = @ \/ Forgets]
  /\ Advance(FALSE)
  /\ UNCHANGED cfg

\* Any other call fails. Apply rolls back with its own applier, which knows the WAN
\* interface; Reconcile gives up where it is. A failing pre-flight, before
\* anything was done, is returned as it is.
Fail ==
  /\ op.todo # <<>> /\ Head(op.todo).do \notin Tolerated
  /\ op' = IF op.name = "apply" /\ Head(op.todo).do # "preflight"
             THEN [op EXCEPT !.name = "rollback", !.todo = RemoveSteps] ELSE Idle
  /\ UNCHANGED <<k, cfg, done>>

\* iptables refuses because NDM rebuilt the table meanwhile.
CallRefused ==
  /\ op.todo # <<>> /\ ~Possible(Head(op.todo))
  /\ Fail /\ UNCHANGED used

\* A failure of its own: xtables lock, missing module, no WAN interface.
CallFails == SpendEvent /\ Fail

\* NDM rebuilds a table: what sign-craze had in it is gone.
Rebuild(t) ==
  /\ SpendEvent
  /\ k' = [k EXCEPT !.sys = [r \in SysRule |-> IF InTable(t, r) THEN 0 ELSE @[r]],
                    !.exist = {c \in @ : ~InTable(t, c)},
                    !.body = [c \in Chain |-> IF InTable(t, c) THEN <<>> ELSE @[c]]]
  /\ done' = [done EXCEPT !.calm = FALSE, !.what = IF @ = "applied" THEN "none" ELSE @]
  /\ UNCHANGED <<cfg, op>>

\* The process is killed between two calls.
Killed ==
  /\ op.name # "idle" /\ SpendEvent
  /\ op' = Idle
  /\ UNCHANGED <<k, cfg, done>>

\* The router restarts: only the saved sysctl values survive.
Reboot ==
  /\ used.events < MaxEvents
  /\ used' = [used EXCEPT !.events = @ + 1, !.forgot = @ /\ k.saved # {}]
  /\ k' = [k EXCEPT !.sys = NoRules, !.exist = {}, !.body = NoChains, !.ipRule = FALSE,
                    !.routes = {}, !.sets = FALSE, !.fast = k.factory]
  /\ op' = Idle
  /\ done' = [done EXCEPT !.what = "none"]
  /\ UNCHANGED cfg

\* doStart after the core came up: AttachTUN, a no-op in TPROXY mode.
AttachTUN ==
  /\ op.name = "idle" /\ done.what = "applied" /\ "tun" \notin k.routes /\ ~cfg.tproxy
  /\ k' = [k EXCEPT !.routes = @ \cup {"tun"}]
  /\ UNCHANGED <<cfg, op, done, used>>

\* --mode, --dpi, --inbound write state.json; the firewall is left alone.
Configure ==
  /\ SpendEvent
  /\ cfg' \in Settings /\ cfg' # cfg
  /\ UNCHANGED <<k, op, done>>

Next == \/ Apply \/ Reconcile \/ Remove \/ Call \/ CallLost \/ CallRefused \/ CallFails
        \/ \E t \in {"mangle", "nat", "filter"} : Rebuild(t)
        \/ Killed \/ Reboot \/ AttachTUN \/ Configure

Spec == Init /\ [][Next]_vars

-----------------------------------------------------------------------------
(* Properties.                                                             *)

TypeOK ==
  /\ k.sys \in [SysRule -> Nat] /\ k.exist \subseteq Chain
  /\ DOMAIN k.body = Chain
  /\ k.ipRule \in BOOLEAN /\ k.sets \in BOOLEAN /\ k.routes \subseteq {"tun", "local"}
  /\ k.fast \in {0, 1} /\ k.saved \subseteq {0, 1} /\ Cardinality(k.saved) <= 1
  /\ cfg \in Settings
  /\ op.name \in {"idle", "apply", "reconcile", "remove", "rollback"}
  /\ done.what \in {"none", "applied", "removed"}

\* Every lost deletion may leave one more copy of a jump: DeleteJumpAll finds
\* them all as long as fewer were lost than it deletes.
Deletable == used.lost < maxIter

\* After Remove, and after an Apply that rolled back, no rule diverts traffic
\* any more, whatever was installed before and however it got there (unless
\* a deletion failed, which is only logged).
RemoveReleasesTraffic ==
  done.what = "removed" /\ done.calm /\ Deletable =>
    /\ \A r \in {"polJumpM", "polJumpN", "fullJump", "portsJump"} : k.sys[r] = 0
    /\ k.exist \cap {"policyM", "policyN", "full", "ports"} = {} /\ ~k.ipRule /\ ~k.sets

\* After Remove the router's fast path is what it was before the first Apply, also
\* when Apply ran twice, was killed, or the router restarted in between - unless a
\* restore once failed and removed the saved values all the same, and the router
\* has not restarted since.
FastPathComesBack == done.what = "removed" /\ done.calm /\ ~used.forgot => k.fast = k.factory

\* A successful Apply or Reconcile has captured the traffic it is about, through one
\* jump to each chain that captures, if NDM left the tables alone meanwhile.
AppliedCaptures ==
  done.what = "applied" /\ done.calm /\ Deletable =>
    /\ k.ipRule
    /\ \A c \in CaptureChains(done.path, done.ports) :
         /\ k.sys[JumpTo[c]] = 1 /\ c \in k.exist
         /\ \E i \in DOMAIN k.body[c] : k.body[c][i] = "capture"

\* BEHAVIOR_SPEC 3a: traffic to the router itself is let through before anything is
\* captured in the chain of the policy, and in signcraze of ModeFull (there the
\* excluded destinations too), once Apply or Reconcile has succeeded.
BypassComesFirst ==
  done.what = "applied" =>
    LET b == k.body[CaptureChain[done.path]]
    IN  /\ \A i, j \in DOMAIN b : b[i] \in Bypass /\ b[j] = "capture" => i < j
        /\ done.calm => \A x \in done.passes : \E i \in DOMAIN b : b[i] = x

=============================================================================
