--------------------------- MODULE FirewallProofs ---------------------------
(***************************************************************************)
(* Theorems about Firewall: Remove releases the traffic and the fast path, *)
(* Apply and Reconcile capture it once, behind the bypass rules.           *)
(***************************************************************************)
EXTENDS Firewall, FiniteSetTheorems, TLAPS

Kinds == {"preflight", "fastOff", "fastOn", "wan", "ipRule", "ipRuleOff", "sets", "destroy", "route", "unroute",
          "drop", "delete", "ensure", "batch", "bypass", "chain"}
Jumps == {"polJumpM", "polJumpN", "fullJump", "portsJump"}
Captures == {"policyM", "policyN", "full", "ports"}
Batches == {"mangle", "nat", "filter", "dpi"}
StepType ==
  {s \in [do : Kinds, on : {"none", "local"} \cup SysRule \cup Chain \cup Bypass \cup Batches] :
     /\ s.do = "drop" => s.on \in Jumps \cup {"dpiJump", "queueJump"}
     /\ s.do = "delete" => s.on \in {"fwdAccept", "wanDrop"}
     /\ s.do = "ensure" => s.on \in {"inAccept", "wanDrop"}
     /\ s.do = "batch" => s.on \in Batches
     /\ s.do = "bypass" => s.on \in Bypass
     /\ s.do = "chain" => s.on \in Chain}
RuleKind == {"capture", "queue"} \cup Bypass
KType == [sys : [SysRule -> Nat], exist : SUBSET Chain, body : [Chain -> Seq(RuleKind)], ipRule : BOOLEAN,
          routes : SUBSET {"tun", "local"}, sets : BOOLEAN, fast : {0, 1}, saved : SUBSET {0, 1}, factory : {0, 1}]
OpType == [name : {"idle", "apply", "reconcile", "remove", "rollback"}, todo : Seq(StepType), path : Path,
           dpi : BOOLEAN, ports : BOOLEAN, tproxy : BOOLEAN, wan : BOOLEAN]
DoneType == [what : {"none", "applied", "removed"}, path : Path, ports : BOOLEAN, passes : SUBSET Bypass, calm : BOOLEAN]
UsedType == [ops : Nat, events : Nat, lost : Nat, forgot : BOOLEAN]

Types ==
  /\ k \in KType /\ op \in OpType /\ done \in DoneType
  /\ cfg \in Settings /\ used \in UsedType

\* One value is saved at most, it is the factory's, and without one nothing was
\* changed, unless a restore forgot it.
FastPath ==
  /\ \E v \in {0, 1} : k.saved \subseteq {v}
  /\ ~used.forgot => k.saved \subseteq {k.factory} /\ (k.saved = {} => k.fast = k.factory)

InBody(b, kind) == \E i \in DOMAIN b : b[i] = kind
\* Nothing is captured before it could be let through.
Fronted(b) == \A i, j \in DOMAIN b : b[i] \in Bypass /\ b[j] = "capture" => i < j
Fronts == \A c \in Chain : Fronted(k.body[c])

\* Every copy of a jump but one is a deletion that was lost.
Bound == \A j \in Jumps : k.sys[j] <= 1 + used.lost

-----------------------------------------------------------------------------
(* Lists of calls.                                                         *)

Has(t, what, x) == \E i \in DOMAIN t : t[i].do = what /\ t[i].on = x

\* The table whose batch brings the jump and the chain of a path.
Table(p) == IF p = "redirect" THEN "nat" ELSE "mangle"

Early(s) == s.do \in {"preflight", "fastOff", "wan", "ipRule", "sets", "drop"}
Main(p, s) == s.do = "batch" /\ s.on = Table(p)
Late(s) == s.do \in {"bypass", "ensure", "route"} \/ (s.do = "batch" /\ s.on \in {"filter", "dpi"})
AllLate(t) == \A i \in DOMAIN t : Late(t[i])

\* What clears the way comes before the batch, the bypass after it.
Staged(p, t) ==
  /\ \A i \in DOMAIN t : Early(t[i]) \/ Main(p, t[i]) \/ Late(t[i])
  /\ \A i, j \in DOMAIN t : i < j /\ ~Early(t[i]) => Late(t[j])

\* Jumps go before their chains, chains before the ipsets they match.
Clearing == {"delete", "drop", "chain", "unroute", "ipRuleOff", "destroy", "fastOn"}
Tidy(t) ==
  /\ \A i \in DOMAIN t : t[i].do \in Clearing
  /\ \A i, j \in DOMAIN t : i < j /\ t[j].do = "drop" => t[i].do \in {"delete", "drop"}
  /\ \A i, j \in DOMAIN t : i < j /\ t[j].do = "chain" => t[i].do \in {"delete", "drop", "chain"}

-----------------------------------------------------------------------------
(* How far an operation has come, with the calls t still to make.          *)

\* A jump of an earlier Apply goes before the batch adds its own.
Cleared(t, c, kern, calm, lost) ==
  \/ Has(t, "drop", JumpTo[c])
  \/ kern.sys[JumpTo[c]] <= lost /\ (calm /\ lost < maxIter => kern.sys[JumpTo[c]] = 0)

\* One jump leads to a chain that captures.
Reached(c, kern, lost) ==
  (lost < maxIter => kern.sys[JumpTo[c]] = 1) /\ c \in kern.exist /\ InBody(kern.body[c], "capture")

\* Apply and Reconcile on path p: before the batch and after it.
Applying(t, p, ports, passes, kern, calm, lost) ==
  /\ Staged(p, t)
  /\ kern.ipRule \/ Has(t, "ipRule", "none")
  /\ \/ /\ Has(t, "batch", Table(p)) /\ \A x \in passes : Has(t, "bypass", x)
        /\ \A c \in CaptureChains(p, ports) : Cleared(t, c, kern, calm, lost)
     \/ /\ AllLate(t)
        /\ calm => /\ \A c \in CaptureChains(p, ports) : Reached(c, kern, lost)
                   /\ \A x \in passes : Has(t, "bypass", x) \/ InBody(kern.body[CaptureChain[p]], x)

\* Remove and the rollback of Apply: what is still there is still on the list.
Removing(t, kern, calm, lost, forgot) ==
  /\ Tidy(t)
  /\ calm /\ lost < maxIter =>
       /\ \A j \in Jumps : kern.sys[j] = 0 \/ Has(t, "drop", j)
       /\ \A c \in Captures : c \notin kern.exist \/ Has(t, "chain", c)
  /\ calm => /\ ~kern.ipRule \/ Has(t, "ipRuleOff", "none")
             /\ kern.body["full"] = <<>> \/ Has(t, "chain", "full")
             /\ ~kern.sets \/ Has(t, "destroy", "none")
             /\ forgot \/ kern.fast = kern.factory \/ Has(t, "fastOn", "none")

Course ==
  /\ op.name \in {"apply", "reconcile"} =>
       /\ done.path = op.path /\ done.ports = op.ports
       /\ Applying(op.todo, op.path, op.ports, done.passes, k, done.calm, used.lost)
  /\ op.name \in {"remove", "rollback"} => Removing(op.todo, k, done.calm, used.lost, used.forgot)
  /\ op.name # "idle" => done.what = "none"
  /\ op.name = "idle" => op.todo = <<>>

Results == RemoveReleasesTraffic /\ FastPathComesBack /\ AppliedCaptures /\ BypassComesFirst

FirewallInv == Types /\ FastPath /\ Fronts /\ Bound /\ Course /\ Results

-----------------------------------------------------------------------------
(* Lists of calls: what lists are made of.                                 *)

\* The elements of a list.
LEMMA Elements ==
  ASSUME NEW t \in Seq(StepType)
  PROVE  /\ Len(t) \in Nat /\ DOMAIN t = 1..Len(t) /\ \A i \in DOMAIN t : t[i] \in StepType
         /\ t # <<>> => Len(t) > 0 /\ 1 \in DOMAIN t /\ Head(t) = t[1] /\ Head(t) \in StepType
OBVIOUS

\* The first call of a list, and what follows it.
LEMMA TailIs ==
  ASSUME NEW t \in Seq(StepType), t # <<>>, NEW s, s = Head(t), NEW u, u = Tail(t)
  PROVE  /\ s \in StepType /\ u \in Seq(StepType) /\ Has(t, s.do, s.on)
         /\ \A w, x : Has(u, w, x) => Has(t, w, x)
         /\ \A w, x : Has(t, w, x) /\ ~(w = s.do /\ x = s.on) => Has(u, w, x)
         /\ \A p : Staged(p, t) => Staged(p, u) /\ (Early(s) \/ AllLate(u)) /\ (Early(s) \/ Main(p, s) \/ Late(s))
         /\ AllLate(t) => Late(s) /\ AllLate(u)
         /\ Tidy(t) => /\ Tidy(u) /\ s.do \in Clearing
                       /\ s.do \notin {"delete", "drop"} => \A x : ~Has(u, "drop", x)
                       /\ s.do \notin {"delete", "drop", "chain"} => \A x : ~Has(u, "chain", x)
<1>1. /\ Len(t) \in Nat /\ Len(t) > 0 /\ DOMAIN t = 1..Len(t) /\ 1 \in DOMAIN t /\ s = t[1] /\ s \in StepType
  BY Elements
<1>2. u \in Seq(StepType) /\ Len(u) = Len(t) - 1 /\ DOMAIN u = 1..Len(u) /\ \A i \in 1..Len(u) : u[i] = t[i + 1]
  BY <1>1
<1>3. /\ \A i \in DOMAIN u : i \in Nat /\ i + 1 \in DOMAIN t /\ u[i] = t[i + 1] /\ 1 < i + 1
      /\ \A i \in DOMAIN t : i # 1 => i - 1 \in DOMAIN u /\ t[i] = u[i - 1]
  <2>1. \A i \in DOMAIN t : i # 1 => i - 1 \in 1..Len(u) /\ (i - 1) + 1 = i
    BY <1>1, <1>2
  <2>2. \A i \in 1..Len(u) : i + 1 \in 1..Len(t) /\ i \in Nat /\ 1 < i + 1
    BY <1>1, <1>2
  <2>3. QED
    BY <1>1, <1>2, <2>1, <2>2
<1>4. Has(t, s.do, s.on)
  BY <1>1 DEF Has
<1>5. \A w, x : Has(u, w, x) => Has(t, w, x)
  BY <1>3 DEF Has
<1>6. ASSUME NEW w, NEW x, Has(t, w, x), ~(w = s.do /\ x = s.on) PROVE Has(u, w, x)
  <2>1. PICK i \in DOMAIN t : t[i].do = w /\ t[i].on = x
    BY <1>6 DEF Has
  <2>2. i # 1
    BY <1>1, <1>6, <2>1
  <2>3. QED
    BY <1>3, <2>1, <2>2 DEF Has
<1>7. ASSUME NEW p, Staged(p, t)
      PROVE  Staged(p, u) /\ (Early(s) \/ AllLate(u)) /\ (Early(s) \/ Main(p, s) \/ Late(s))
  <2>1. \A i \in DOMAIN u : Early(u[i]) \/ Main(p, u[i]) \/ Late(u[i])
    BY <1>3, <1>7 DEF Staged
  <2>2. ASSUME NEW i \in DOMAIN u, NEW j \in DOMAIN u, i < j, ~Early(u[i]) PROVE Late(u[j])
    <3>1. i + 1 < j + 1 /\ i + 1 \in DOMAIN t /\ j + 1 \in DOMAIN t /\ u[i] = t[i + 1] /\ u[j] = t[j + 1]
      BY <1>3, <2>2
    <3>2. QED
      BY <1>7, <2>2, <3>1 DEF Staged
  <2>3. Early(s) \/ AllLate(u)
    BY <1>1, <1>3, <1>7 DEF Staged, AllLate
  <2>4. Early(s) \/ Main(p, s) \/ Late(s)
    BY <1>1, <1>7 DEF Staged
  <2>5. QED
    BY <2>1, <2>2, <2>3, <2>4 DEF Staged
<1>8. AllLate(t) => Late(s) /\ AllLate(u)
  BY <1>1, <1>3 DEF AllLate
<1>9. ASSUME Tidy(t)
      PROVE  /\ Tidy(u) /\ s.do \in Clearing
             /\ s.do \notin {"delete", "drop"} => \A x : ~Has(u, "drop", x)
             /\ s.do \notin {"delete", "drop", "chain"} => \A x : ~Has(u, "chain", x)
  <2>1. /\ \A i \in DOMAIN t : t[i].do \in Clearing
        /\ \A i, j \in DOMAIN t : i < j /\ t[j].do = "drop" => t[i].do \in {"delete", "drop"}
        /\ \A i, j \in DOMAIN t : i < j /\ t[j].do = "chain" => t[i].do \in {"delete", "drop", "chain"}
    BY <1>9 DEF Tidy
  <2>2. \A i, j \in DOMAIN u : i < j => i + 1 < j + 1
    BY <1>3
  <2>3. Tidy(u)
    BY <1>3, <2>1, <2>2 DEF Tidy
  <2>4. QED
    BY <1>1, <1>3, <2>1, <2>3 DEF Has
<1>10. QED
  BY <1>1, <1>2, <1>4, <1>5, <1>6, <1>7, <1>8, <1>9

AllEarly(t) == \A i \in DOMAIN t : Early(t[i])
Only(t, kinds) == \A i \in DOMAIN t : t[i].do \in kinds

\* Lists behind each other.
LEMMA ConcatIs ==
  ASSUME NEW t \in Seq(StepType), NEW u \in Seq(StepType), NEW v, v = t \o u
  PROVE  /\ v \in Seq(StepType)
         /\ \A w, x : Has(v, w, x) <=> Has(t, w, x) \/ Has(u, w, x)
         /\ \A kinds : Only(t, kinds) /\ Only(u, kinds) => Only(v, kinds)
         /\ AllEarly(t) /\ AllEarly(u) => AllEarly(v)
         /\ AllLate(t) /\ AllLate(u) => AllLate(v)
         /\ \A p : AllEarly(t) /\ Staged(p, u) => Staged(p, v)
         /\ \A p : Staged(p, t) /\ AllLate(u) => Staged(p, v)
         /\ Only(t, {"delete", "drop"}) /\ Tidy(u) => Tidy(v)
         /\ Tidy(t) /\ Only(u, Clearing \ {"drop", "chain"}) => Tidy(v)
<1>1. /\ v \in Seq(StepType) /\ Len(v) = Len(t) + Len(u) /\ Len(t) \in Nat /\ Len(u) \in Nat
      /\ DOMAIN t = 1..Len(t) /\ DOMAIN u = 1..Len(u) /\ DOMAIN v = 1..(Len(t) + Len(u))
      /\ \A i \in 1..Len(t) : v[i] = t[i]
      /\ \A i \in (Len(t) + 1)..(Len(t) + Len(u)) : v[i] = u[i - Len(t)]
  OBVIOUS
<1>2. /\ \A i \in DOMAIN v : i \in Nat /\ (i > Len(t) \/ i <= Len(t))
      /\ \A i \in DOMAIN v : i <= Len(t) => i \in DOMAIN t /\ v[i] = t[i]
      /\ \A i \in DOMAIN v : i > Len(t) => i - Len(t) \in DOMAIN u /\ v[i] = u[i - Len(t)]
      /\ \A i \in DOMAIN u : i + Len(t) \in DOMAIN v /\ v[i + Len(t)] = u[i]
      /\ \A i \in DOMAIN t : i \in DOMAIN v /\ v[i] = t[i]
  <2>1. \A i \in 1..Len(u) : i + Len(t) \in (Len(t) + 1)..(Len(t) + Len(u)) /\ (i + Len(t)) - Len(t) = i
    BY <1>1
  <2>2. QED
    BY <1>1, <2>1
<1>3. /\ \A i, j \in DOMAIN v : i < j /\ j <= Len(t) => i <= Len(t)
      /\ \A i, j \in DOMAIN v : i < j /\ i > Len(t) => j > Len(t) /\ i - Len(t) < j - Len(t)
  BY <1>1
<1>4. ASSUME NEW w, NEW x PROVE Has(v, w, x) <=> Has(t, w, x) \/ Has(u, w, x)
  <2>1. Has(v, w, x) => Has(t, w, x) \/ Has(u, w, x)
    BY <1>2 DEF Has
  <2>2. Has(t, w, x) => Has(v, w, x)
    BY <1>2 DEF Has
  <2>3. ASSUME Has(u, w, x) PROVE Has(v, w, x)
    <3>1. PICK i \in DOMAIN u : u[i].do = w /\ u[i].on = x
      BY <2>3 DEF Has
    <3>2. i + Len(t) \in DOMAIN v /\ v[i + Len(t)] = u[i]
      BY <1>2
    <3>3. QED
      BY <3>1, <3>2 DEF Has
  <2>4. QED
    BY <2>1, <2>2, <2>3
<1>5. ASSUME NEW kinds, Only(t, kinds), Only(u, kinds) PROVE Only(v, kinds)
  BY <1>2, <1>5 DEF Only
<1>6. ASSUME AllEarly(t), AllEarly(u) PROVE AllEarly(v)
  BY <1>2, <1>6 DEF AllEarly
<1>7. ASSUME NEW p, AllEarly(t), Staged(p, u) PROVE Staged(p, v)
  <2>1. \A i \in DOMAIN v : Early(v[i]) \/ Main(p, v[i]) \/ Late(v[i])
    BY <1>2, <1>7 DEF AllEarly, Staged
  <2>2. ASSUME NEW i \in DOMAIN v, NEW j \in DOMAIN v, i < j, ~Early(v[i]) PROVE Late(v[j])
    <3>1. i > Len(t)
      BY <1>2, <1>7, <2>2 DEF AllEarly
    <3>2. QED
      BY <1>2, <1>3, <1>7, <2>2, <3>1 DEF Staged
  <2>3. QED
    BY <2>1, <2>2 DEF Staged
<1>8. ASSUME NEW p, Staged(p, t), AllLate(u) PROVE Staged(p, v)
  <2>1. \A i \in DOMAIN v : Early(v[i]) \/ Main(p, v[i]) \/ Late(v[i])
    BY <1>2, <1>8 DEF AllLate, Staged
  <2>2. ASSUME NEW i \in DOMAIN v, NEW j \in DOMAIN v, i < j, ~Early(v[i]) PROVE Late(v[j])
    <3>1. CASE j > Len(t)
      BY <1>2, <1>8, <3>1 DEF AllLate
    <3>2. CASE j <= Len(t)
      BY <1>2, <1>3, <1>8, <2>2, <3>2 DEF Staged
    <3>3. QED
      BY <1>2, <3>1, <3>2
  <2>3. QED
    BY <2>1, <2>2 DEF Staged
<1>9. ASSUME Only(t, {"delete", "drop"}), Tidy(u) PROVE Tidy(v)
  <2>1. \A i \in DOMAIN v : v[i].do \in Clearing
    BY <1>2, <1>9 DEF Only, Tidy, Clearing
  <2>2. ASSUME NEW i \in DOMAIN v, NEW j \in DOMAIN v, i < j
        PROVE  /\ v[j].do = "drop" => v[i].do \in {"delete", "drop"}
               /\ v[j].do = "chain" => v[i].do \in {"delete", "drop", "chain"}
    <3>1. CASE i <= Len(t)
      BY <1>2, <1>9, <3>1 DEF Only
    <3>2. CASE i > Len(t)
      BY <1>2, <1>3, <1>9, <2>2, <3>2 DEF Tidy
    <3>3. QED
      BY <1>2, <3>1, <3>2
  <2>3. QED
    BY <2>1, <2>2 DEF Tidy
<1>10. ASSUME Tidy(t), Only(u, Clearing \ {"drop", "chain"}) PROVE Tidy(v)
  <2>1. \A i \in DOMAIN v : v[i].do \in Clearing
    BY <1>2, <1>10 DEF Only, Tidy
  <2>2. ASSUME NEW i \in DOMAIN v, NEW j \in DOMAIN v, i < j
        PROVE  /\ v[j].do = "drop" => v[i].do \in {"delete", "drop"}
               /\ v[j].do = "chain" => v[i].do \in {"delete", "drop", "chain"}
    <3>1. CASE j <= Len(t)
      BY <1>2, <1>3, <1>10, <2>2, <3>1 DEF Tidy
    <3>2. CASE j > Len(t)
      BY <1>2, <1>10, <3>2 DEF Only
    <3>3. QED
      BY <1>2, <3>1, <3>2
  <2>3. QED
    BY <2>1, <2>2 DEF Tidy
<1>11. AllLate(t) /\ AllLate(u) => AllLate(v)
  BY <1>2 DEF AllLate
<1>12. QED
  BY <1>1, <1>4, <1>5, <1>6, <1>7, <1>8, <1>9, <1>10, <1>11

\* A call that may be on a list.
Typed(what, on) == [do |-> what, on |-> on] \in StepType

\* A list of one call.
LEMMA OneIs ==
  ASSUME NEW what, NEW on, Typed(what, on), NEW t, t = Step(what, on)
  PROVE  /\ t \in Seq(StepType)
         /\ \A w, x : Has(t, w, x) <=> w = what /\ x = on
         /\ \A kinds : Only(t, kinds) <=> what \in kinds
         /\ AllEarly(t) <=> what \in {"preflight", "fastOff", "wan", "ipRule", "sets", "drop"}
         /\ AllLate(t) <=> what \in {"bypass", "ensure", "route"} \/ (what = "batch" /\ on \in {"filter", "dpi"})
         /\ \A p : Staged(p, t) <=> \/ what \in {"preflight", "fastOff", "wan", "ipRule", "sets", "drop"}
                                    \/ what = "batch" /\ on = Table(p)
                                    \/ what \in {"bypass", "ensure", "route"} \/ (what = "batch" /\ on \in {"filter", "dpi"})
         /\ Tidy(t) <=> what \in Clearing
<1>1. t = <<[do |-> what, on |-> on]>>
  BY DEF Step
<1>2. t \in Seq(StepType) /\ DOMAIN t = {1} /\ t[1].do = what /\ t[1].on = on
  BY <1>1 DEF Typed
<1>3. \A w, x : Has(t, w, x) <=> w = what /\ x = on
  BY <1>2 DEF Has
<1>4. \A kinds : Only(t, kinds) <=> what \in kinds
  BY <1>2 DEF Only
<1>5. AllEarly(t) <=> what \in {"preflight", "fastOff", "wan", "ipRule", "sets", "drop"}
  BY <1>2 DEF AllEarly, Early
<1>6. AllLate(t) <=> what \in {"bypass", "ensure", "route"} \/ (what = "batch" /\ on \in {"filter", "dpi"})
  BY <1>2 DEF AllLate, Late
<1>7. \A p : Staged(p, t) <=> Early(t[1]) \/ Main(p, t[1]) \/ Late(t[1])
  BY <1>2 DEF Staged
<1>8. Tidy(t) <=> what \in Clearing
  BY <1>2 DEF Tidy
<1>9. QED
  BY <1>2, <1>3, <1>4, <1>5, <1>6, <1>7, <1>8 DEF Early, Main, Late

\* What is a call.
LEMMA Calls ==
  /\ \A w \in {"preflight", "fastOff", "fastOn", "wan", "ipRule", "ipRuleOff", "sets", "destroy", "unroute"} :
       Typed(w, "none")
  /\ \A j \in Jumps \cup {"dpiJump", "queueJump"} : Typed("drop", j)
  /\ \A r \in {"fwdAccept", "wanDrop"} : Typed("delete", r)
  /\ \A r \in {"inAccept", "wanDrop"} : Typed("ensure", r)
  /\ \A b \in Batches : Typed("batch", b)
  /\ \A x \in Bypass : Typed("bypass", x)
  /\ \A c \in Chain : Typed("chain", c)
  /\ Typed("route", "local")
BY DEF Typed, StepType, Kinds, Jumps, Batches, SysRule, Bypass, Chain

\* The lists of Apply and Reconcile, up to the batch and from it on.
Opens(t, j) == t \in Seq(StepType) /\ AllEarly(t) /\ Has(t, "ipRule", "none") /\ Has(t, "drop", j)
Fills(t, p, j) == /\ t \in Seq(StepType) /\ Staged(p, t) /\ Has(t, "ipRule", "none") /\ Has(t, "drop", j)
                  /\ Has(t, "batch", Table(p))

\* The batch follows what clears the way.
LEMMA OpensFills ==
  ASSUME NEW p \in Path, NEW j, NEW t, Opens(t, j), NEW v, v = t \o Step("batch", Table(p))
  PROVE  Fills(v, p, j)
<1>1. PICK u : u = Step("batch", Table(p))
  OBVIOUS
<1>2. Typed("batch", Table(p))
  BY Calls DEF Table, Batches
<1>3. u \in Seq(StepType) /\ Staged(p, u) /\ Has(u, "batch", Table(p))
  BY <1>1, <1>2, OneIs
<1>4. QED
  BY <1>1, <1>3, ConcatIs DEF Opens, Fills

\* Whatever comes late may follow.
LEMMA FillsLate ==
  ASSUME NEW p, NEW j, NEW t, Fills(t, p, j), NEW u \in Seq(StepType), AllLate(u), NEW v, v = t \o u
  PROVE  /\ Fills(v, p, j)
         /\ \A w, x : Has(t, w, x) \/ Has(u, w, x) => Has(v, w, x)
BY ConcatIs DEF Fills

\* Calls that come late.
LEMMA LateOne ==
  ASSUME NEW what, NEW on, Typed(what, on),
         what \in {"bypass", "ensure", "route"} \/ (what = "batch" /\ on \in {"filter", "dpi"})
  PROVE  Step(what, on) \in Seq(StepType) /\ AllLate(Step(what, on)) /\ Has(Step(what, on), what, on)
BY OneIs

\* Calls that come early.
LEMMA EarlyOne ==
  ASSUME NEW what, NEW on, Typed(what, on),
         what \in {"preflight", "fastOff", "wan", "ipRule", "sets", "drop"}
  PROVE  Step(what, on) \in Seq(StepType) /\ AllEarly(Step(what, on)) /\ Has(Step(what, on), what, on)
BY OneIs

\* The calls of a list are on another one too.
Keeps(t, v) == \A w, x : Has(t, w, x) => Has(v, w, x)

\* One more call that comes early.
LEMMA EarlyNext ==
  ASSUME NEW t \in Seq(StepType), AllEarly(t), NEW what, NEW on, Typed(what, on),
         what \in {"preflight", "fastOff", "wan", "ipRule", "sets", "drop"}, NEW v, v = t \o Step(what, on)
  PROVE  /\ v \in Seq(StepType) /\ AllEarly(v) /\ Has(v, what, on)
         /\ Keeps(t, v)
<1>1. PICK u : u = Step(what, on)
  OBVIOUS
<1>2. u \in Seq(StepType) /\ AllEarly(u) /\ Has(u, what, on)
  BY <1>1, EarlyOne
<1>3. v = t \o u
  BY <1>1
<1>4. v \in Seq(StepType) /\ \A w, x : Has(v, w, x) <=> Has(t, w, x) \/ Has(u, w, x)
  BY <1>2, <1>3, ConcatIs
<1>5. AllEarly(v)
  BY <1>2, <1>3, ConcatIs
<1>6. QED
  BY <1>2, <1>4, <1>5 DEF Keeps

\* A bypass rule, if it is due.
LEMMA LetByIs ==
  ASSUME NEW x \in Bypass, NEW passes, NEW u, u = LetBy(x, passes)
  PROVE  u \in Seq(StepType) /\ AllLate(u) /\ (x \in passes => Has(u, "bypass", x))
<1>1. CASE x \in passes
  <2>1. u = Step("bypass", x) /\ Typed("bypass", x)
    BY <1>1, Calls DEF LetBy
  <2>2. QED
    BY <2>1, LateOne
<1>2. CASE x \notin passes
  <2>1. u = <<>>
    BY <1>2 DEF LetBy
  <2>2. QED
    BY <1>2, <2>1 DEF AllLate
<1>3. QED
  BY <1>1, <1>2

\* Two bypass rules, those of them that are due.
LEMMA LetByTwo ==
  ASSUME NEW x \in Bypass, NEW y \in Bypass, NEW passes, passes \subseteq {x, y}, NEW u, u = LetBy(x, passes) \o LetBy(y, passes)
  PROVE  u \in Seq(StepType) /\ AllLate(u) /\ \A z \in passes : Has(u, "bypass", z)
<1>1. PICK a : a = LetBy(x, passes)
  OBVIOUS
<1>2. PICK b : b = LetBy(y, passes)
  OBVIOUS
<1>3. /\ a \in Seq(StepType) /\ AllLate(a) /\ (x \in passes => Has(a, "bypass", x))
      /\ b \in Seq(StepType) /\ AllLate(b) /\ (y \in passes => Has(b, "bypass", y))
  BY <1>1, <1>2, LetByIs
<1>4. u = a \o b
  BY <1>1, <1>2
<1>5. u \in Seq(StepType) /\ \A w, z : Has(u, w, z) <=> Has(a, w, z) \/ Has(b, w, z)
  BY <1>3, <1>4, ConcatIs
<1>6. AllLate(u)
  BY <1>3, <1>4, ConcatIs
<1>7. QED
  BY <1>3, <1>5, <1>6

\* What clears the way for the jump j.
LEMMA OpensPolicy ==
  ASSUME NEW j \in Jumps, NEW dpi \in BOOLEAN, NEW t, t = Step("ipRule", "none") \o Cleanup(j) \o DropDpi(dpi)
  PROVE  Opens(t, j)
<1>1. PICK a : a = Step("ipRule", "none")
  OBVIOUS
<1>2. PICK b : b = Step("drop", j)
  OBVIOUS
<1>3. PICK d : d = Step("drop", "dpiJump")
  OBVIOUS
<1>4. /\ a \in Seq(StepType) /\ AllEarly(a) /\ Has(a, "ipRule", "none")
      /\ b \in Seq(StepType) /\ AllEarly(b) /\ Has(b, "drop", j)
      /\ d \in Seq(StepType) /\ AllEarly(d)
  <2>1. /\ Typed("ipRule", "none") /\ Typed("drop", j)
        /\ Typed("drop", "dpiJump")
    BY Calls
  <2>2. QED
    BY <1>1, <1>2, <1>3, <2>1, EarlyOne
<1>5. PICK e : e = a \o b
  OBVIOUS
<1>6. e \in Seq(StepType) /\ AllEarly(e) /\ Has(e, "ipRule", "none") /\ Has(e, "drop", j)
  BY <1>4, <1>5, ConcatIs
<1>7. CASE dpi
  <2>1. t = e \o d
    BY <1>1, <1>2, <1>3, <1>5, <1>7 DEF Cleanup, DropDpi
  <2>2. /\ t \in Seq(StepType) /\ AllEarly(t)
        /\ \A w, x : Has(e, w, x) => Has(t, w, x)
    BY <1>4, <1>6, <2>1, ConcatIs
  <2>3. QED
    BY <1>6, <2>2 DEF Opens
<1>8. CASE ~dpi
  <2>1. t = e \o <<>>
    BY <1>1, <1>2, <1>5, <1>8 DEF Cleanup, DropDpi
  <2>2. PICK none : none = <<>>
    OBVIOUS
  <2>3. none \in Seq(StepType) /\ AllEarly(none)
    BY <2>2 DEF AllEarly
  <2>4. /\ t \in Seq(StepType) /\ AllEarly(t)
        /\ \A w, x : Has(e, w, x) => Has(t, w, x)
    BY <1>6, <2>1, <2>2, <2>3, ConcatIs
  <2>5. QED
    BY <1>6, <2>4 DEF Opens
<1>9. QED
  BY <1>7, <1>8

\* The bypass rules that can be due on a path.
DuePasses(p) == IF p = "full" THEN {"admin", "exclude"} ELSE {"lan", "admin"}

\* The list of a path clears, fills and lets through, in this order.
LEMMA ApplyList ==
  ASSUME NEW p \in Path, NEW dpi \in BOOLEAN, NEW passes \in SUBSET DuePasses(p), NEW t, t = ApplySteps(p, dpi, passes),
         NEW j, j = JumpTo[CaptureChain[p]]
  PROVE  Fills(t, p, j) /\ (\A x \in passes : Has(t, "bypass", x)) /\ (p = "full" => Has(t, "drop", "portsJump"))
<1>1. PICK way : way = IF p = "full" THEN LetBy("admin", passes) \o LetBy("exclude", passes) ELSE PolicyBypass(passes)
  OBVIOUS
<1>2. way \in Seq(StepType) /\ AllLate(way) /\ \A x \in passes : Has(way, "bypass", x)
  <2>1. CASE p = "full"
    BY <1>1, <2>1, LetByTwo DEF DuePasses, Bypass
  <2>2. CASE p # "full"
    BY <1>1, <2>2, LetByTwo DEF DuePasses, Bypass, PolicyBypass
  <2>3. QED
    BY <2>1, <2>2
<1>3. /\ Typed("ensure", "wanDrop") /\ Typed("ensure", "inAccept")
      /\ Typed("batch", "filter") /\ Typed("batch", "dpi")
      /\ Typed("bypass", "admin") /\ Typed("bypass", "exclude")
      /\ Typed("route", "local")
  BY Calls DEF Batches, Bypass
<1>4. PICK wan : wan = Step("ensure", "wanDrop")
  OBVIOUS
<1>5. PICK inp : inp = Step("ensure", "inAccept")
  OBVIOUS
<1>6. /\ wan \in Seq(StepType) /\ AllLate(wan) /\ inp \in Seq(StepType) /\ AllLate(inp)
  BY <1>3, <1>4, <1>5, LateOne
<1>7. CASE p = "tun"
  <2>1. PICK a : a = Step("ipRule", "none") \o Cleanup("polJumpM") \o DropDpi(dpi)
    OBVIOUS
  <2>2. j = "polJumpM" /\ Table(p) = "mangle" /\ Opens(a, j)
    BY <1>7, <2>1, OpensPolicy DEF CaptureChain, JumpTo, Table, Jumps
  <2>3. PICK b : b = a \o Step("batch", "mangle")
    OBVIOUS
  <2>4. PICK f : f = Step("batch", "filter")
    OBVIOUS
  <2>5. PICK d : d = b \o f
    OBVIOUS
  <2>6. PICK e : e = d \o way
    OBVIOUS
  <2>7. Fills(b, p, j)
    BY <2>2, <2>3, OpensFills
  <2>8. f \in Seq(StepType) /\ AllLate(f)
    BY <1>3, <2>4, LateOne
  <2>9. Fills(d, p, j)
    BY <2>5, <2>7, <2>8, FillsLate
  <2>10. Fills(e, p, j) /\ \A w, x : Has(way, w, x) => Has(e, w, x)
    BY <1>2, <2>6, <2>9, FillsLate
  <2>11. t = e \o wan
    BY <1>1, <1>4, <1>7, <2>1, <2>3, <2>4, <2>5, <2>6 DEF ApplySteps
  <2>12. Fills(t, p, j) /\ \A w, x : Has(e, w, x) => Has(t, w, x)
    BY <1>6, <2>10, <2>11, FillsLate
  <2>13. QED
    BY <1>2, <1>7, <2>10, <2>12
<1>8. CASE p = "tproxy"
  <2>1. PICK a : a = Step("ipRule", "none") \o Cleanup("polJumpM") \o DropDpi(dpi)
    OBVIOUS
  <2>2. j = "polJumpM" /\ Table(p) = "mangle" /\ Opens(a, j)
    BY <1>8, <2>1, OpensPolicy DEF CaptureChain, JumpTo, Table, Jumps
  <2>3. PICK b : b = a \o Step("batch", "mangle")
    OBVIOUS
  <2>4. PICK f : f = Step("route", "local")
    OBVIOUS
  <2>5. PICK d : d = b \o f
    OBVIOUS
  <2>6. PICK e : e = d \o way
    OBVIOUS
  <2>7. PICK g : g = e \o inp
    OBVIOUS
  <2>8. Fills(b, p, j)
    BY <2>2, <2>3, OpensFills
  <2>9. f \in Seq(StepType) /\ AllLate(f)
    BY <1>3, <2>4, LateOne
  <2>10. Fills(d, p, j)
    BY <2>5, <2>8, <2>9, FillsLate
  <2>11. Fills(e, p, j) /\ \A w, x : Has(way, w, x) => Has(e, w, x)
    BY <1>2, <2>6, <2>10, FillsLate
  <2>12. Fills(g, p, j) /\ \A w, x : Has(e, w, x) => Has(g, w, x)
    BY <1>6, <2>7, <2>11, FillsLate
  <2>13. t = g \o wan
    BY <1>1, <1>4, <1>5, <1>8, <2>1, <2>3, <2>4, <2>5, <2>6, <2>7 DEF ApplySteps
  <2>14. Fills(t, p, j) /\ \A w, x : Has(g, w, x) => Has(t, w, x)
    BY <1>6, <2>12, <2>13, FillsLate
  <2>15. QED
    BY <1>2, <1>8, <2>11, <2>12, <2>14
<1>9. CASE p = "redirect"
  <2>1. PICK a : a = Step("ipRule", "none") \o Cleanup("polJumpN") \o DropDpi(dpi)
    OBVIOUS
  <2>2. j = "polJumpN" /\ Table(p) = "nat" /\ Opens(a, j)
    BY <1>9, <2>1, OpensPolicy DEF CaptureChain, JumpTo, Table, Jumps
  <2>3. PICK b : b = a \o Step("batch", "nat")
    OBVIOUS
  <2>4. PICK f : f = IF dpi THEN Step("batch", "dpi") ELSE <<>>
    OBVIOUS
  <2>5. PICK d : d = b \o f
    OBVIOUS
  <2>6. PICK e : e = d \o way
    OBVIOUS
  <2>7. PICK g : g = e \o inp
    OBVIOUS
  <2>8. Fills(b, p, j)
    BY <2>2, <2>3, OpensFills
  <2>9. f \in Seq(StepType) /\ AllLate(f)
    BY <1>3, <2>4, LateOne DEF AllLate
  <2>10. Fills(d, p, j)
    BY <2>5, <2>8, <2>9, FillsLate
  <2>11. Fills(e, p, j) /\ \A w, x : Has(way, w, x) => Has(e, w, x)
    BY <1>2, <2>6, <2>10, FillsLate
  <2>12. Fills(g, p, j) /\ \A w, x : Has(e, w, x) => Has(g, w, x)
    BY <1>6, <2>7, <2>11, FillsLate
  <2>13. t = g \o wan
    BY <1>1, <1>4, <1>5, <1>9, <2>1, <2>3, <2>4, <2>5, <2>6, <2>7 DEF ApplySteps
  <2>14. Fills(t, p, j) /\ \A w, x : Has(g, w, x) => Has(t, w, x)
    BY <1>6, <2>12, <2>13, FillsLate
  <2>15. QED
    BY <1>2, <1>9, <2>11, <2>12, <2>14
<1>10. CASE p = "full"
  <2>1. PICK a : a = Step("sets", "none") \o Step("ipRule", "none")
                     \o Cleanup("queueJump") \o Cleanup("portsJump") \o Cleanup("fullJump")
    OBVIOUS
  <2>2. j = "fullJump" /\ Table(p) = "mangle"
    BY <1>10 DEF CaptureChain, JumpTo, Table
  <2>3. Opens(a, j) /\ Has(a, "drop", "portsJump")
    <3>1. /\ Typed("sets", "none") /\ Typed("ipRule", "none")
          /\ Typed("drop", "queueJump") /\ Typed("drop", "portsJump") /\ Typed("drop", "fullJump")
      BY Calls DEF Jumps
    <3>2. PICK x : x = Step("sets", "none")
      OBVIOUS
    <3>3. x \in Seq(StepType) /\ AllEarly(x)
      BY <3>1, <3>2, EarlyOne
    <3>4. PICK w : w = x \o Step("ipRule", "none")
      OBVIOUS
    <3>5. w \in Seq(StepType) /\ AllEarly(w) /\ Has(w, "ipRule", "none")
      BY <3>1, <3>3, <3>4, EarlyNext
    <3>6. PICK q : q = w \o Step("drop", "queueJump")
      OBVIOUS
    <3>7. q \in Seq(StepType) /\ AllEarly(q) /\ Has(q, "ipRule", "none")
      <4>1. q \in Seq(StepType) /\ AllEarly(q) /\ Keeps(w, q)
        BY <3>1, <3>5, <3>6, EarlyNext
      <4>2. QED
        BY <3>5, <4>1 DEF Keeps
    <3>8. PICK r : r = q \o Step("drop", "portsJump")
      OBVIOUS
    <3>9. r \in Seq(StepType) /\ AllEarly(r) /\ Has(r, "ipRule", "none") /\ Has(r, "drop", "portsJump")
      <4>1. /\ r \in Seq(StepType) /\ AllEarly(r) /\ Has(r, "drop", "portsJump")
            /\ Keeps(q, r)
        BY <3>1, <3>7, <3>8, EarlyNext
      <4>2. QED
        BY <3>7, <4>1 DEF Keeps
    <3>10. a = r \o Step("drop", "fullJump")
      BY <2>1, <3>2, <3>4, <3>6, <3>8 DEF Cleanup
    <3>11. /\ a \in Seq(StepType) /\ AllEarly(a) /\ Has(a, "drop", "fullJump")
           /\ Has(a, "ipRule", "none") /\ Has(a, "drop", "portsJump")
      <4>1. /\ a \in Seq(StepType) /\ AllEarly(a) /\ Has(a, "drop", "fullJump")
            /\ Keeps(r, a)
        BY <3>1, <3>9, <3>10, EarlyNext
      <4>2. QED
        BY <3>9, <4>1 DEF Keeps
    <3>12. QED
      BY <2>2, <3>11 DEF Opens
  <2>4. PICK c : c = Step("batch", "mangle")
    OBVIOUS
  <2>5. PICK b : b = a \o c
    OBVIOUS
  <2>6. PICK e : e = b \o way
    OBVIOUS
  <2>7. Fills(b, p, j)
    BY <2>2, <2>3, <2>4, <2>5, OpensFills
  <2>8. Has(b, "drop", "portsJump")
    <3>1. Typed("batch", "mangle")
      BY Calls DEF Batches
    <3>2. c \in Seq(StepType)
      BY <2>4, <3>1, OneIs
    <3>3. QED
      BY <2>3, <2>5, <3>2, ConcatIs DEF Opens
  <2>9. Fills(e, p, j) /\ \A w, x : Has(b, w, x) \/ Has(way, w, x) => Has(e, w, x)
    BY <1>2, <2>6, <2>7, FillsLate
  <2>10. t = ((a \o c) \o LetBy("admin", passes) \o LetBy("exclude", passes)) \o wan
    BY <1>4, <1>10, <2>1, <2>4 DEF ApplySteps
  <2>11. PICK l1, l2 : l1 = LetBy("admin", passes) /\ l2 = LetBy("exclude", passes)
    OBVIOUS
  <2>12. l1 \in Seq(StepType) /\ l2 \in Seq(StepType) /\ b \in Seq(StepType)
    BY <2>7, <2>11, LetByIs DEF Bypass, Fills
  <2>13. (b \o l1) \o l2 = b \o (l1 \o l2)
    BY <2>12
  <2>14. way = l1 \o l2
    BY <1>1, <1>10, <2>11
  <2>15. t = e \o wan
    BY <2>5, <2>6, <2>10, <2>11, <2>13, <2>14
  <2>16. Fills(t, p, j) /\ \A w, x : Has(e, w, x) => Has(t, w, x)
    BY <1>6, <2>9, <2>15, FillsLate
  <2>17. QED
    BY <1>2, <2>8, <2>9, <2>16
<1>11. QED
  BY <1>7, <1>8, <1>9, <1>10 DEF Path

\* A list that holds another one and one call more.
Grows(t, u, what, on) == Has(u, what, on) /\ \A w, x : Has(t, w, x) => Has(u, w, x)

\* A call at the end of the list of Remove.
LEMMA AddIs ==
  ASSUME NEW t \in Seq(StepType), NEW what, NEW on, Typed(what, on),
         NEW u, u = t \o Step(what, on)
  PROVE  /\ u \in Seq(StepType)
         /\ Grows(t, u, what, on)
         /\ Only(t, {"delete", "drop"}) /\ what \in {"delete", "drop"} => Only(u, {"delete", "drop"})
         /\ Only(t, {"delete", "drop", "chain"}) /\ Tidy(t) /\ what = "chain"
              => Only(u, {"delete", "drop", "chain"}) /\ Tidy(u)
         /\ Tidy(t) /\ what \in Clearing \ {"drop", "chain"} => Tidy(u)
<1>1. PICK v : v = Step(what, on)
  OBVIOUS
<1>2. v \in Seq(StepType) /\ (\A w, x : Has(v, w, x) <=> w = what /\ x = on) /\ \A kinds : Only(v, kinds) <=> what \in kinds
  BY <1>1, OneIs
<1>3. u = t \o v
  BY <1>1
<1>4. u \in Seq(StepType) /\ \A w, x : Has(u, w, x) <=> Has(t, w, x) \/ Has(v, w, x)
  BY <1>2, <1>3, ConcatIs
<1>5. \A kinds : Only(t, kinds) /\ Only(v, kinds) => Only(u, kinds)
  BY <1>2, <1>3, ConcatIs
<1>6. Tidy(t) /\ Only(v, Clearing \ {"drop", "chain"}) => Tidy(u)
  BY <1>2, <1>3, ConcatIs
<1>7. ASSUME Only(u, {"delete", "drop", "chain"}), Tidy(t), Only(t, {"delete", "drop", "chain"}), what = "chain"
      PROVE  Tidy(u)
  <2>1. /\ Len(t) \in Nat /\ DOMAIN t = 1..Len(t) /\ DOMAIN u = 1..(Len(t) + 1)
        /\ \A i \in DOMAIN t : u[i] = t[i]
        /\ u[Len(t) + 1].do = "chain"
    BY <1>7 DEF Step
  <2>2. \A i \in DOMAIN u : u[i].do \in Clearing
    BY <1>7 DEF Only, Clearing
  <2>3. ASSUME NEW i \in DOMAIN u, NEW j \in DOMAIN u, i < j, u[j].do = "drop" PROVE u[i].do \in {"delete", "drop"}
    <3>1. i \in DOMAIN t /\ j \in DOMAIN t
      BY <2>1, <2>3
    <3>2. QED
      BY <1>7, <2>1, <2>3, <3>1 DEF Tidy
  <2>4. QED
    BY <1>7, <2>2, <2>3 DEF Tidy, Only
<1>8. Grows(t, u, what, on)
  BY <1>2, <1>4 DEF Grows
<1>9. QED
  BY <1>2, <1>4, <1>5, <1>6, <1>7, <1>8

\* The stages of the list of Remove.
Pulls(t) == t \in Seq(StepType) /\ Only(t, {"delete", "drop"})
Clears(t) == t \in Seq(StepType) /\ Only(t, {"delete", "drop", "chain"}) /\ Tidy(t)
Ends(t) == t \in Seq(StepType) /\ Tidy(t)

\* First the jumps.
LEMMA AddPull ==
  ASSUME NEW t, Pulls(t), NEW what \in {"delete", "drop"}, NEW on, Typed(what, on), NEW u, u = t \o Step(what, on)
  PROVE  Pulls(u) /\ Grows(t, u, what, on)
<1>1. t \in Seq(StepType) /\ Only(t, {"delete", "drop"})
  BY DEF Pulls
<1>2. u \in Seq(StepType)
  BY <1>1, AddIs
<1>3. Grows(t, u, what, on)
  BY <1>1, AddIs
<1>4. Only(u, {"delete", "drop"})
  BY <1>1, AddIs
<1>5. QED
  BY <1>2, <1>3, <1>4 DEF Pulls

\* Then the chains.
LEMMA AddChain ==
  ASSUME NEW t, Clears(t), NEW on, Typed("chain", on), NEW u, u = t \o Step("chain", on)
  PROVE  Clears(u) /\ Grows(t, u, "chain", on)
<1>1. t \in Seq(StepType) /\ Only(t, {"delete", "drop", "chain"}) /\ Tidy(t)
  BY DEF Clears
<1>2. u \in Seq(StepType)
  BY <1>1, AddIs
<1>3. Grows(t, u, "chain", on)
  BY <1>1, AddIs
<1>4. Only(u, {"delete", "drop", "chain"}) /\ Tidy(u)
  BY <1>1, AddIs
<1>5. QED
  BY <1>2, <1>3, <1>4 DEF Clears

\* Then the rest.
LEMMA AddEnd ==
  ASSUME NEW t, Ends(t), NEW what \in Clearing \ {"drop", "chain"}, NEW on, Typed(what, on), NEW u, u = t \o Step(what, on)
  PROVE  Ends(u) /\ Grows(t, u, what, on)
<1>1. t \in Seq(StepType) /\ Tidy(t)
  BY DEF Ends
<1>2. u \in Seq(StepType)
  BY <1>1, AddIs
<1>3. Grows(t, u, what, on)
  BY <1>1, AddIs
<1>4. Tidy(u)
  BY <1>1, AddIs
<1>5. QED
  BY <1>2, <1>3, <1>4 DEF Ends

\* The list of Remove: every jump, every chain, in this order, and the rest.
LEMMA RemoveList ==
  ASSUME NEW t, t = RemoveSteps
  PROVE  /\ t \in Seq(StepType) /\ Tidy(t)
         /\ \A j \in Jumps : Has(t, "drop", j)
         /\ \A c \in Captures : Has(t, "chain", c)
         /\ Has(t, "ipRuleOff", "none") /\ Has(t, "destroy", "none") /\ Has(t, "fastOn", "none")
<1>1. PICK t0 : t0 = Step("delete", "fwdAccept")
  OBVIOUS
<1>2. Typed("delete", "fwdAccept")
  BY Calls
<1>3. Pulls(t0)
  BY <1>1, <1>2, OneIs DEF Pulls
<1>4. PICK t1 : t1 = t0 \o Step("drop", "polJumpM")
  OBVIOUS
<1>5. Typed("drop", "polJumpM")
  BY Calls DEF Jumps
<1>6. Pulls(t1) /\ Grows(t0, t1, "drop", "polJumpM")
  BY <1>3, <1>4, <1>5, AddPull
<1>7. Has(t1, "drop", "polJumpM")
  BY <1>6 DEF Grows
<1>8. PICK t2 : t2 = t1 \o Step("drop", "queueJump")
  OBVIOUS
<1>9. Typed("drop", "queueJump")
  BY Calls DEF Jumps
<1>10. Pulls(t2) /\ Grows(t1, t2, "drop", "queueJump")
  BY <1>6, <1>8, <1>9, AddPull
<1>11. Has(t2, "drop", "polJumpM")
  BY <1>10, <1>7 DEF Grows
<1>12. PICK t3 : t3 = t2 \o Step("drop", "portsJump")
  OBVIOUS
<1>13. Typed("drop", "portsJump")
  BY Calls DEF Jumps
<1>14. Pulls(t3) /\ Grows(t2, t3, "drop", "portsJump")
  BY <1>10, <1>12, <1>13, AddPull
<1>15. Has(t3, "drop", "polJumpM") /\ Has(t3, "drop", "portsJump")
  BY <1>14, <1>11 DEF Grows
<1>16. PICK t4 : t4 = t3 \o Step("drop", "fullJump")
  OBVIOUS
<1>17. Typed("drop", "fullJump")
  BY Calls DEF Jumps
<1>18. Pulls(t4) /\ Grows(t3, t4, "drop", "fullJump")
  BY <1>14, <1>16, <1>17, AddPull
<1>19. Has(t4, "drop", "polJumpM") /\ Has(t4, "drop", "portsJump") /\ Has(t4, "drop", "fullJump")
  BY <1>18, <1>15 DEF Grows
<1>20. PICK t5 : t5 = t4 \o Step("drop", "polJumpN")
  OBVIOUS
<1>21. Typed("drop", "polJumpN")
  BY Calls DEF Jumps
<1>22. Pulls(t5) /\ Grows(t4, t5, "drop", "polJumpN")
  BY <1>18, <1>20, <1>21, AddPull
<1>23. Has(t5, "drop", "polJumpM") /\ Has(t5, "drop", "portsJump") /\ Has(t5, "drop", "fullJump") /\ Has(t5, "drop", "polJumpN")
  BY <1>22, <1>19 DEF Grows
<1>24. PICK t6 : t6 = t5 \o Step("drop", "dpiJump")
  OBVIOUS
<1>25. Typed("drop", "dpiJump")
  BY Calls DEF Jumps
<1>26. Pulls(t6) /\ Grows(t5, t6, "drop", "dpiJump")
  BY <1>22, <1>24, <1>25, AddPull
<1>27. Has(t6, "drop", "polJumpM") /\ Has(t6, "drop", "portsJump") /\ Has(t6, "drop", "fullJump") /\ Has(t6, "drop", "polJumpN")
  BY <1>26, <1>23 DEF Grows
<1>28. Clears(t6)
  BY <1>26 DEF Pulls, Clears, Only, Tidy, Clearing
<1>29. PICK t7 : t7 = t6 \o Step("chain", "dpi")
  OBVIOUS
<1>30. Typed("chain", "dpi")
  BY Calls DEF Chain
<1>31. Clears(t7) /\ Grows(t6, t7, "chain", "dpi")
  BY <1>28, <1>29, <1>30, AddChain
<1>32. Has(t7, "drop", "polJumpM") /\ Has(t7, "drop", "portsJump") /\ Has(t7, "drop", "fullJump") /\ Has(t7, "drop", "polJumpN")
  BY <1>31, <1>27 DEF Grows
<1>33. PICK t8 : t8 = t7 \o Step("chain", "policyM")
  OBVIOUS
<1>34. Typed("chain", "policyM")
  BY Calls DEF Chain
<1>35. Clears(t8) /\ Grows(t7, t8, "chain", "policyM")
  BY <1>31, <1>33, <1>34, AddChain
<1>36. Has(t8, "drop", "polJumpM") /\ Has(t8, "drop", "portsJump") /\ Has(t8, "drop", "fullJump") /\ Has(t8, "drop", "polJumpN") /\ Has(t8, "chain", "policyM")
  BY <1>35, <1>32 DEF Grows
<1>37. PICK t9 : t9 = t8 \o Step("chain", "queue")
  OBVIOUS
<1>38. Typed("chain", "queue")
  BY Calls DEF Chain
<1>39. Clears(t9) /\ Grows(t8, t9, "chain", "queue")
  BY <1>35, <1>37, <1>38, AddChain
<1>40. Has(t9, "drop", "polJumpM") /\ Has(t9, "drop", "portsJump") /\ Has(t9, "drop", "fullJump") /\ Has(t9, "drop", "polJumpN") /\ Has(t9, "chain", "policyM")
  BY <1>39, <1>36 DEF Grows
<1>41. PICK t10 : t10 = t9 \o Step("chain", "ports")
  OBVIOUS
<1>42. Typed("chain", "ports")
  BY Calls DEF Chain
<1>43. Clears(t10) /\ Grows(t9, t10, "chain", "ports")
  BY <1>39, <1>41, <1>42, AddChain
<1>44. Has(t10, "drop", "polJumpM") /\ Has(t10, "drop", "portsJump") /\ Has(t10, "drop", "fullJump") /\ Has(t10, "drop", "polJumpN") /\ Has(t10, "chain", "policyM") /\ Has(t10, "chain", "ports")
  BY <1>43, <1>40 DEF Grows
<1>45. PICK t11 : t11 = t10 \o Step("chain", "full")
  OBVIOUS
<1>46. Typed("chain", "full")
  BY Calls DEF Chain
<1>47. Clears(t11) /\ Grows(t10, t11, "chain", "full")
  BY <1>43, <1>45, <1>46, AddChain
<1>48. Has(t11, "drop", "polJumpM") /\ Has(t11, "drop", "portsJump") /\ Has(t11, "drop", "fullJump") /\ Has(t11, "drop", "polJumpN") /\ Has(t11, "chain", "policyM") /\ Has(t11, "chain", "ports") /\ Has(t11, "chain", "full")
  BY <1>47, <1>44 DEF Grows
<1>49. PICK t12 : t12 = t11 \o Step("chain", "policyN")
  OBVIOUS
<1>50. Typed("chain", "policyN")
  BY Calls DEF Chain
<1>51. Clears(t12) /\ Grows(t11, t12, "chain", "policyN")
  BY <1>47, <1>49, <1>50, AddChain
<1>52. Has(t12, "drop", "polJumpM") /\ Has(t12, "drop", "portsJump") /\ Has(t12, "drop", "fullJump") /\ Has(t12, "drop", "polJumpN") /\ Has(t12, "chain", "policyM") /\ Has(t12, "chain", "ports") /\ Has(t12, "chain", "full") /\ Has(t12, "chain", "policyN")
  BY <1>51, <1>48 DEF Grows
<1>53. Ends(t12)
  BY <1>51 DEF Clears, Ends
<1>54. PICK t13 : t13 = t12 \o Step("unroute", "none")
  OBVIOUS
<1>55. Typed("unroute", "none")
  BY Calls DEF Jumps
<1>56. Ends(t13) /\ Grows(t12, t13, "unroute", "none")
  BY <1>53, <1>54, <1>55, AddEnd DEF Clearing
<1>57. Has(t13, "drop", "polJumpM") /\ Has(t13, "drop", "portsJump") /\ Has(t13, "drop", "fullJump") /\ Has(t13, "drop", "polJumpN") /\ Has(t13, "chain", "policyM") /\ Has(t13, "chain", "ports") /\ Has(t13, "chain", "full") /\ Has(t13, "chain", "policyN")
  BY <1>56, <1>52 DEF Grows
<1>58. PICK t14 : t14 = t13 \o Step("ipRuleOff", "none")
  OBVIOUS
<1>59. Typed("ipRuleOff", "none")
  BY Calls DEF Jumps
<1>60. Ends(t14) /\ Grows(t13, t14, "ipRuleOff", "none")
  BY <1>56, <1>58, <1>59, AddEnd DEF Clearing
<1>61. Has(t14, "drop", "polJumpM") /\ Has(t14, "drop", "portsJump") /\ Has(t14, "drop", "fullJump") /\ Has(t14, "drop", "polJumpN") /\ Has(t14, "chain", "policyM") /\ Has(t14, "chain", "ports") /\ Has(t14, "chain", "full") /\ Has(t14, "chain", "policyN") /\ Has(t14, "ipRuleOff", "none")
  BY <1>60, <1>57 DEF Grows
<1>62. PICK t15 : t15 = t14 \o Step("destroy", "none")
  OBVIOUS
<1>63. Typed("destroy", "none")
  BY Calls DEF Jumps
<1>64. Ends(t15) /\ Grows(t14, t15, "destroy", "none")
  BY <1>60, <1>62, <1>63, AddEnd DEF Clearing
<1>65. Has(t15, "drop", "polJumpM") /\ Has(t15, "drop", "portsJump") /\ Has(t15, "drop", "fullJump") /\ Has(t15, "drop", "polJumpN") /\ Has(t15, "chain", "policyM") /\ Has(t15, "chain", "ports") /\ Has(t15, "chain", "full") /\ Has(t15, "chain", "policyN") /\ Has(t15, "ipRuleOff", "none") /\ Has(t15, "destroy", "none")
  BY <1>64, <1>61 DEF Grows
<1>66. PICK t16 : t16 = t15 \o Step("delete", "wanDrop")
  OBVIOUS
<1>67. Typed("delete", "wanDrop")
  BY Calls DEF Jumps
<1>68. Ends(t16) /\ Grows(t15, t16, "delete", "wanDrop")
  BY <1>64, <1>66, <1>67, AddEnd DEF Clearing
<1>69. Has(t16, "drop", "polJumpM") /\ Has(t16, "drop", "portsJump") /\ Has(t16, "drop", "fullJump") /\ Has(t16, "drop", "polJumpN") /\ Has(t16, "chain", "policyM") /\ Has(t16, "chain", "ports") /\ Has(t16, "chain", "full") /\ Has(t16, "chain", "policyN") /\ Has(t16, "ipRuleOff", "none") /\ Has(t16, "destroy", "none")
  BY <1>68, <1>65 DEF Grows
<1>70. PICK t17 : t17 = t16 \o Step("fastOn", "none")
  OBVIOUS
<1>71. Typed("fastOn", "none")
  BY Calls DEF Jumps
<1>72. Ends(t17) /\ Grows(t16, t17, "fastOn", "none")
  BY <1>68, <1>70, <1>71, AddEnd DEF Clearing
<1>73. Has(t17, "drop", "polJumpM") /\ Has(t17, "drop", "portsJump") /\ Has(t17, "drop", "fullJump") /\ Has(t17, "drop", "polJumpN") /\ Has(t17, "chain", "policyM") /\ Has(t17, "chain", "ports") /\ Has(t17, "chain", "full") /\ Has(t17, "chain", "policyN") /\ Has(t17, "ipRuleOff", "none") /\ Has(t17, "destroy", "none") /\ Has(t17, "fastOn", "none")
  BY <1>72, <1>69 DEF Grows
<1>74. t = t17
  BY <1>1, <1>4, <1>8, <1>12, <1>16, <1>20, <1>24, <1>29, <1>33, <1>37, <1>41, <1>45, <1>49, <1>54, <1>58, <1>62, <1>66, <1>70 DEF RemoveSteps
<1>75. QED
  BY <1>72, <1>73, <1>74 DEF Ends, Jumps, Captures

-----------------------------------------------------------------------------
(* What the calls do.                                                      *)

\* Deleting a jump.
LEMMA DropIs ==
  ASSUME k \in KType, NEW x \in SysRule, k' = DeleteJumpAll(x)
  PROVE  /\ k' \in KType
         /\ \A r \in Jumps : k'.sys[r] = IF r # x THEN k.sys[r]
                                         ELSE IF k.sys[r] > maxIter THEN k.sys[r] - maxIter ELSE 0
         /\ k'.body = k.body /\ k'.exist = k.exist /\ k'.ipRule = k.ipRule /\ k'.sets = k.sets
         /\ k'.fast = k.fast /\ k'.saved = k.saved /\ k'.factory = k.factory
<1>1. k.sys \in [SysRule -> Nat]
  BY DEF KType
<1>2. PICK n : n = IF x = "dpiJump" THEN k.sys[x] ELSE IF k.sys[x] > maxIter THEN k.sys[x] - maxIter ELSE 0
  OBVIOUS
<1>3. n \in Nat
  BY <1>1, <1>2 DEF maxIter
<1>4. k' = [k EXCEPT !.sys[x] = n]
  BY <1>2 DEF DeleteJumpAll
<1>5. k' = [k EXCEPT !.sys = [k.sys EXCEPT ![x] = n]]
  BY <1>4
<1>6. PICK f : f = [k.sys EXCEPT ![x] = n]
  OBVIOUS
<1>7. f \in [SysRule -> Nat] /\ \A r \in SysRule : f[r] = IF r = x THEN n ELSE k.sys[r]
  BY <1>1, <1>3, <1>6
<1>8. /\ k'.sys = f /\ k' \in KType
      /\ k'.body = k.body /\ k'.exist = k.exist /\ k'.ipRule = k.ipRule /\ k'.sets = k.sets
      /\ k'.fast = k.fast /\ k'.saved = k.saved /\ k'.factory = k.factory
  BY <1>5, <1>6, <1>7 DEF KType
<1>9. "dpiJump" \notin Jumps /\ Jumps \subseteq SysRule
  BY DEF Jumps, SysRule
<1>10. QED
  BY <1>2, <1>7, <1>8, <1>9

\* The effect of a call that clears the way for the batch.
LEMMA CallEarly ==
  ASSUME Types, NEW s \in StepType, Early(s), k' = Effect(s)
  PROVE  /\ k' \in KType /\ k'.body = k.body /\ k'.exist = k.exist /\ k'.factory = k.factory
         /\ k.ipRule \/ s.do = "ipRule" => k'.ipRule
         /\ s.do # "drop" => k'.sys = k.sys
         /\ s.do = "drop" => \A r \in Jumps : k'.sys[r] = IF r # s.on THEN k.sys[r]
                                               ELSE IF k.sys[r] > maxIter THEN k.sys[r] - maxIter ELSE 0
         /\ s.do # "fastOff" => k'.fast = k.fast /\ k'.saved = k.saved
         /\ s.do = "fastOff" => k'.fast = 0 /\ k'.saved = IF k.saved = {} THEN {k.fast} ELSE k.saved
<1>1. k \in KType
  BY DEF Types
<1>2. CASE s.do \in {"preflight", "wan"}
  <2>1. k' = k
    BY <1>2 DEF Effect
  <2>2. QED
    BY <1>1, <1>2, <2>1
<1>3. CASE s.do = "fastOff"
  <2>1. k' = [k EXCEPT !.saved = IF @ = {} THEN {k.fast} ELSE @, !.fast = 0]
    BY <1>3 DEF Effect, DisableFastPath
  <2>2. PICK v : v = IF k.saved = {} THEN {k.fast} ELSE k.saved
    OBVIOUS
  <2>3. v \in SUBSET {0, 1}
    BY <1>1, <2>2 DEF KType
  <2>4. k' = [k EXCEPT !.saved = v, !.fast = 0]
    BY <2>1, <2>2
  <2>5. /\ k' \in KType /\ k'.body = k.body /\ k'.exist = k.exist /\ k'.factory = k.factory
        /\ k'.ipRule = k.ipRule /\ k'.sys = k.sys /\ k'.fast = 0 /\ k'.saved = v
    BY <1>1, <2>3, <2>4 DEF KType
  <2>6. QED
    BY <1>3, <2>2, <2>5
<1>4. CASE s.do = "ipRule"
  <2>1. k' = [k EXCEPT !.ipRule = TRUE]
    BY <1>4 DEF Effect
  <2>2. QED
    BY <1>1, <1>4, <2>1 DEF KType
<1>5. CASE s.do = "sets"
  <2>1. k' = [k EXCEPT !.sets = TRUE]
    BY <1>5 DEF Effect
  <2>2. QED
    BY <1>1, <1>5, <2>1 DEF KType
<1>6. CASE s.do = "drop"
  <2>1. k' = DeleteJumpAll(s.on)
    BY <1>6 DEF Effect
  <2>2. s.on \in SysRule
    BY <1>6 DEF StepType, Jumps, SysRule
  <2>3. QED
    BY <1>1, <1>6, <2>1, <2>2, DropIs
<1>7. s.do \in {"preflight", "fastOff", "wan", "ipRule", "sets", "drop"}
  BY DEF Early
<1>8. QED
  BY <1>2, <1>3, <1>4, <1>5, <1>6, <1>7

\* What a batch fills a chain with.
Bodies == {<<"capture">>, <<"queue">>, <<>>}

\* A batch: the chains it declares are filled anew, its system rules come on top.
LEMMA BatchIs ==
  ASSUME k \in KType, NEW fill, NEW append \in SUBSET SysRule, DOMAIN fill \subseteq Chain,
         \A x \in DOMAIN fill : fill[x] \in Bodies, k' = RestoreBatch(fill, append)
  PROVE  /\ k' \in KType /\ k'.exist = k.exist \cup DOMAIN fill
         /\ \A x \in Chain : k'.body[x] = IF x \in DOMAIN fill THEN fill[x] ELSE k.body[x]
         /\ \A r \in SysRule : k'.sys[r] = IF r \in append THEN k.sys[r] + 1 ELSE k.sys[r]
         /\ k'.ipRule = k.ipRule /\ k'.fast = k.fast /\ k'.saved = k.saved /\ k'.factory = k.factory
<1>1. k.sys \in [SysRule -> Nat] /\ k.body \in [Chain -> Seq(RuleKind)] /\ k.exist \in SUBSET Chain
  BY DEF KType
<1>2. PICK e : e = k.exist \cup DOMAIN fill
  OBVIOUS
<1>3. PICK b : b = [x \in Chain |-> IF x \in DOMAIN fill THEN fill[x] ELSE k.body[x]]
  OBVIOUS
<1>4. PICK y : y = [r \in SysRule |-> IF r \in append THEN k.sys[r] + 1 ELSE k.sys[r]]
  OBVIOUS
<1>5. k' = [k EXCEPT !.exist = e, !.body = b, !.sys = y]
  BY <1>2, <1>3, <1>4 DEF RestoreBatch
<1>6. e \in SUBSET Chain
  BY <1>1, <1>2
<1>7. b \in [Chain -> Seq(RuleKind)]
  <2>1. <<"capture">> \in Seq(RuleKind) /\ <<"queue">> \in Seq(RuleKind) /\ <<>> \in Seq(RuleKind)
    BY DEF RuleKind
  <2>2. \A x \in DOMAIN fill : fill[x] \in Seq(RuleKind)
    BY <2>1 DEF Bodies
  <2>3. QED
    BY <1>1, <1>3, <2>2
<1>8. y \in [SysRule -> Nat]
  BY <1>1, <1>4
<1>9. /\ k' \in KType /\ k'.exist = e /\ k'.body = b /\ k'.sys = y
      /\ k'.ipRule = k.ipRule /\ k'.fast = k.fast /\ k'.saved = k.saved /\ k'.factory = k.factory
  BY <1>5, <1>6, <1>7, <1>8 DEF KType
<1>10. QED
  BY <1>2, <1>3, <1>4, <1>9

\* What a batch holds: the jumps and the chains of its path, or neither.
Holds(fill, append, main, C) ==
  /\ append \in SUBSET SysRule /\ DOMAIN fill \subseteq Chain
  /\ \A x \in DOMAIN fill : fill[x] \in Bodies
  /\ main => /\ \A r \in Jumps : r \in append <=> \E c \in C : r = JumpTo[c]
             /\ \A c \in C : c \in DOMAIN fill /\ fill[c] = <<"capture">>
  /\ ~main => \A r \in Jumps : r \notin append
  /\ ~main => \A x \in Captures : x \notin DOMAIN fill

\* The chains of a policy batch.
LEMMA PolicyFillIs ==
  ASSUME NEW c \in Chain \ {"dpi"}, NEW dpi \in BOOLEAN, NEW f, f = PolicyFill(c, dpi)
  PROVE  /\ DOMAIN f \subseteq Chain /\ c \in DOMAIN f /\ f[c] = <<"capture">>
         /\ \A x \in DOMAIN f : f[x] \in Bodies
<1>1. f = [x \in {c} \cup (IF dpi THEN {"dpi"} ELSE {}) |-> IF x = c THEN <<"capture">> ELSE <<"queue">>]
  BY DEF PolicyFill
<1>2. PICK D : D = {c} \cup (IF dpi THEN {"dpi"} ELSE {})
  OBVIOUS
<1>3. D \subseteq Chain /\ c \in D
  BY <1>2 DEF Chain
<1>4. DOMAIN f = D /\ \A x \in D : f[x] = IF x = c THEN <<"capture">> ELSE <<"queue">>
  BY <1>1, <1>2
<1>5. QED
  BY <1>3, <1>4 DEF Bodies

\* The batch of a table.
LEMMA BatchHolds ==
  ASSUME NEW p \in Path, NEW on \in {Table(p), "filter", "dpi"}, NEW dpi \in BOOLEAN, NEW ports \in BOOLEAN,
         NEW C, C = CaptureChains(p, ports), k' = Batch(p, on, dpi, ports)
  PROVE  \E fill, append : k' = RestoreBatch(fill, append) /\ Holds(fill, append, on = Table(p), C)
<1>1. CASE p \in {"tun", "tproxy"} /\ on = "mangle"
  <2>1. C = {"policyM"} /\ JumpTo["policyM"] = "polJumpM" /\ on = Table(p)
    BY <1>1 DEF CaptureChain, CaptureChains, JumpTo, Table
  <2>2. PICK f : f = PolicyFill("policyM", dpi)
    OBVIOUS
  <2>3. PICK a : a = (IF p = "tun" THEN {"polJumpM", "tcpmss"} ELSE {"polJumpM"}) \cup DpiJump(dpi)
    OBVIOUS
  <2>4. k' = RestoreBatch(f, a)
    BY <1>1, <2>2, <2>3 DEF Batch
  <2>5. a \in SUBSET SysRule /\ \A r \in Jumps : r \in a <=> r = "polJumpM"
    BY <2>3 DEF DpiJump, SysRule, Jumps
  <2>6. /\ DOMAIN f \subseteq Chain /\ "policyM" \in DOMAIN f /\ f["policyM"] = <<"capture">>
        /\ \A x \in DOMAIN f : f[x] \in Bodies
    BY <2>2, PolicyFillIs DEF Chain
  <2>7. QED
    BY <2>1, <2>4, <2>5, <2>6 DEF Holds
<1>2. CASE p = "full" /\ on = "mangle"
  <2>1. C = {"full"} \cup (IF ports THEN {"ports"} ELSE {}) /\ on = Table(p)
    BY <1>2 DEF CaptureChain, CaptureChains, Table
  <2>2. PICK f : f = FullFill(dpi, ports)
    OBVIOUS
  <2>3. PICK a : a = FullJumps(ports)
    OBVIOUS
  <2>4. k' = RestoreBatch(f, a)
    BY <1>2, <2>2, <2>3 DEF Batch
  <2>5. /\ DOMAIN f = {"full", "queue", "ports"} /\ f["full"] = <<"capture">>
        /\ f["queue"] \in {<<"queue">>, <<>>} /\ f["ports"] = IF ports THEN <<"capture">> ELSE <<>>
    BY <2>2 DEF FullFill
  <2>6. \A x \in DOMAIN f : f[x] \in Bodies
    BY <2>5 DEF Bodies
  <2>7. DOMAIN f \subseteq Chain
    BY <2>5 DEF Chain
  <2>8. \A c \in C : c \in DOMAIN f /\ f[c] = <<"capture">>
    BY <2>1, <2>5
  <2>9. a \in SUBSET SysRule
    BY <2>3 DEF FullJumps, SysRule
  <2>10. \A r \in Jumps : r \in a <=> r = "fullJump" \/ (ports /\ r = "portsJump")
    BY <2>3 DEF FullJumps, Jumps
  <2>11. JumpTo["full"] = "fullJump" /\ JumpTo["ports"] = "portsJump"
    BY DEF JumpTo
  <2>12. \A r \in Jumps : r \in a <=> \E c \in C : r = JumpTo[c]
    BY <2>1, <2>10, <2>11
  <2>13. QED
    BY <2>1, <2>4, <2>6, <2>7, <2>8, <2>9, <2>12 DEF Holds
<1>3. CASE on = "filter"
  <2>1. PICK f : f = <<>>
    OBVIOUS
  <2>2. k' = RestoreBatch(f, {"fwdAccept"})
    BY <1>3, <2>1 DEF Batch
  <2>3. DOMAIN f = {}
    BY <2>1
  <2>4. on # Table(p)
    BY <1>3 DEF Table
  <2>5. QED
    BY <2>2, <2>3, <2>4 DEF Holds, SysRule, Jumps
<1>4. CASE p = "redirect" /\ on = "nat"
  <2>1. C = {"policyN"} /\ JumpTo["policyN"] = "polJumpN" /\ on = Table(p)
    BY <1>4 DEF CaptureChain, CaptureChains, JumpTo, Table
  <2>2. PICK f : f = [policyN |-> <<"capture">>]
    OBVIOUS
  <2>3. k' = RestoreBatch(f, {"polJumpN"})
    BY <1>4, <2>2 DEF Batch
  <2>4. DOMAIN f = {"policyN"} /\ f["policyN"] = <<"capture">>
    BY <2>2
  <2>5. QED
    BY <2>1, <2>3, <2>4 DEF Holds, Bodies, Chain, SysRule, Jumps
<1>5. CASE on = "dpi"
  <2>1. PICK f : f = DpiFill(TRUE)
    OBVIOUS
  <2>2. k' = RestoreBatch(f, {"dpiJump"})
    BY <1>5, <2>1 DEF Batch
  <2>3. DOMAIN f = {"dpi"} /\ f["dpi"] = <<"queue">>
    BY <2>1 DEF DpiFill
  <2>4. on # Table(p)
    BY <1>5 DEF Table
  <2>5. QED
    BY <2>2, <2>3, <2>4 DEF Holds, Bodies, Chain, SysRule, Jumps, Captures
<1>6. QED
  BY <1>1, <1>2, <1>3, <1>4, <1>5 DEF Path, Table

\* A rule in front of the others.
LEMMA PrefixIs ==
  ASSUME NEW b \in Seq(RuleKind), NEW x \in Bypass, NEW d, d = <<x>> \o b
  PROVE  /\ d \in Seq(RuleKind) /\ InBody(d, x)
         /\ \A kind : InBody(b, kind) => InBody(d, kind)
         /\ Fronted(b) => Fronted(d)
<1>1. /\ Len(b) \in Nat /\ DOMAIN b = 1..Len(b) /\ DOMAIN d = 1..(Len(b) + 1) /\ d[1] = x
      /\ \A i \in 1..Len(b) : d[i + 1] = b[i]
      /\ \A i \in 2..(Len(b) + 1) : d[i] = b[i - 1]
  OBVIOUS
<1>2. d \in Seq(RuleKind)
  <2>1. x \in RuleKind
    BY DEF RuleKind
  <2>2. PICK e : e = <<x>>
    OBVIOUS
  <2>3. e \in Seq(RuleKind)
    BY <2>1, <2>2
  <2>4. QED
    BY <2>2, <2>3
<1>3. InBody(d, x)
  BY <1>1 DEF InBody
<1>4. ASSUME NEW kind, InBody(b, kind) PROVE InBody(d, kind)
  <2>1. PICK i \in DOMAIN b : b[i] = kind
    BY <1>4 DEF InBody
  <2>2. i + 1 \in DOMAIN d /\ d[i + 1] = kind
    BY <1>1, <2>1
  <2>3. QED
    BY <2>2 DEF InBody
<1>5. ASSUME Fronted(b), NEW i \in DOMAIN d, NEW j \in DOMAIN d, d[i] \in Bypass, d[j] = "capture" PROVE i < j
  <2>1. j # 1 /\ j - 1 \in DOMAIN b /\ d[j] = b[j - 1]
    BY <1>1, <1>5 DEF Bypass
  <2>2. CASE i = 1
    BY <1>1, <2>1, <2>2
  <2>3. CASE i # 1
    <3>1. i - 1 \in DOMAIN b /\ d[i] = b[i - 1]
      BY <1>1, <2>3
    <3>2. i - 1 < j - 1
      BY <1>5, <2>1, <3>1 DEF Fronted
    <3>3. QED
      BY <1>1, <2>1, <3>1, <3>2
  <2>4. QED
    BY <2>2, <2>3
<1>6. QED
  BY <1>2, <1>3, <1>4, <1>5 DEF Fronted

\* The effect of a batch: with the jump and the chain of the path, or without.
LEMMA CallBatch ==
  ASSUME Types, NEW s \in StepType, s.do = "batch", s.on \in {Table(op.path), "filter", "dpi"}, k' = Effect(s),
         NEW C, C = CaptureChains(op.path, op.ports)
  PROVE  /\ k' \in KType /\ k'.ipRule = k.ipRule /\ k'.factory = k.factory
         /\ k'.fast = k.fast /\ k'.saved = k.saved /\ k.exist \subseteq k'.exist
         /\ \A x \in Chain : k'.body[x] \in {k.body[x]} \cup Bodies
         /\ s.on = Table(op.path) =>
              /\ \A r \in Jumps : k'.sys[r] = IF \E c \in C : r = JumpTo[c] THEN k.sys[r] + 1 ELSE k.sys[r]
              /\ \A c \in C : c \in k'.exist /\ k'.body[c] = <<"capture">>
         /\ s.on # Table(op.path) => /\ \A r \in Jumps : k'.sys[r] = k.sys[r]
                                     /\ \A x \in Captures : k'.body[x] = k.body[x]
<1>1. k \in KType /\ op.path \in Path /\ op.dpi \in BOOLEAN /\ op.ports \in BOOLEAN
  BY DEF Types, OpType
<1>2. k' = Batch(op.path, s.on, op.dpi, op.ports)
  BY DEF Effect
<1>3. PICK fill, append : k' = RestoreBatch(fill, append) /\ Holds(fill, append, s.on = Table(op.path), C)
  BY <1>1, <1>2, BatchHolds
<1>4. /\ append \in SUBSET SysRule /\ DOMAIN fill \subseteq Chain
      /\ \A x \in DOMAIN fill : fill[x] \in Bodies
  BY <1>3 DEF Holds
<1>5. /\ k' \in KType /\ k'.exist = k.exist \cup DOMAIN fill
      /\ \A x \in Chain : k'.body[x] = IF x \in DOMAIN fill THEN fill[x] ELSE k.body[x]
      /\ \A r \in SysRule : k'.sys[r] = IF r \in append THEN k.sys[r] + 1 ELSE k.sys[r]
      /\ k'.ipRule = k.ipRule /\ k'.fast = k.fast /\ k'.saved = k.saved /\ k'.factory = k.factory
  BY <1>1, <1>3, <1>4, BatchIs
<1>6. Jumps \subseteq SysRule /\ Captures \subseteq Chain
  BY DEF Jumps, SysRule, Captures, Chain
<1>7. CASE s.on = Table(op.path)
  <2>1. /\ \A r \in Jumps : r \in append <=> \E c \in C : r = JumpTo[c]
        /\ \A c \in C : c \in DOMAIN fill /\ fill[c] = <<"capture">>
    BY <1>3, <1>7 DEF Holds
  <2>2. QED
    BY <1>4, <1>5, <1>6, <1>7, <2>1
<1>8. CASE s.on # Table(op.path)
  <2>1. (\A r \in Jumps : r \notin append) /\ \A x \in Captures : x \notin DOMAIN fill
    BY <1>3, <1>8 DEF Holds
  <2>2. QED
    BY <1>4, <1>5, <1>6, <1>8, <2>1
<1>9. QED
  BY <1>7, <1>8

\* The effect of a call that comes after the batch.
LEMMA CallLate ==
  ASSUME Types, NEW s \in StepType, Late(s), k' = Effect(s)
  PROVE  /\ k' \in KType /\ k'.ipRule = k.ipRule /\ k'.factory = k.factory
         /\ k'.fast = k.fast /\ k'.saved = k.saved /\ k.exist \subseteq k'.exist
         /\ \A r \in Jumps : k'.sys[r] = k.sys[r]
         /\ \A x \in Chain : \/ k'.body[x] \in {k.body[x]} \cup Bodies
                             \/ \E kind \in Bypass : k'.body[x] = <<kind>> \o k.body[x]
         /\ \A x \in Captures : \A kind : InBody(k.body[x], kind) => InBody(k'.body[x], kind)
         /\ s.do = "bypass" => InBody(k'.body[CaptureChain[op.path]], s.on)
<1>1. k \in KType /\ op.path \in Path
  BY DEF Types, OpType
<1>2. CASE s.do = "batch"
  <2>1. s.on \in {"filter", "dpi"} /\ s.on # Table(op.path)
    BY <1>2 DEF Late, Table
  <2>2. QED
    BY <1>2, <2>1, CallBatch
<1>3. CASE s.do = "ensure"
  <2>1. k' = EnsureRule(s.on) /\ s.on \in SysRule \ Jumps
    BY <1>3 DEF Effect, StepType, SysRule, Jumps
  <2>2. PICK y : y = [k.sys EXCEPT ![s.on] = IF @ = 0 THEN 1 ELSE @]
    OBVIOUS
  <2>3. k.sys \in [SysRule -> Nat] /\ Jumps \subseteq SysRule
    BY <1>1 DEF KType, Jumps, SysRule
  <2>4. y \in [SysRule -> Nat] /\ \A r \in Jumps : y[r] = k.sys[r]
    BY <2>1, <2>2, <2>3
  <2>5. k' = [k EXCEPT !.sys = y]
    BY <2>1, <2>2 DEF EnsureRule
  <2>6. /\ k' \in KType /\ k'.sys = y /\ k'.body = k.body /\ k'.exist = k.exist /\ k'.ipRule = k.ipRule
        /\ k'.fast = k.fast /\ k'.saved = k.saved /\ k'.factory = k.factory
    BY <1>1, <2>4, <2>5 DEF KType
  <2>7. QED
    BY <1>3, <2>4, <2>6
<1>4. CASE s.do = "route"
  <2>1. k' = [k EXCEPT !.routes = @ \cup {"local"}]
    BY <1>4 DEF Effect
  <2>2. /\ k' \in KType /\ k'.sys = k.sys /\ k'.body = k.body /\ k'.exist = k.exist /\ k'.ipRule = k.ipRule
        /\ k'.fast = k.fast /\ k'.saved = k.saved /\ k'.factory = k.factory
    BY <1>1, <2>1 DEF KType
  <2>3. QED
    BY <1>4, <2>2
<1>5. CASE s.do = "bypass"
  <2>1. PICK c : c = CaptureChain[op.path]
    OBVIOUS
  <2>2. c \in Chain /\ s.on \in Bypass
    BY <1>1, <1>5, <2>1 DEF CaptureChain, Path, Chain, StepType
  <2>3. k' = [k EXCEPT !.body[c] = IF \E i \in DOMAIN @ : @[i] = s.on THEN @ ELSE <<s.on>> \o @]
    BY <1>5, <2>1 DEF Effect, InsertRule
  <2>4. PICK b : b = k.body[c]
    OBVIOUS
  <2>5. PICK d : d = IF InBody(b, s.on) THEN b ELSE <<s.on>> \o b
    OBVIOUS
  <2>6. k.body \in [Chain -> Seq(RuleKind)] /\ b \in Seq(RuleKind)
    BY <1>1, <2>2, <2>4 DEF KType
  <2>7. PICK y : y = [k.body EXCEPT ![c] = d]
    OBVIOUS
  <2>8. k' = [k EXCEPT !.body = y]
    BY <2>3, <2>4, <2>5, <2>7 DEF InBody
  <2>9. d \in Seq(RuleKind)
    BY <2>2, <2>5, <2>6, PrefixIs
  <2>10. y \in [Chain -> Seq(RuleKind)] /\ \A x \in Chain : y[x] = IF x = c THEN d ELSE k.body[x]
    BY <2>6, <2>7, <2>9
  <2>11. /\ k' \in KType /\ k'.sys = k.sys /\ k'.body = y /\ k'.exist = k.exist /\ k'.ipRule = k.ipRule
         /\ k'.fast = k.fast /\ k'.saved = k.saved /\ k'.factory = k.factory
    BY <1>1, <2>8, <2>10 DEF KType
  <2>12. InBody(d, s.on) /\ \A kind : InBody(b, kind) => InBody(d, kind)
    BY <2>2, <2>5, <2>6, PrefixIs
  <2>13. \A x \in Chain : \/ k'.body[x] \in {k.body[x]} \cup Bodies
                          \/ \E kind \in Bypass : k'.body[x] = <<kind>> \o k.body[x]
    BY <2>2, <2>4, <2>5, <2>10, <2>11
  <2>14. Captures \subseteq Chain
    BY DEF Captures, Chain
  <2>15. \A x \in Captures : \A kind : InBody(k.body[x], kind) => InBody(k'.body[x], kind)
    BY <2>2, <2>4, <2>10, <2>11, <2>12, <2>14
  <2>16. QED
    BY <1>5, <2>1, <2>2, <2>10, <2>11, <2>12, <2>13, <2>15
<1>6. QED
  BY <1>2, <1>3, <1>4, <1>5 DEF Late

\* The effect of a call of Remove.
LEMMA CallClears ==
  ASSUME Types, FastPath, NEW s \in StepType, s.do \in Clearing, k' = Effect(s)
  PROVE  /\ k' \in KType /\ k'.factory = k.factory /\ k'.exist \subseteq k.exist
         /\ \A x \in Chain : k'.body[x] \in {k.body[x], <<>>}
         /\ s.do = "drop" => \A r \in Jumps : k'.sys[r] = IF r # s.on THEN k.sys[r]
                                               ELSE IF k.sys[r] > maxIter THEN k.sys[r] - maxIter ELSE 0
         /\ s.do # "drop" => \A r \in Jumps : k'.sys[r] = k.sys[r]
         /\ s.do = "chain" => /\ k'.body[s.on] = <<>>
                              /\ k.sys[JumpTo[s.on]] = 0 => s.on \notin k'.exist
         /\ (k'.ipRule => k.ipRule) /\ (s.do = "ipRuleOff" => ~k'.ipRule)
         /\ (k'.sets => k.sets) /\ (s.do = "destroy" /\ k.body["full"] = <<>> => ~k'.sets)
         /\ s.do # "fastOn" => k'.fast = k.fast /\ k'.saved = k.saved
         /\ s.do = "fastOn" => (~used.forgot => k'.fast = k.factory) /\ k'.saved = {}
<1>1. k \in KType /\ Jumps \subseteq SysRule
  BY DEF Types, Jumps, SysRule
<1>2. CASE s.do = "delete"
  <2>1. s.on \in SysRule \ Jumps
    BY <1>2 DEF StepType, SysRule, Jumps
  <2>2. k' = k \/ k' = DeleteRule(s.on)
    BY <1>2 DEF Effect
  <2>3. CASE k' = DeleteRule(s.on)
    <3>1. PICK y : y = [k.sys EXCEPT ![s.on] = IF @ = 0 THEN 0 ELSE @ - 1]
      OBVIOUS
    <3>2. k.sys \in [SysRule -> Nat]
      BY <1>1 DEF KType
    <3>3. y \in [SysRule -> Nat] /\ \A r \in Jumps : y[r] = k.sys[r]
      BY <1>1, <2>1, <3>1, <3>2
    <3>4. k' = [k EXCEPT !.sys = y]
      BY <2>3, <3>1 DEF DeleteRule
    <3>5. /\ k' \in KType /\ k'.sys = y /\ k'.body = k.body /\ k'.exist = k.exist /\ k'.ipRule = k.ipRule
          /\ k'.sets = k.sets /\ k'.fast = k.fast /\ k'.saved = k.saved /\ k'.factory = k.factory
      BY <1>1, <3>3, <3>4 DEF KType
    <3>6. QED
      BY <1>2, <3>3, <3>5
  <2>4. CASE k' = k
    BY <1>1, <1>2, <2>4
  <2>5. QED
    BY <2>2, <2>3, <2>4
<1>3. CASE s.do = "drop"
  <2>1. k' = DeleteJumpAll(s.on)
    BY <1>3 DEF Effect
  <2>2. s.on \in SysRule
    BY <1>3 DEF StepType, Jumps, SysRule
  <2>3. QED
    BY <1>1, <1>3, <2>1, <2>2, DropIs
<1>4. CASE s.do = "chain"
  <2>1. s.on \in Chain
    BY <1>4 DEF StepType
  <2>2. k' = [k EXCEPT !.body[s.on] = <<>>, !.exist = IF k.sys[JumpTo[s.on]] = 0 THEN @ \ {s.on} ELSE @]
    BY <1>4 DEF Effect, DeleteChain
  <2>3. PICK y : y = [k.body EXCEPT ![s.on] = <<>>]
    OBVIOUS
  <2>4. PICK e : e = IF k.sys[JumpTo[s.on]] = 0 THEN k.exist \ {s.on} ELSE k.exist
    OBVIOUS
  <2>5. k' = [k EXCEPT !.body = y, !.exist = e]
    BY <2>2, <2>3, <2>4
  <2>6. k.body \in [Chain -> Seq(RuleKind)] /\ k.exist \in SUBSET Chain
    BY <1>1 DEF KType
  <2>7. y \in [Chain -> Seq(RuleKind)] /\ \A x \in Chain : y[x] = IF x = s.on THEN <<>> ELSE k.body[x]
    BY <2>1, <2>3, <2>6
  <2>8. e \in SUBSET Chain /\ e \subseteq k.exist /\ (k.sys[JumpTo[s.on]] = 0 => s.on \notin e)
    BY <2>4, <2>6
  <2>9. /\ k' \in KType /\ k'.sys = k.sys /\ k'.body = y /\ k'.exist = e /\ k'.ipRule = k.ipRule
        /\ k'.sets = k.sets /\ k'.fast = k.fast /\ k'.saved = k.saved /\ k'.factory = k.factory
    BY <1>1, <2>5, <2>7, <2>8 DEF KType
  <2>10. QED
    BY <1>4, <2>1, <2>7, <2>8, <2>9
<1>5. CASE s.do = "unroute"
  <2>1. k' = [k EXCEPT !.routes = @ \ {IF op.tproxy THEN "local" ELSE "tun"}]
    BY <1>5 DEF Effect
  <2>2. PICK x : x = {IF op.tproxy THEN "local" ELSE "tun"}
    OBVIOUS
  <2>3. k' = [k EXCEPT !.routes = k.routes \ x]
    BY <2>1, <2>2
  <2>4. /\ k' \in KType /\ k'.sys = k.sys /\ k'.body = k.body /\ k'.exist = k.exist /\ k'.ipRule = k.ipRule
        /\ k'.sets = k.sets /\ k'.fast = k.fast /\ k'.saved = k.saved /\ k'.factory = k.factory
    BY <1>1, <2>3 DEF KType
  <2>5. QED
    BY <1>5, <2>4
<1>6. CASE s.do = "ipRuleOff"
  <2>1. k' = [k EXCEPT !.ipRule = FALSE]
    BY <1>6 DEF Effect
  <2>2. /\ k' \in KType /\ k'.sys = k.sys /\ k'.body = k.body /\ k'.exist = k.exist /\ k'.ipRule = FALSE
        /\ k'.sets = k.sets /\ k'.fast = k.fast /\ k'.saved = k.saved /\ k'.factory = k.factory
    BY <1>1, <2>1 DEF KType
  <2>3. QED
    BY <1>6, <2>2
<1>7. CASE s.do = "destroy"
  <2>1. k' = [k EXCEPT !.sets = (@ /\ k.body["full"] # <<>>)]
    BY <1>7 DEF Effect
  <2>2. /\ k' \in KType /\ k'.sys = k.sys /\ k'.body = k.body /\ k'.exist = k.exist /\ k'.ipRule = k.ipRule
        /\ k'.sets = (k.sets /\ k.body["full"] # <<>>)
        /\ k'.fast = k.fast /\ k'.saved = k.saved /\ k'.factory = k.factory
    BY <1>1, <2>1 DEF KType
  <2>3. QED
    BY <1>7, <2>2
<1>8. CASE s.do = "fastOn"
  <2>1. k' = [k EXCEPT !.fast = IF k.saved = {} THEN @ ELSE CHOOSE v \in k.saved : TRUE, !.saved = {}]
    BY <1>8 DEF Effect, RestoreFastPath
  <2>2. PICK n : n = IF k.saved = {} THEN k.fast ELSE CHOOSE v \in k.saved : TRUE
    OBVIOUS
  <2>3. CASE k.saved = {}
    <3>1. n = k.fast /\ (~used.forgot => n = k.factory) /\ n \in {0, 1}
      BY <1>1, <2>2, <2>3 DEF FastPath, KType
    <3>2. QED
      BY <1>1, <1>8, <2>1, <2>2, <3>1 DEF KType
  <2>4. CASE k.saved # {}
    <3>1. n \in k.saved
      BY <2>2, <2>4
    <3>2. n \in {0, 1} /\ (~used.forgot => n = k.factory)
      BY <1>1, <3>1 DEF FastPath, KType
    <3>3. QED
      BY <1>1, <1>8, <2>1, <2>2, <3>2 DEF KType
  <2>5. QED
    BY <2>3, <2>4
<1>9. QED
  BY <1>2, <1>3, <1>4, <1>5, <1>6, <1>7, <1>8 DEF Clearing

-----------------------------------------------------------------------------
(* How a call moves an operation on.                                       *)

\* What a list of late calls does not hold.
LEMMA LateHas ==
  ASSUME NEW t, AllLate(t), NEW w, NEW x, Has(t, w, x)
  PROVE  w \in {"bypass", "ensure", "route"} \/ (w = "batch" /\ x \in {"filter", "dpi"})
BY DEF AllLate, Late, Has

\* A chain with one rule, or none, lets nothing by too late.
LEMMA FrontsKept ==
  ASSUME Fronts, k \in KType,
         \A x \in Chain : \/ k'.body[x] \in {k.body[x]} \cup Bodies
                          \/ \E kind \in Bypass : k'.body[x] = <<kind>> \o k.body[x]
  PROVE  Fronts'
<1>1. SUFFICES ASSUME NEW x \in Chain, NEW d, d = k'.body[x] PROVE Fronted(d)
  BY DEF Fronts
<1>2. PICK b : b = k.body[x]
  OBVIOUS
<1>3. b \in Seq(RuleKind) /\ Fronted(b)
  BY <1>2 DEF Fronts, KType
<1>4. CASE d = b
  BY <1>3, <1>4
<1>5. CASE d = <<>>
  <2>1. DOMAIN d = {}
    BY <1>5
  <2>2. QED
    BY <2>1 DEF Fronted
<1>6. CASE d \in {<<"capture">>, <<"queue">>}
  <2>1. DOMAIN d = {1} /\ d[1] \in {"capture", "queue"}
    BY <1>6
  <2>2. QED
    BY <2>1 DEF Fronted, Bypass
<1>7. CASE \E kind \in Bypass : d = <<kind>> \o b
  BY <1>3, <1>7, PrefixIs
<1>8. QED
  BY <1>1, <1>2, <1>4, <1>5, <1>6, <1>7 DEF Bodies

\* The jumps and the chains of a path.
LEMMA PathIs ==
  ASSUME NEW p \in Path, NEW ports \in BOOLEAN, NEW C, C = CaptureChains(p, ports)
  PROVE  /\ CaptureChain[p] \in C /\ C \subseteq Captures
         /\ Table(p) \in {"mangle", "nat"} /\ Captures \subseteq Chain /\ Jumps \subseteq SysRule
         /\ \A c \in Captures : JumpTo[c] \in Jumps
<1>1. CaptureChain[p] \in Captures /\ Table(p) \in {"mangle", "nat"}
  BY DEF Path, CaptureChain, Captures, Table
<1>2. C \subseteq {CaptureChain[p], "ports"} /\ CaptureChain[p] \in C
  BY DEF CaptureChains
<1>3. "ports" \in Captures /\ Captures \subseteq Chain /\ Jumps \subseteq SysRule
  BY DEF Captures, Chain, Jumps, SysRule
<1>4. \A c \in Captures : JumpTo[c] \in Jumps
  BY DEF JumpTo, Captures, Jumps
<1>5. QED
  BY <1>1, <1>2, <1>3, <1>4

\* A call of Apply or Reconcile.
LEMMA StepApplying ==
  ASSUME FirewallInv, op.name \in {"apply", "reconcile"}, NEW t, t = op.todo, t # <<>>,
         NEW s, s = Head(t), NEW u, u = Tail(t), k' = Effect(s), used' = used
  PROVE  /\ k' \in KType /\ FastPath' /\ Fronts' /\ \A r \in Jumps : k'.sys[r] <= 1 + used.lost
         /\ Applying(u, op.path, op.ports, done.passes, k', done.calm, used.lost)
<1>1. /\ Types /\ k \in KType /\ t \in Seq(StepType) /\ op.path \in Path /\ op.ports \in BOOLEAN /\ used.lost \in Nat
      /\ done.calm \in BOOLEAN
  BY DEF FirewallInv, Types, OpType, DoneType, UsedType
<1>2. PICK p, ports, passes, calm, lost :
        p = op.path /\ ports = op.ports /\ passes = done.passes /\ calm = done.calm /\ lost = used.lost
  OBVIOUS
<1>3. PICK C, main : C = CaptureChains(p, ports) /\ main = CaptureChain[p]
  OBVIOUS
<1>4. /\ main \in C /\ C \subseteq Captures /\ Captures \subseteq Chain /\ Table(p) \in {"mangle", "nat"} /\ Jumps \subseteq SysRule
      /\ \A c \in C : JumpTo[c] \in Jumps /\ c \in Chain
  <2>1. p \in Path /\ ports \in BOOLEAN
    BY <1>1, <1>2
  <2>2. QED
    BY <1>3, <2>1, PathIs
<1>6. /\ Staged(p, t)
      /\ k.ipRule \/ Has(t, "ipRule", "none")
      /\ \/ /\ Has(t, "batch", Table(p)) /\ \A x \in passes : Has(t, "bypass", x)
            /\ \A c \in C : Cleared(t, c, k, calm, lost)
         \/ /\ AllLate(t)
            /\ calm => /\ \A c \in C : Reached(c, k, lost)
                       /\ \A x \in passes : Has(t, "bypass", x) \/ InBody(k.body[main], x)
  <2>1. Applying(t, p, ports, passes, k, calm, lost)
    BY <1>2 DEF FirewallInv, Course
  <2>2. QED
    BY <1>3, <2>1 DEF Applying
<1>7. /\ s \in StepType /\ u \in Seq(StepType) /\ Staged(p, u)
      /\ Early(s) \/ AllLate(u)
      /\ Early(s) \/ Main(p, s) \/ Late(s)
      /\ \A w, x : Has(t, w, x) /\ ~(w = s.do /\ x = s.on) => Has(u, w, x)
      /\ AllLate(t) => Late(s) /\ AllLate(u)
  BY <1>1, <1>6, TailIs
<1>8. lost \in Nat /\ (\A r \in Jumps : k.sys[r] \in Nat /\ k.sys[r] <= 1 + lost)
  BY <1>1, <1>2, <1>4 DEF FirewallInv, Bound, KType
<1>9. FastPath /\ Fronts
  BY DEF FirewallInv
<1>10. k' \in KType => \A r \in Jumps : k'.sys[r] \in Nat
  BY <1>4 DEF KType
<1>11. CASE Early(s)
  <2>1. /\ k' \in KType /\ k'.body = k.body /\ k'.exist = k.exist /\ k'.factory = k.factory
        /\ k.ipRule \/ s.do = "ipRule" => k'.ipRule
        /\ s.do # "drop" => k'.sys = k.sys
        /\ s.do = "drop" => \A r \in Jumps : k'.sys[r] = IF r # s.on THEN k.sys[r]
                                              ELSE IF k.sys[r] > maxIter THEN k.sys[r] - maxIter ELSE 0
        /\ s.do # "fastOff" => k'.fast = k.fast /\ k'.saved = k.saved
        /\ s.do = "fastOff" => k'.fast = 0 /\ k'.saved = IF k.saved = {} THEN {k.fast} ELSE k.saved
    BY <1>1, <1>7, <1>11, CallEarly
  <2>2. FastPath'
    <3>1. k.fast \in {0, 1}
      BY <1>1 DEF KType
    <3>2. \E v \in {0, 1} : k'.saved \subseteq {v}
      BY <1>9, <2>1, <3>1 DEF FastPath
    <3>3. ASSUME ~used.forgot
          PROVE  k'.saved \subseteq {k'.factory} /\ (k'.saved = {} => k'.fast = k'.factory)
      <4>1. k.saved \subseteq {k.factory} /\ (k.saved = {} => k.fast = k.factory)
        BY <1>9, <3>3 DEF FastPath
      <4>2. CASE s.do = "fastOff"
        BY <2>1, <4>1, <4>2
      <4>3. CASE s.do # "fastOff"
        BY <2>1, <4>1, <4>3
      <4>4. QED
        BY <4>2, <4>3
    <3>4. QED
      BY <3>2, <3>3 DEF FastPath
  <2>3. Fronts'
    BY <1>1, <1>9, <2>1, FrontsKept
  <2>4. \A r \in Jumps : k'.sys[r] <= k.sys[r] /\ k'.sys[r] <= 1 + lost
    BY <1>8, <2>1 DEF maxIter
  <2>5. \A j \in Jumps : s.do = "drop" /\ s.on = j => k'.sys[j] <= lost /\ (lost < maxIter => k'.sys[j] = 0)
    BY <1>8, <2>1 DEF maxIter
  <2>6. ~AllLate(t) /\ s.do \notin {"batch", "bypass"}
    BY <1>7, <1>11 DEF Early, Late
  <2>7. k'.ipRule \/ Has(u, "ipRule", "none")
    BY <1>6, <1>7, <2>1
  <2>8. Has(u, "batch", Table(p)) /\ \A x \in passes : Has(u, "bypass", x)
    BY <1>6, <1>7, <2>6
  <2>9. ASSUME NEW c \in C PROVE Cleared(u, c, k', calm, lost)
    <3>1. PICK j : j = JumpTo[c]
      OBVIOUS
    <3>2. j \in Jumps
      BY <1>4, <3>1
    <3>3. Has(t, "drop", j) \/ (k.sys[j] <= lost /\ (calm /\ lost < maxIter => k.sys[j] = 0))
      BY <1>6, <2>6, <3>1 DEF Cleared
    <3>4. CASE s.do = "drop" /\ s.on = j
      BY <2>5, <3>1, <3>2, <3>4 DEF Cleared
    <3>5. CASE ~(s.do = "drop" /\ s.on = j)
      <4>1. Has(t, "drop", j) => Has(u, "drop", j)
        BY <1>7, <3>5
      <4>2. k'.sys[j] = k.sys[j]
        BY <2>1, <3>2, <3>5
      <4>3. QED
        BY <3>1, <3>3, <4>1, <4>2 DEF Cleared
    <3>6. QED
      BY <3>4, <3>5
  <2>10. Applying(u, p, ports, passes, k', calm, lost)
    BY <1>3, <1>7, <2>7, <2>8, <2>9 DEF Applying
  <2>11. QED
    BY <1>2, <2>1, <2>2, <2>3, <2>4, <2>10
<1>12. CASE Main(p, s)
  <2>1. s.do = "batch" /\ s.on = Table(p) /\ ~AllLate(t) /\ AllLate(u)
    BY <1>4, <1>7, <1>12 DEF Main, Early, Late
  <2>2. /\ k' \in KType /\ k'.ipRule = k.ipRule /\ k'.factory = k.factory
        /\ k'.fast = k.fast /\ k'.saved = k.saved
        /\ \A x \in Chain : k'.body[x] \in {k.body[x]} \cup Bodies
        /\ \A r \in Jumps : k'.sys[r] = IF \E c \in C : r = JumpTo[c] THEN k.sys[r] + 1 ELSE k.sys[r]
        /\ \A c \in C : c \in k'.exist /\ k'.body[c] = <<"capture">>
    BY <1>1, <1>2, <1>3, <1>7, <2>1, CallBatch
  <2>3. FastPath'
    BY <1>9, <2>2 DEF FastPath
  <2>4. Fronts'
    BY <1>1, <1>9, <2>2, FrontsKept
  <2>5. ASSUME NEW c \in C PROVE k.sys[JumpTo[c]] <= lost /\ (calm /\ lost < maxIter => k.sys[JumpTo[c]] = 0)
    <3>1. ~Has(t, "drop", JumpTo[c])
      BY <1>7, <2>1, LateHas
    <3>2. Cleared(t, c, k, calm, lost)
      BY <1>6, <2>1
    <3>3. QED
      BY <3>1, <3>2 DEF Cleared
  <2>7. \A r \in Jumps : k'.sys[r] <= 1 + lost
    BY <1>8, <2>2, <2>5
  <2>8. ASSUME calm, NEW c \in C PROVE Reached(c, k', lost)
    <3>1. JumpTo[c] \in Jumps
      BY <1>4
    <3>2. lost < maxIter => k'.sys[JumpTo[c]] = 1
      BY <2>2, <2>5, <2>8, <3>1
    <3>3. PICK b : b = <<"capture">>
      OBVIOUS
    <3>4. 1 \in DOMAIN b /\ b[1] = "capture"
      BY <3>3
    <3>5. InBody(k'.body[c], "capture")
      BY <2>2, <3>3, <3>4 DEF InBody
    <3>6. QED
      BY <2>2, <3>2, <3>5 DEF Reached
  <2>10. (\A x \in passes : Has(u, "bypass", x)) /\ (k'.ipRule \/ Has(u, "ipRule", "none"))
    BY <1>6, <1>7, <2>1, <2>2
  <2>11. Applying(u, p, ports, passes, k', calm, lost)
    BY <1>3, <1>7, <2>1, <2>8, <2>10 DEF Applying
  <2>12. QED
    BY <1>2, <2>2, <2>3, <2>4, <2>7, <2>11
<1>13. CASE Late(s)
  <2>1. AllLate(u) /\ s.do # "ipRule" /\ ~(s.do = "batch" /\ s.on = Table(p))
    BY <1>4, <1>7, <1>13 DEF Early, Late
  <2>2. ~Has(u, "batch", Table(p))
    BY <1>4, <2>1, LateHas
  <2>3. ~Has(t, "batch", Table(p))
    BY <1>7, <2>1, <2>2
  <2>4. calm => /\ \A c \in C : Reached(c, k, lost)
                /\ \A x \in passes : Has(t, "bypass", x) \/ InBody(k.body[main], x)
    BY <1>6, <2>3
  <2>5. /\ k' \in KType /\ k'.ipRule = k.ipRule /\ k'.factory = k.factory
        /\ k'.fast = k.fast /\ k'.saved = k.saved /\ k.exist \subseteq k'.exist
        /\ \A r \in Jumps : k'.sys[r] = k.sys[r]
        /\ \A x \in Chain : \/ k'.body[x] \in {k.body[x]} \cup Bodies
                            \/ \E kind \in Bypass : k'.body[x] = <<kind>> \o k.body[x]
        /\ \A x \in Captures : \A kind : InBody(k.body[x], kind) => InBody(k'.body[x], kind)
        /\ s.do = "bypass" => InBody(k'.body[main], s.on)
    BY <1>1, <1>2, <1>3, <1>7, <1>13, CallLate
  <2>6. FastPath'
    BY <1>9, <2>5 DEF FastPath
  <2>7. Fronts'
    BY <1>1, <1>9, <2>5, FrontsKept
  <2>8. \A kind : Has(t, "bypass", kind) \/ InBody(k.body[main], kind)
                    => Has(u, "bypass", kind) \/ InBody(k'.body[main], kind)
    BY <1>4, <1>7, <2>5
  <2>9. calm => /\ \A c \in C : Reached(c, k', lost)
                /\ \A x \in passes : Has(u, "bypass", x) \/ InBody(k'.body[main], x)
    BY <1>4, <2>4, <2>5, <2>8 DEF Reached
  <2>10. k'.ipRule \/ Has(u, "ipRule", "none")
    BY <1>6, <1>7, <2>1, <2>5
  <2>11. Applying(u, p, ports, passes, k', calm, lost)
    BY <1>3, <1>7, <2>1, <2>9, <2>10 DEF Applying
  <2>12. QED
    BY <1>2, <1>8, <2>5, <2>6, <2>7, <2>11
<1>14. QED
  BY <1>7, <1>11, <1>12, <1>13

\* A call of Apply or Reconcile that failed and was only logged.
LEMMA LostApplying ==
  ASSUME FirewallInv, op.name \in {"apply", "reconcile"}, NEW t, t = op.todo, t # <<>>,
         NEW s, s = Head(t), NEW u, u = Tail(t), s.do \in Tolerated, k'.sys = k.sys, k'.ipRule = k.ipRule
  PROVE  Applying(u, op.path, op.ports, done.passes, k', FALSE, used.lost + 1)
<1>1. k \in KType /\ t \in Seq(StepType) /\ op.path \in Path /\ op.ports \in BOOLEAN /\ used.lost \in Nat
  BY DEF FirewallInv, Types, OpType, UsedType
<1>2. PICK p, ports, passes, calm, lost :
        p = op.path /\ ports = op.ports /\ passes = done.passes /\ calm = done.calm /\ lost = used.lost
  OBVIOUS
<1>3. PICK C : C = CaptureChains(p, ports)
  OBVIOUS
<1>4. \A c \in C : JumpTo[c] \in Jumps
  <2>1. p \in Path /\ ports \in BOOLEAN
    BY <1>1, <1>2
  <2>2. QED
    BY <1>3, <2>1, PathIs
<1>6. /\ Staged(p, t)
      /\ k.ipRule \/ Has(t, "ipRule", "none")
      /\ \/ Has(t, "batch", Table(p)) /\ \A x \in passes : Has(t, "bypass", x)
         \/ AllLate(t)
  <2>1. Applying(t, p, ports, passes, k, calm, lost)
    BY <1>2 DEF FirewallInv, Course
  <2>2. QED
    BY <2>1 DEF Applying
<1>7. /\ Staged(p, u)
      /\ \A w, x : Has(t, w, x) /\ ~(w = s.do /\ x = s.on) => Has(u, w, x)
      /\ AllLate(t) => Late(s) /\ AllLate(u)
  BY <1>1, <1>6, TailIs
<1>8. ~AllLate(t)
  BY <1>7 DEF Late, Tolerated
<1>9. Has(u, "batch", Table(p)) /\ \A x \in passes : Has(u, "bypass", x)
  BY <1>6, <1>7, <1>8 DEF Tolerated
<1>10. k'.ipRule \/ Has(u, "ipRule", "none")
  BY <1>6, <1>7 DEF Tolerated
<1>11. \A c \in C : k'.sys[JumpTo[c]] <= lost + 1
  BY <1>2, <1>4, <1>1 DEF FirewallInv, Bound
<1>12. Applying(u, p, ports, passes, k', FALSE, lost + 1)
  BY <1>3, <1>7, <1>9, <1>10, <1>11 DEF Applying, Cleared
<1>13. QED
  BY <1>2, <1>12

\* A call of Remove, or of the rollback.
LEMMA StepRemoving ==
  ASSUME FirewallInv, op.name \in {"remove", "rollback"}, NEW t, t = op.todo, t # <<>>,
         NEW s, s = Head(t), NEW u, u = Tail(t), k' = Effect(s), used' = used
  PROVE  /\ k' \in KType /\ FastPath' /\ Fronts' /\ \A r \in Jumps : k'.sys[r] <= 1 + used.lost
         /\ Removing(u, k', done.calm, used.lost, used.forgot)
<1>1. Types /\ k \in KType /\ t \in Seq(StepType) /\ used.lost \in Nat
  BY DEF FirewallInv, Types, OpType, UsedType
<1>2. PICK calm, lost, forgot : calm = done.calm /\ lost = used.lost /\ forgot = used.forgot
  OBVIOUS
<1>3. /\ Tidy(t)
      /\ calm /\ lost < maxIter =>
           /\ \A j \in Jumps : k.sys[j] = 0 \/ Has(t, "drop", j)
           /\ \A c \in Captures : c \notin k.exist \/ Has(t, "chain", c)
      /\ calm => /\ ~k.ipRule \/ Has(t, "ipRuleOff", "none")
                 /\ k.body["full"] = <<>> \/ Has(t, "chain", "full")
                 /\ ~k.sets \/ Has(t, "destroy", "none")
                 /\ forgot \/ k.fast = k.factory \/ Has(t, "fastOn", "none")
  <2>1. Removing(t, k, calm, lost, forgot)
    BY <1>2 DEF FirewallInv, Course
  <2>2. QED
    BY <2>1 DEF Removing
<1>4. /\ s \in StepType /\ s.do \in Clearing /\ Tidy(u)
      /\ \A w, x : Has(t, w, x) /\ ~(w = s.do /\ x = s.on) => Has(u, w, x)
      /\ s.do \notin {"delete", "drop"} => \A x : ~Has(u, "drop", x)
      /\ s.do \notin {"delete", "drop", "chain"} => \A x : ~Has(u, "chain", x)
  BY <1>1, <1>3, TailIs
<1>5. FastPath /\ Fronts
  BY DEF FirewallInv
<1>6. /\ k' \in KType /\ k'.factory = k.factory /\ k'.exist \subseteq k.exist
      /\ \A x \in Chain : k'.body[x] \in {k.body[x], <<>>}
      /\ s.do = "drop" => \A r \in Jumps : k'.sys[r] = IF r # s.on THEN k.sys[r]
                                            ELSE IF k.sys[r] > maxIter THEN k.sys[r] - maxIter ELSE 0
      /\ s.do # "drop" => \A r \in Jumps : k'.sys[r] = k.sys[r]
      /\ s.do = "chain" => /\ k'.body[s.on] = <<>>
                           /\ k.sys[JumpTo[s.on]] = 0 => s.on \notin k'.exist
      /\ (k'.ipRule => k.ipRule) /\ (s.do = "ipRuleOff" => ~k'.ipRule)
      /\ (k'.sets => k.sets) /\ (s.do = "destroy" /\ k.body["full"] = <<>> => ~k'.sets)
      /\ s.do # "fastOn" => k'.fast = k.fast /\ k'.saved = k.saved
      /\ s.do = "fastOn" => (~forgot => k'.fast = k.factory) /\ k'.saved = {}
  BY <1>2, <1>1, <1>4, <1>5, CallClears
<1>7. FastPath'
  <2>1. \E v \in {0, 1} : k'.saved \subseteq {v}
    BY <1>5, <1>6 DEF FastPath
  <2>2. ASSUME ~used.forgot
        PROVE  k'.saved \subseteq {k'.factory} /\ (k'.saved = {} => k'.fast = k'.factory)
    <3>1. k.saved \subseteq {k.factory} /\ (k.saved = {} => k.fast = k.factory) /\ ~forgot
      BY <1>2, <1>5, <2>2 DEF FastPath
    <3>2. QED
      BY <1>6, <3>1
  <2>3. QED
    BY <2>1, <2>2 DEF FastPath
<1>8. Fronts'
  <2>1. \A x \in Chain : k'.body[x] \in {k.body[x]} \cup Bodies
    BY <1>6 DEF Bodies
  <2>2. QED
    BY <1>1, <1>5, <2>1, FrontsKept
<1>9. lost \in Nat /\ (\A r \in Jumps : k.sys[r] \in Nat /\ k.sys[r] <= 1 + lost)
  BY <1>1, <1>2 DEF FirewallInv, Bound, KType, Jumps, SysRule
<1>10. \A r \in Jumps : k'.sys[r] <= 1 + lost
  BY <1>6, <1>9 DEF maxIter
<1>11. ASSUME calm, lost < maxIter, NEW j \in Jumps PROVE k'.sys[j] = 0 \/ Has(u, "drop", j)
  <2>1. CASE s.do = "drop" /\ s.on = j
    BY <1>6, <1>9, <1>11, <2>1 DEF maxIter
  <2>2. CASE ~(s.do = "drop" /\ s.on = j)
    <3>1. Has(t, "drop", j) => Has(u, "drop", j)
      BY <1>4, <2>2
    <3>2. k'.sys[j] = k.sys[j]
      BY <1>6, <1>11, <2>2
    <3>3. QED
      BY <1>3, <1>11, <3>1, <3>2
  <2>3. QED
    BY <2>1, <2>2
<1>12. ASSUME calm, lost < maxIter, NEW c \in Captures PROVE c \notin k'.exist \/ Has(u, "chain", c)
  <2>1. CASE s.do = "chain" /\ s.on = c
    <3>1. JumpTo[c] \in Jumps /\ c \in Chain
      BY DEF JumpTo, Jumps, Captures, Chain
    <3>2. ~Has(u, "drop", JumpTo[c])
      BY <1>4, <2>1
    <3>3. ~Has(t, "drop", JumpTo[c])
      BY <1>4, <2>1, <3>2
    <3>4. k.sys[JumpTo[c]] = 0
      BY <1>3, <1>12, <3>1, <3>3
    <3>5. QED
      BY <1>6, <2>1, <3>4
  <2>2. CASE ~(s.do = "chain" /\ s.on = c)
    <3>1. Has(t, "chain", c) => Has(u, "chain", c)
      BY <1>4, <2>2
    <3>2. QED
      BY <1>3, <1>6, <1>12, <3>1
  <2>3. QED
    BY <2>1, <2>2
<1>13. ASSUME calm PROVE ~k'.ipRule \/ Has(u, "ipRuleOff", "none")
  <2>1. CASE s.do = "ipRuleOff"
    BY <1>6, <2>1
  <2>2. CASE s.do # "ipRuleOff"
    BY <1>3, <1>4, <1>6, <1>13, <2>2
  <2>3. QED
    BY <2>1, <2>2
<1>14. ASSUME calm PROVE k'.body["full"] = <<>> \/ Has(u, "chain", "full")
  <2>1. "full" \in Chain
    BY DEF Chain
  <2>2. CASE s.do = "chain" /\ s.on = "full"
    BY <1>6, <2>2
  <2>3. CASE ~(s.do = "chain" /\ s.on = "full")
    <3>1. Has(t, "chain", "full") => Has(u, "chain", "full")
      BY <1>4, <2>3
    <3>2. QED
      BY <1>3, <1>6, <1>14, <2>1, <3>1
  <2>4. QED
    BY <2>2, <2>3
<1>15. ASSUME calm PROVE ~k'.sets \/ Has(u, "destroy", "none")
  <2>1. CASE s.do = "destroy"
    <3>1. ~Has(t, "chain", "full")
      BY <1>4, <2>1
    <3>2. QED
      BY <1>3, <1>6, <1>15, <2>1, <3>1
  <2>2. CASE s.do # "destroy"
    BY <1>3, <1>4, <1>6, <1>15, <2>2
  <2>3. QED
    BY <2>1, <2>2
<1>16. ASSUME calm, ~forgot PROVE k'.fast = k'.factory \/ Has(u, "fastOn", "none")
  <2>1. CASE s.do = "fastOn"
    BY <1>6, <1>16, <2>1
  <2>2. CASE s.do # "fastOn"
    BY <1>3, <1>4, <1>6, <1>16, <2>2
  <2>3. QED
    BY <2>1, <2>2
<1>17. Removing(u, k', calm, lost, forgot)
  BY <1>4, <1>11, <1>12, <1>13, <1>14, <1>15, <1>16 DEF Removing
<1>18. QED
  BY <1>2, <1>6, <1>7, <1>8, <1>10, <1>17

\* A call of Remove that failed and was only logged.
LEMMA LostRemoving ==
  ASSUME FirewallInv, op.name \in {"remove", "rollback"}, NEW t, t = op.todo, t # <<>>, NEW u, u = Tail(t), NEW forgot
  PROVE  Removing(u, k', FALSE, used.lost + 1, forgot)
<1>1. t \in Seq(StepType)
  BY DEF FirewallInv, Types, OpType
<1>2. Tidy(t)
  BY DEF FirewallInv, Course, Removing
<1>3. Tidy(u)
  BY <1>1, <1>2, TailIs
<1>4. QED
  BY <1>3 DEF Removing

\* No operation runs.
LEMMA IdleIs == Idle \in OpType /\ Idle.name = "idle" /\ Idle.todo = <<>>
BY DEF Idle, OpType, Path

\* The traffic of path p is captured, and what is due is let through.
Captured(p, ports, passes, kern, calm, lost) ==
  /\ kern.ipRule
  /\ calm => /\ \A c \in CaptureChains(p, ports) : Reached(c, kern, lost)
             /\ \A x \in passes : InBody(kern.body[CaptureChain[p]], x)

\* When the last call of Apply or Reconcile is made, the traffic is captured.
LEMMA AppliedAtEnd ==
  ASSUME NEW p, NEW ports, NEW passes, NEW kern, NEW calm \in BOOLEAN, NEW lost \in Nat,
         NEW t, t = <<>>, Applying(t, p, ports, passes, kern, calm, lost)
  PROVE  Captured(p, ports, passes, kern, calm, lost)
<1>1. DOMAIN t = {}
  OBVIOUS
<1>2. \A w, x : ~Has(t, w, x)
  BY <1>1 DEF Has
<1>3. QED
  BY <1>2 DEF Applying, Captured

\* Nothing that Remove clears is left.
Freed(kern, calm, lost, forgot) ==
  /\ calm /\ lost < maxIter => (\A j \in Jumps : kern.sys[j] = 0) /\ (\A c \in Captures : c \notin kern.exist)
  /\ calm => ~kern.ipRule /\ ~kern.sets /\ (~forgot => kern.fast = kern.factory)

\* When the last call of Remove is made, nothing is left.
LEMMA RemovedAtEnd ==
  ASSUME NEW kern, NEW calm \in BOOLEAN, NEW lost, NEW forgot, NEW t, t = <<>>, Removing(t, kern, calm, lost, forgot)
  PROVE  Freed(kern, calm, lost, forgot)
<1>1. DOMAIN t = {}
  OBVIOUS
<1>2. \A w, x : ~Has(t, w, x)
  BY <1>1 DEF Has
<1>3. QED
  BY <1>2 DEF Removing, Freed

\* One call on: the operation goes on, or has done what it is about.
LEMMA Advances ==
  ASSUME FirewallInv, NEW t, t = op.todo, t # <<>>, NEW s, s = Head(t), NEW u, u = Tail(t), NEW calm \in BOOLEAN, Advance(calm),
         k' \in KType, FastPath', Fronts', \A r \in Jumps : k'.sys[r] <= 1 + used'.lost,
         used' \in UsedType, cfg' = cfg,
         op.name \in {"apply", "reconcile"} => Applying(u, op.path, op.ports, done.passes, k', calm, used'.lost),
         op.name \in {"remove", "rollback"} => Removing(u, k', calm, used'.lost, used'.forgot)
  PROVE  FirewallInv'
<1>1. op \in OpType /\ done \in DoneType /\ t \in Seq(StepType)
  BY DEF FirewallInv, Types, OpType
<1>2. op.name \in {"apply", "reconcile", "remove", "rollback"} /\ done.what = "none" /\ op.path \in Path /\ op.ports \in BOOLEAN
  BY <1>1 DEF FirewallInv, Course, OpType, DoneType
<1>3. u \in Seq(StepType)
  BY <1>1, TailIs
<1>4. Bound'
  BY DEF Bound
<1>5. cfg' \in Settings
  BY DEF FirewallInv, Types
<1>6. CASE u # <<>>
  <2>1. PICK b : b = (op.wan \/ s.do = "wan")
    OBVIOUS
  <2>2. op' = [op EXCEPT !.todo = u, !.wan = b]
    BY <1>6, <2>1 DEF Advance
  <2>3. done' = [done EXCEPT !.calm = calm, !.what = done.what]
    BY <1>6 DEF Advance
  <2>4. b \in BOOLEAN
    BY <2>1
  <2>5. op' \in OpType /\ op'.name = op.name /\ op'.todo = u /\ op'.path = op.path /\ op'.ports = op.ports
    BY <1>1, <1>3, <2>2, <2>4 DEF OpType
  <2>6. done' \in DoneType /\ done'.what = "none" /\ done'.calm = calm /\ done'.path = done.path /\ done'.ports = done.ports /\ done'.passes = done.passes
    BY <1>1, <1>2, <2>3 DEF DoneType
  <2>7. Types'
    BY <1>5, <2>5, <2>6 DEF Types
  <2>8. Course'
    <3>1. op'.name \in {"apply", "reconcile"} =>
            /\ done'.path = op'.path /\ done'.ports = op'.ports
            /\ Applying(op'.todo, op'.path, op'.ports, done'.passes, k', done'.calm, used'.lost)
      BY <2>5, <2>6 DEF FirewallInv, Course
    <3>2. op'.name \in {"remove", "rollback"} => Removing(op'.todo, k', done'.calm, used'.lost, used'.forgot)
      BY <2>5, <2>6
    <3>3. op'.name # "idle" /\ done'.what = "none"
      BY <1>2, <2>5, <2>6
    <3>4. QED
      BY <3>1, <3>2, <3>3 DEF Course
  <2>9. Results'
    BY <2>6 DEF Results, RemoveReleasesTraffic, FastPathComesBack, AppliedCaptures, BypassComesFirst
  <2>10. QED
    BY <1>4, <2>7, <2>8, <2>9 DEF FirewallInv
<1>7. CASE u = <<>>
  <2>1. op' = Idle
    BY <1>7 DEF Advance
  <2>2. PICK w : w = IF op.name \in {"remove", "rollback"} THEN "removed" ELSE "applied"
    OBVIOUS
  <2>3. done' = [done EXCEPT !.calm = calm, !.what = w]
    BY <1>7, <2>2 DEF Advance
  <2>4. /\ done' \in DoneType /\ done'.what = w /\ done'.calm = calm /\ done'.path = done.path /\ done'.ports = done.ports /\ done'.passes = done.passes
    BY <1>1, <2>2, <2>3 DEF DoneType
  <2>5. Types'
    BY <1>5, <2>1, <2>4, IdleIs DEF Types
  <2>6. Course'
    <3>1. op'.name = "idle" /\ op'.todo = <<>>
      BY <2>1, IdleIs
    <3>2. QED
      BY <3>1 DEF Course
  <2>7. CASE op.name \in {"remove", "rollback"}
    <3>1. w = "removed"
      BY <2>2, <2>7
    <3>2. /\ calm /\ used'.lost < maxIter => (\A j \in Jumps : k'.sys[j] = 0) /\ (\A c \in Captures : c \notin k'.exist)
          /\ calm => ~k'.ipRule /\ ~k'.sets /\ (~used'.forgot => k'.fast = k'.factory)
      <4>1. PICK kern, lost, forgot : kern = k' /\ lost = used'.lost /\ forgot = used'.forgot
        OBVIOUS
      <4>2. Removing(u, kern, calm, lost, forgot) /\ u = <<>>
        BY <1>7, <2>7, <4>1
      <4>3. Freed(kern, calm, lost, forgot)
        BY <4>2, RemovedAtEnd
      <4>4. QED
        BY <4>1, <4>3 DEF Freed
    <3>3. RemoveReleasesTraffic'
      BY <2>4, <3>2 DEF RemoveReleasesTraffic, Deletable, Jumps, Captures
    <3>4. FastPathComesBack'
      BY <2>4, <3>2 DEF FastPathComesBack
    <3>5. AppliedCaptures' /\ BypassComesFirst'
      BY <2>4, <3>1 DEF AppliedCaptures, BypassComesFirst
    <3>6. QED
      BY <1>4, <2>5, <2>6, <3>3, <3>4, <3>5 DEF FirewallInv, Results
  <2>8. CASE op.name \in {"apply", "reconcile"}
    <3>1. w = "applied"
      BY <2>2, <2>8
    <3>2. done.path = op.path /\ done.ports = op.ports
      BY <2>8 DEF FirewallInv, Course
    <3>3. PICK p, ports, passes, c : p = op.path /\ ports = op.ports /\ passes = done.passes /\ c = CaptureChain[p]
      OBVIOUS
    <3>4. PICK C : C = CaptureChains(p, ports)
      OBVIOUS
    <3>5. /\ k'.ipRule
          /\ calm => /\ \A x \in C : Reached(x, k', used'.lost)
                     /\ \A x \in passes : InBody(k'.body[c], x)
      <4>1. Applying(u, p, ports, passes, k', calm, used'.lost)
        BY <2>8, <3>3
      <4>2. PICK kern, lost : kern = k' /\ lost = used'.lost
        OBVIOUS
      <4>3. Applying(u, p, ports, passes, kern, calm, lost) /\ u = <<>> /\ lost \in Nat
        BY <1>7, <4>1, <4>2 DEF UsedType
      <4>4. Captured(p, ports, passes, kern, calm, lost)
        BY <4>3, AppliedAtEnd
      <4>5. QED
        BY <3>3, <3>4, <4>2, <4>4 DEF Captured
    <3>6. done'.path = p /\ done'.ports = ports /\ done'.passes = passes /\ c \in Chain
      <4>1. p \in Path /\ ports \in BOOLEAN
        BY <1>2, <3>3
      <4>2. c \in Chain
        BY <3>3, <4>1, PathIs
      <4>3. QED
        BY <2>4, <3>2, <3>3, <4>2
    <3>7. AppliedCaptures'
      <4>1. ASSUME calm, Deletable', NEW x \in C
            PROVE  /\ k'.sys[JumpTo[x]] = 1 /\ x \in k'.exist
                   /\ \E i \in DOMAIN k'.body[x] : k'.body[x][i] = "capture"
        BY <3>5, <4>1 DEF Deletable, Reached, InBody
      <4>2. CaptureChains(done'.path, done'.ports) = C
        BY <3>4, <3>6
      <4>3. QED
        BY <2>4, <3>5, <4>1, <4>2 DEF AppliedCaptures
    <3>10. BypassComesFirst'
      <4>1. PICK b : b = k'.body[c]
        OBVIOUS
      <4>2. \A i, j \in DOMAIN b : b[i] \in Bypass /\ b[j] = "capture" => i < j
        BY <3>6, <4>1 DEF Fronts, Fronted
      <4>3. calm => \A x \in passes : \E i \in DOMAIN b : b[i] = x
        BY <3>5, <4>1 DEF InBody
      <4>4. CaptureChain[done'.path] = c
        BY <3>3, <3>6
      <4>5. QED
        BY <2>4, <3>6, <4>1, <4>2, <4>3, <4>4 DEF BypassComesFirst
    <3>8. RemoveReleasesTraffic' /\ FastPathComesBack'
      BY <2>4, <3>1 DEF RemoveReleasesTraffic, FastPathComesBack
    <3>9. QED
      BY <1>4, <2>5, <2>6, <3>7, <3>8, <3>10 DEF FirewallInv, Results
  <2>9. QED
    BY <1>2, <2>7, <2>8
<1>8. QED
  BY <1>6, <1>7

\* While nothing is claimed, every result holds.
LEMMA NothingClaimed ==
  ASSUME done'.what = "none"
  PROVE  Results'
BY DEF Results, RemoveReleasesTraffic, FastPathComesBack, AppliedCaptures, BypassComesFirst

\* What an operation and an event spend.
LEMMA Spent ==
  ASSUME Types
  PROVE  /\ SpendOp => used' \in UsedType /\ used'.lost = used.lost /\ used'.forgot = used.forgot
         /\ SpendEvent => used' \in UsedType /\ used'.lost = used.lost /\ used'.forgot = used.forgot
BY DEF Types, UsedType, SpendOp, SpendEvent

\* A call.
LEMMA StepCall ==
  ASSUME FirewallInv, Call
  PROVE  FirewallInv'
<1>1. PICK t : t = op.todo
  OBVIOUS
<1>2. PICK s, u : s = Head(t) /\ u = Tail(t)
  OBVIOUS
<1>3. t # <<>> /\ k' = Effect(s) /\ Advance(done.calm) /\ cfg' = cfg /\ used' = used
  BY <1>1, <1>2 DEF Call
<1>4. op \in OpType /\ op.name # "idle" /\ done.calm \in BOOLEAN /\ used \in UsedType
  BY <1>1, <1>3 DEF FirewallInv, Types, DoneType, Course
<1>5. PICK calm : calm = done.calm
  OBVIOUS
<1>6. calm \in BOOLEAN /\ Advance(calm)
  BY <1>3, <1>4, <1>5
<1>7. CASE op.name \in {"apply", "reconcile"}
  <2>1. /\ k' \in KType /\ FastPath' /\ Fronts' /\ \A r \in Jumps : k'.sys[r] <= 1 + used.lost
        /\ Applying(u, op.path, op.ports, done.passes, k', done.calm, used.lost)
    BY <1>1, <1>2, <1>3, <1>7, StepApplying
  <2>2. (\A r \in Jumps : k'.sys[r] <= 1 + used'.lost) /\ Applying(u, op.path, op.ports, done.passes, k', calm, used'.lost)
    BY <1>3, <1>5, <2>1
  <2>3. op.name \notin {"remove", "rollback"}
    BY <1>7
  <2>4. QED
    BY <1>1, <1>2, <1>3, <1>4, <1>6, <2>1, <2>2, <2>3, Advances
<1>8. CASE op.name \in {"remove", "rollback"}
  <2>1. /\ k' \in KType /\ FastPath' /\ Fronts' /\ \A r \in Jumps : k'.sys[r] <= 1 + used.lost
        /\ Removing(u, k', done.calm, used.lost, used.forgot)
    BY <1>1, <1>2, <1>3, <1>8, StepRemoving
  <2>2. (\A r \in Jumps : k'.sys[r] <= 1 + used'.lost) /\ Removing(u, k', calm, used'.lost, used'.forgot)
    BY <1>3, <1>5, <2>1
  <2>3. op.name \notin {"apply", "reconcile"}
    BY <1>8
  <2>4. QED
    BY <1>1, <1>2, <1>3, <1>4, <1>6, <2>1, <2>2, <2>3, Advances
<1>9. QED
  BY <1>4, <1>7, <1>8 DEF OpType

\* What a call whose failure is only logged may have changed.
LEMMA LeavesIs ==
  ASSUME Types, FastPath, NEW s, k' \in Leaves(s), used'.forgot = (used.forgot \/ Forgets)
  PROVE  /\ k' \in KType /\ k'.sys = k.sys /\ k'.exist = k.exist /\ k'.body = k.body
         /\ k'.ipRule = k.ipRule /\ k'.sets = k.sets /\ FastPath'
<1>1. k \in KType /\ k.fast \in {0, 1}
  BY DEF Types, KType
<1>2. PICK old \in {0, 1} : k.saved \subseteq {old}
  BY DEF FastPath
<1>3. ASSUME ~used.forgot PROVE k.saved \subseteq {k.factory} /\ (k.saved = {} => k.fast = k.factory)
  BY <1>3 DEF FastPath
<1>4. PICK v : v = IF k.saved = {} THEN {k.fast} ELSE k.saved
  OBVIOUS
<1>5. PICK n : n = IF k.saved = {} THEN k.fast ELSE CHOOSE x \in k.saved : TRUE
  OBVIOUS
<1>6. v \in SUBSET {0, 1} /\ (\E x \in {0, 1} : v \subseteq {x}) /\ v # {}
  BY <1>1, <1>2, <1>4 DEF KType
<1>7. n \in {0, 1} /\ (k.saved # {} => n \in k.saved) /\ (k.saved = {} => n = k.fast)
  BY <1>1, <1>5 DEF KType
<1>8. \/ k' = k
      \/ k' = [[k EXCEPT !.saved = v, !.fast = 0] EXCEPT !.fast = k.fast]
      \/ k' = [k EXCEPT !.saved = {}]
      \/ k' = [[k EXCEPT !.fast = n, !.saved = {}] EXCEPT !.saved = k.saved]
  BY <1>4, <1>5 DEF Leaves, DisableFastPath, RestoreFastPath
<1>9. /\ k' \in KType /\ k'.sys = k.sys /\ k'.exist = k.exist /\ k'.body = k.body
      /\ k'.ipRule = k.ipRule /\ k'.sets = k.sets /\ k'.factory = k.factory
      /\ \/ k'.saved = k.saved /\ k'.fast = k.fast
         \/ k'.saved = v /\ k'.fast = k.fast
         \/ k'.saved = {} /\ k'.fast = k.fast
         \/ k'.saved = k.saved /\ k'.fast = n
  <2>1. CASE k' = k
    BY <1>1, <2>1
  <2>2. CASE k' = [[k EXCEPT !.saved = v, !.fast = 0] EXCEPT !.fast = k.fast]
    BY <1>1, <1>6, <2>2 DEF KType
  <2>3. CASE k' = [k EXCEPT !.saved = {}]
    BY <1>1, <2>3 DEF KType
  <2>4. CASE k' = [[k EXCEPT !.fast = n, !.saved = {}] EXCEPT !.saved = k.saved]
    BY <1>1, <1>7, <2>4 DEF KType
  <2>5. QED
    BY <1>8, <2>1, <2>2, <2>3, <2>4
<1>10. \E x \in {0, 1} : k'.saved \subseteq {x}
  BY <1>2, <1>6, <1>9
<1>11. ASSUME ~used'.forgot PROVE k'.saved \subseteq {k'.factory} /\ (k'.saved = {} => k'.fast = k'.factory)
  <2>1. ~used.forgot /\ ~(k'.saved = {} /\ k'.fast # k.factory)
    BY <1>11 DEF Forgets
  <2>2. k.saved \subseteq {k.factory} /\ (k.saved = {} => k.fast = k.factory)
    BY <1>3, <2>1
  <2>3. v \subseteq {k.factory}
    BY <1>4, <2>2
  <2>4. QED
    BY <1>9, <2>1, <2>2, <2>3
<1>12. FastPath'
  BY <1>10, <1>11 DEF FastPath
<1>13. QED
  BY <1>9, <1>12

\* A call that fails and is only logged.
LEMMA StepCallLost ==
  ASSUME FirewallInv, CallLost
  PROVE  FirewallInv'
<1>1. PICK t : t = op.todo
  OBVIOUS
<1>2. PICK s, u : s = Head(t) /\ u = Tail(t)
  OBVIOUS
<1>3. /\ t # <<>> /\ s.do \in Tolerated /\ Advance(FALSE) /\ k' \in Leaves(s) /\ cfg' = cfg
      /\ used' = [used EXCEPT !.events = @ + 1, !.lost = @ + 1, !.forgot = @ \/ Forgets]
  BY <1>1, <1>2 DEF CallLost
<1>4. op \in OpType /\ op.name # "idle" /\ k \in KType /\ used \in UsedType /\ Types /\ FastPath /\ Fronts
  BY <1>1, <1>3 DEF FirewallInv, Types, Course
<1>5. used' \in UsedType /\ used'.lost = used.lost + 1 /\ used'.forgot = (used.forgot \/ Forgets)
  <2>1. PICK e, l, f : e = used.events + 1 /\ l = used.lost + 1 /\ f = (used.forgot \/ Forgets)
    OBVIOUS
  <2>2. e \in Nat /\ l \in Nat
    BY <1>4, <2>1 DEF UsedType
  <2>3. f \in BOOLEAN
    BY <2>1
  <2>4. used' = [used EXCEPT !.events = e, !.lost = l, !.forgot = f]
    BY <1>3, <2>1
  <2>5. used' \in UsedType /\ used'.lost = l /\ used'.forgot = f
    BY <1>4, <2>2, <2>3, <2>4 DEF UsedType
  <2>6. QED
    BY <2>1, <2>5
<1>6. /\ k' \in KType /\ k'.sys = k.sys /\ k'.exist = k.exist /\ k'.body = k.body
      /\ k'.ipRule = k.ipRule /\ k'.sets = k.sets /\ FastPath'
  BY <1>3, <1>4, <1>5, LeavesIs
<1>7. Fronts'
  BY <1>4, <1>6 DEF Fronts
<1>8. \A r \in Jumps : k'.sys[r] <= 1 + used'.lost
  <2>1. \A r \in Jumps : k.sys[r] \in Nat /\ k.sys[r] <= 1 + used.lost
    BY <1>4 DEF FirewallInv, Bound, KType, Jumps, SysRule
  <2>2. QED
    BY <1>4, <1>5, <1>6, <2>1 DEF UsedType
<1>9. op.name \in {"apply", "reconcile"} => Applying(u, op.path, op.ports, done.passes, k', FALSE, used'.lost)
  BY <1>1, <1>2, <1>3, <1>5, <1>6, LostApplying
<1>10. op.name \in {"remove", "rollback"} => Removing(u, k', FALSE, used'.lost, used'.forgot)
  BY <1>1, <1>2, <1>3, <1>5, LostRemoving
<1>11. QED
  BY <1>1, <1>2, <1>3, <1>5, <1>6, <1>7, <1>8, <1>9, <1>10, Advances

\* A call fails: Apply rolls back, anything else gives up.
LEMMA StepFail ==
  ASSUME FirewallInv, Fail, used' \in UsedType, used'.lost = used.lost, used'.forgot = used.forgot
  PROVE  FirewallInv'
<1>1. k' = k /\ cfg' = cfg /\ done' = done /\ op.todo # <<>>
  BY DEF Fail
<1>2. op \in OpType /\ op.name # "idle" /\ done.what = "none"
  BY <1>1 DEF FirewallInv, Types, Course
<1>3. FastPath' /\ Fronts' /\ Bound'
  BY <1>1 DEF FirewallInv, FastPath, Fronts, Bound
<1>4. Results'
  BY <1>1, <1>2, NothingClaimed
<1>5. CASE op' = Idle
  <2>1. Types'
    BY <1>1, <1>5, IdleIs DEF FirewallInv, Types
  <2>2. Course'
    BY <1>5, IdleIs DEF Course
  <2>3. QED
    BY <1>3, <1>4, <2>1, <2>2 DEF FirewallInv
<1>6. CASE op' = [op EXCEPT !.name = "rollback", !.todo = RemoveSteps]
  <2>1. PICK t : t = RemoveSteps
    OBVIOUS
  <2>2. /\ t \in Seq(StepType) /\ Tidy(t)
        /\ \A j \in Jumps : Has(t, "drop", j)
        /\ \A c \in Captures : Has(t, "chain", c)
        /\ Has(t, "ipRuleOff", "none") /\ Has(t, "destroy", "none") /\ Has(t, "fastOn", "none")
    BY <2>1, RemoveList
  <2>3. op' \in OpType /\ op'.name = "rollback" /\ op'.todo = t
    BY <1>2, <1>6, <2>1, <2>2 DEF OpType
  <2>4. "full" \in Captures
    BY DEF Captures
  <2>5. Removing(t, k', done'.calm, used'.lost, used'.forgot)
    BY <2>2, <2>4 DEF Removing
  <2>6. Types'
    BY <1>1, <2>3 DEF FirewallInv, Types
  <2>7. Course'
    BY <1>1, <1>2, <2>3, <2>5 DEF Course
  <2>8. QED
    BY <1>3, <1>4, <2>6, <2>7 DEF FirewallInv
<1>7. QED
  BY <1>5, <1>6 DEF Fail

\* Whatever clears the way may stand before the list of a path.
LEMMA Starts ==
  ASSUME NEW e \in Seq(StepType), AllEarly(e), NEW p \in Path, NEW dpi \in BOOLEAN, NEW ports \in BOOLEAN,
         NEW passes \in SUBSET DuePasses(p), NEW v, v = e \o ApplySteps(p, dpi, passes), NEW kern, NEW calm, NEW lost
  PROVE  v \in Seq(StepType) /\ Applying(v, p, ports, passes, kern, calm, lost)
<1>1. PICK t : t = ApplySteps(p, dpi, passes)
  OBVIOUS
<1>2. PICK j : j = JumpTo[CaptureChain[p]]
  OBVIOUS
<1>3. Fills(t, p, j) /\ (\A x \in passes : Has(t, "bypass", x)) /\ (p = "full" => Has(t, "drop", "portsJump"))
  BY <1>1, <1>2, ApplyList
<1>4. /\ t \in Seq(StepType) /\ Staged(p, t) /\ Has(t, "ipRule", "none") /\ Has(t, "drop", j)
      /\ Has(t, "batch", Table(p))
  BY <1>3 DEF Fills
<1>5. v = e \o t
  BY <1>1
<1>6. v \in Seq(StepType) /\ \A w, x : Has(v, w, x) <=> Has(e, w, x) \/ Has(t, w, x)
  BY <1>4, <1>5, ConcatIs
<1>7. Staged(p, v)
  BY <1>4, <1>5, ConcatIs
<1>8. ASSUME NEW c \in CaptureChains(p, ports) PROVE Cleared(v, c, kern, calm, lost)
  <2>1. c = CaptureChain[p] \/ (p = "full" /\ c = "ports")
    BY <1>8 DEF CaptureChains
  <2>2. JumpTo["ports"] = "portsJump"
    BY DEF JumpTo
  <2>3. Has(v, "drop", JumpTo[c])
    BY <1>2, <1>3, <1>4, <1>6, <2>1, <2>2
  <2>4. QED
    BY <2>3 DEF Cleared
<1>9. QED
  BY <1>3, <1>4, <1>6, <1>7, <1>8 DEF Applying

\* What the settings are made of.
LEMMA SettingIs ==
  ASSUME NEW c \in Settings
  PROVE  c.dpi \in BOOLEAN /\ c.ports \in BOOLEAN /\ c.tproxy \in BOOLEAN
BY SettingsAssumption

\* The settings an operation begins with.
LEMMA BeginIs ==
  ASSUME Types, NEW name \in {"apply", "reconcile", "remove"}, NEW path \in Path, NEW todo \in Seq(StepType),
         Begin(name, path, todo)
  PROVE  op' \in OpType /\ op'.name = name /\ op'.todo = todo /\ op'.path = path /\ op'.ports = cfg.ports
<1>1. PICK d, g, y : d = cfg.dpi /\ g = cfg.ports /\ y = cfg.tproxy
  OBVIOUS
<1>2. d \in BOOLEAN /\ g \in BOOLEAN /\ y \in BOOLEAN
  BY <1>1, SettingIs DEF Types
<1>3. op' = [name |-> name, todo |-> todo, path |-> path, dpi |-> d, ports |-> g, tproxy |-> y, wan |-> FALSE]
  BY <1>1 DEF Begin
<1>4. QED
  BY <1>1, <1>2, <1>3 DEF OpType

\* What an operation is about, before its first call.
LEMMA About ==
  ASSUME NEW p \in Path, NEW ports \in BOOLEAN, NEW passes \in SUBSET Bypass, NEW what, what = "none",
         NEW d, d = [what |-> what, path |-> p, ports |-> ports, passes |-> passes, calm |-> TRUE]
  PROVE  d \in DoneType /\ d.what = "none" /\ d.path = p /\ d.ports = ports /\ d.passes = passes
BY DEF DoneType

\* The path of the current settings.
LEMMA PathOfIs ==
  ASSUME NEW loads \in BOOLEAN
  PROVE  PathOf(cfg, loads) \in Path
BY DEF PathOf, Path

\* What is due is among what can be due.
LEMMA PassesIs ==
  ASSUME NEW c, NEW p, NEW lan \in BOOLEAN
  PROVE  PassesOf(c, p, lan) \in SUBSET DuePasses(p) /\ DuePasses(p) \subseteq Bypass
<1>1. ASSUME NEW x \in PassesOf(c, p, lan) PROVE x \in DuePasses(p)
  <2>1. x \in Bypass /\ (x = "lan" => p # "full") /\ (x = "exclude" => p = "full")
    BY <1>1 DEF PassesOf
  <2>2. QED
    BY <2>1 DEF Bypass, DuePasses
<1>2. DuePasses(p) \subseteq Bypass
  BY DEF DuePasses, Bypass
<1>3. QED
  BY <1>1, <1>2

\* Nothing changes in the kernel and an operation with these calls begins.
LEMMA Begins ==
  ASSUME FirewallInv, k' = k, cfg' = cfg, SpendOp, NEW name \in {"apply", "reconcile"}, NEW p \in Path,
         NEW passes \in SUBSET DuePasses(p), NEW e \in Seq(StepType), AllEarly(e),
         NEW v, v = e \o ApplySteps(p, cfg.dpi, passes), Begin(name, p, v), Aim(p, passes)
  PROVE  FirewallInv'
<1>1. Types /\ FastPath /\ Fronts /\ Bound /\ cfg.dpi \in BOOLEAN /\ cfg.ports \in BOOLEAN
  BY SettingIs DEF FirewallInv, Types
<1>2. PICK dpi, ports : dpi = cfg.dpi /\ ports = cfg.ports
  OBVIOUS
<1>3. v \in Seq(StepType) /\ \A kern, calm, lost : Applying(v, p, ports, passes, kern, calm, lost)
  BY <1>1, <1>2, Starts
<1>4. op' \in OpType /\ op'.name = name /\ op'.todo = v /\ op'.path = p /\ op'.ports = ports
  BY <1>1, <1>2, <1>3, BeginIs
<1>5. done' \in DoneType /\ done'.what = "none" /\ done'.path = p /\ done'.ports = ports /\ done'.passes = passes
  <2>4. PICK what : what = "none"
    OBVIOUS
  <2>1. done' = [what |-> what, path |-> p, ports |-> ports, passes |-> passes, calm |-> TRUE]
    BY <1>2, <2>4 DEF Aim
  <2>2. ports \in BOOLEAN /\ passes \in SUBSET Bypass /\ what = "none"
    BY <1>1, <1>2, <2>4 DEF DuePasses, Bypass
  <2>3. QED
    BY <2>1, <2>2, About
<1>6. used' \in UsedType /\ used'.lost = used.lost /\ used'.forgot = used.forgot
  BY <1>1, Spent
<1>7. Types'
  BY <1>1, <1>4, <1>5, <1>6 DEF Types
<1>8. FastPath' /\ Fronts' /\ Bound'
  BY <1>1, <1>6 DEF FastPath, Fronts, Bound
<1>9. Applying(op'.todo, op'.path, op'.ports, done'.passes, k', done'.calm, used'.lost)
  BY <1>3, <1>4, <1>5
<1>10. op'.name \notin {"remove", "rollback"} /\ op'.name # "idle"
  BY <1>4
<1>11. Course'
  BY <1>4, <1>5, <1>9, <1>10 DEF Course
<1>12. QED
  BY <1>5, <1>7, <1>8, <1>11, NothingClaimed DEF FirewallInv

\* Apply begins.
LEMMA StepApply ==
  ASSUME FirewallInv, Apply
  PROVE  FirewallInv'
<1>1. PICK loads \in BOOLEAN, lan \in BOOLEAN :
        /\ SpendOp
        /\ Begin("apply", PathOf(cfg, loads), Step("preflight", "none") \o Step("fastOff", "none")
                   \o Step("wan", "none") \o ApplySteps(PathOf(cfg, loads), cfg.dpi, PassesOf(cfg, PathOf(cfg, loads), lan)))
        /\ Aim(PathOf(cfg, loads), PassesOf(cfg, PathOf(cfg, loads), lan))
        /\ k' = k /\ cfg' = cfg
  BY DEF Apply
<1>2. PICK p : p = PathOf(cfg, loads)
  OBVIOUS
<1>3. PICK passes : passes = PassesOf(cfg, p, lan)
  OBVIOUS
<1>4. p \in Path /\ passes \in SUBSET DuePasses(p)
  BY <1>2, <1>3, PathOfIs, PassesIs
<1>5. PICK a, b, c : a = Step("preflight", "none") /\ b = Step("fastOff", "none") /\ c = Step("wan", "none")
  OBVIOUS
<1>6. Typed("preflight", "none") /\ Typed("fastOff", "none") /\ Typed("wan", "none")
  BY Calls
<1>7. /\ a \in Seq(StepType) /\ AllEarly(a) /\ b \in Seq(StepType) /\ AllEarly(b)
      /\ c \in Seq(StepType) /\ AllEarly(c)
  BY <1>5, <1>6, EarlyOne
<1>8. PICK d : d = a \o b
  OBVIOUS
<1>9. d \in Seq(StepType) /\ AllEarly(d)
  BY <1>7, <1>8, ConcatIs
<1>10. PICK e : e = d \o c
  OBVIOUS
<1>11. e \in Seq(StepType) /\ AllEarly(e)
  BY <1>7, <1>9, <1>10, ConcatIs
<1>12. PICK v : v = e \o ApplySteps(p, cfg.dpi, passes)
  OBVIOUS
<1>13. PICK name : name = "apply"
  OBVIOUS
<1>14. Begin(name, p, v) /\ Aim(p, passes)
  BY <1>1, <1>2, <1>3, <1>5, <1>8, <1>10, <1>12, <1>13
<1>15. QED
  BY <1>1, <1>4, <1>11, <1>12, <1>13, <1>14, Begins

\* Reconcile begins.
LEMMA StepReconcile ==
  ASSUME FirewallInv, Reconcile
  PROVE  FirewallInv'
<1>1. PICK loads \in BOOLEAN, lan \in BOOLEAN :
        /\ SpendOp
        /\ Begin("reconcile", PathOf(cfg, loads),
                 Step("wan", "none") \o ApplySteps(PathOf(cfg, loads), cfg.dpi, PassesOf(cfg, PathOf(cfg, loads), lan)))
        /\ Aim(PathOf(cfg, loads), PassesOf(cfg, PathOf(cfg, loads), lan))
        /\ k' = k /\ cfg' = cfg
  BY DEF Reconcile
<1>2. PICK p : p = PathOf(cfg, loads)
  OBVIOUS
<1>3. PICK passes : passes = PassesOf(cfg, p, lan)
  OBVIOUS
<1>4. p \in Path /\ passes \in SUBSET DuePasses(p)
  BY <1>2, <1>3, PathOfIs, PassesIs
<1>5. PICK e : e = Step("wan", "none")
  OBVIOUS
<1>6. Typed("wan", "none")
  BY Calls
<1>7. e \in Seq(StepType) /\ AllEarly(e)
  BY <1>5, <1>6, EarlyOne
<1>8. PICK v : v = e \o ApplySteps(p, cfg.dpi, passes)
  OBVIOUS
<1>9. PICK name : name = "reconcile"
  OBVIOUS
<1>10. Begin(name, p, v) /\ Aim(p, passes)
  BY <1>1, <1>2, <1>3, <1>5, <1>8, <1>9
<1>11. QED
  BY <1>1, <1>4, <1>7, <1>8, <1>9, <1>10, Begins

\* Remove begins.
LEMMA StepRemove ==
  ASSUME FirewallInv, Remove
  PROVE  FirewallInv'
<1>1. Types /\ FastPath /\ Fronts /\ Bound
  BY DEF FirewallInv
<1>2. PICK t : t = RemoveSteps
  OBVIOUS
<1>3. /\ t \in Seq(StepType) /\ Tidy(t)
      /\ \A j \in Jumps : Has(t, "drop", j)
      /\ \A c \in Captures : Has(t, "chain", c)
      /\ Has(t, "ipRuleOff", "none") /\ Has(t, "destroy", "none") /\ Has(t, "fastOn", "none")
  BY <1>2, RemoveList
<1>4. SpendOp /\ Begin("remove", "tun", t) /\ done' = [done EXCEPT !.what = "none", !.calm = TRUE] /\ k' = k /\ cfg' = cfg
  BY <1>2 DEF Remove
<1>5. "tun" \in Path
  BY DEF Path
<1>6. op' \in OpType /\ op'.name = "remove" /\ op'.todo = t
  BY <1>1, <1>3, <1>4, <1>5, BeginIs
<1>7. done' \in DoneType /\ done'.what = "none" /\ done'.calm = TRUE
  BY <1>1, <1>4 DEF Types, DoneType
<1>8. used' \in UsedType /\ used'.lost = used.lost /\ used'.forgot = used.forgot
  BY <1>1, <1>4, Spent
<1>9. Types'
  BY <1>1, <1>4, <1>6, <1>7, <1>8 DEF Types
<1>10. FastPath' /\ Fronts' /\ Bound'
  BY <1>1, <1>4, <1>8 DEF FastPath, Fronts, Bound
<1>11. "full" \in Captures
  BY DEF Captures
<1>12. Removing(t, k', done'.calm, used'.lost, used'.forgot)
  BY <1>3, <1>11 DEF Removing
<1>13. Course'
  BY <1>6, <1>7, <1>12 DEF Course
<1>14. QED
  BY <1>7, <1>9, <1>10, <1>13, NothingClaimed DEF FirewallInv

\* NDM rebuilds a table.
LEMMA StepRebuild ==
  ASSUME FirewallInv, NEW tab \in {"mangle", "nat", "filter"}, Rebuild(tab)
  PROVE  FirewallInv'
<1>1. Types /\ FastPath /\ Fronts /\ Bound /\ k \in KType /\ done \in DoneType /\ op \in OpType
  BY DEF FirewallInv, Types
<1>2. PICK y : y = [r \in SysRule |-> IF InTable(tab, r) THEN 0 ELSE k.sys[r]]
  OBVIOUS
<1>3. PICK e : e = {c \in k.exist : ~InTable(tab, c)}
  OBVIOUS
<1>4. PICK b : b = [c \in Chain |-> IF InTable(tab, c) THEN <<>> ELSE k.body[c]]
  OBVIOUS
<1>5. k' = [k EXCEPT !.sys = y, !.exist = e, !.body = b]
  BY <1>2, <1>3, <1>4 DEF Rebuild
<1>6. k.sys \in [SysRule -> Nat] /\ k.body \in [Chain -> Seq(RuleKind)] /\ k.exist \in SUBSET Chain
  BY <1>1 DEF KType
<1>7. y \in [SysRule -> Nat] /\ \A r \in SysRule : y[r] \in {0, k.sys[r]}
  BY <1>2, <1>6
<1>8. b \in [Chain -> Seq(RuleKind)] /\ \A c \in Chain : b[c] \in {k.body[c], <<>>}
  BY <1>4, <1>6
<1>9. e \in SUBSET Chain
  BY <1>3, <1>6
<1>10. /\ k' \in KType /\ k'.sys = y /\ k'.body = b /\ k'.ipRule = k.ipRule
       /\ k'.fast = k.fast /\ k'.saved = k.saved /\ k'.factory = k.factory
  BY <1>1, <1>5, <1>7, <1>8, <1>9 DEF KType
<1>11. PICK w : w = IF done.what = "applied" THEN "none" ELSE done.what
  OBVIOUS
<1>12. done' = [done EXCEPT !.calm = FALSE, !.what = w]
  BY <1>11 DEF Rebuild
<1>13. /\ done' \in DoneType /\ done'.what = w /\ done'.calm = FALSE /\ done'.path = done.path /\ done'.ports = done.ports /\ done'.passes = done.passes
  BY <1>1, <1>11, <1>12 DEF DoneType
<1>14. op' = op /\ cfg' = cfg /\ SpendEvent
  BY DEF Rebuild
<1>15. used' \in UsedType /\ used'.lost = used.lost /\ used'.forgot = used.forgot
  BY <1>1, <1>14, Spent
<1>16. Types'
  BY <1>1, <1>10, <1>13, <1>14, <1>15 DEF Types
<1>17. FastPath'
  BY <1>1, <1>10, <1>15 DEF FastPath
<1>18. Fronts'
  <2>1. \A c \in Chain : k'.body[c] \in {k.body[c]} \cup Bodies
    BY <1>8, <1>10 DEF Bodies
  <2>2. QED
    BY <1>1, <2>1, FrontsKept
<1>19. used.lost \in Nat /\ \A r \in Jumps : k.sys[r] \in Nat /\ k'.sys[r] <= k.sys[r] /\ k'.sys[r] \in Nat /\ k.sys[r] <= 1 + used.lost
  <2>1. Jumps \subseteq SysRule
    BY DEF Jumps, SysRule
  <2>2. used.lost \in Nat
    BY <1>1 DEF Types, UsedType
  <2>3. QED
    BY <1>1, <1>6, <1>7, <1>10, <2>1, <2>2 DEF Bound
<1>20. Bound'
  BY <1>15, <1>19 DEF Bound
<1>21. ASSUME op.name \in {"apply", "reconcile"}
       PROVE  /\ done'.path = op'.path /\ done'.ports = op'.ports
              /\ Applying(op'.todo, op'.path, op'.ports, done'.passes, k', done'.calm, used'.lost)
  <2>1. PICK t, p, ports, passes, calm, lost :
          t = op.todo /\ p = op.path /\ ports = op.ports /\ passes = done.passes /\ calm = done.calm /\ lost = used.lost
    OBVIOUS
  <2>2. done.path = p /\ done.ports = ports /\ Applying(t, p, ports, passes, k, calm, lost)
    BY <1>21, <2>1 DEF FirewallInv, Course
  <2>3. PICK C : C = CaptureChains(p, ports)
    OBVIOUS
  <2>4. \A c \in C : JumpTo[c] \in Jumps
    <3>1. p \in Path /\ ports \in BOOLEAN
      BY <1>1, <2>1 DEF OpType
    <3>2. QED
      BY <2>3, <3>1, PathIs
  <2>5. ASSUME NEW c \in C, Cleared(t, c, k, calm, lost) PROVE Cleared(t, c, k', FALSE, lost)
    <3>1. PICK j : j = JumpTo[c]
      OBVIOUS
    <3>2. k'.sys[j] <= k.sys[j] /\ k'.sys[j] \in Nat /\ k.sys[j] \in Nat /\ lost \in Nat
      BY <1>19, <2>1, <2>4, <3>1
    <3>3. k.sys[j] <= lost => k'.sys[j] <= lost
      BY <3>2
    <3>4. QED
      BY <2>5, <3>1, <3>3 DEF Cleared
  <2>7. Applying(t, p, ports, passes, k', FALSE, lost)
    BY <1>10, <2>2, <2>3, <2>5 DEF Applying
  <2>8. QED
    BY <1>13, <1>14, <1>15, <2>1, <2>2, <2>7
<1>22. ASSUME op.name \in {"remove", "rollback"}
       PROVE  Removing(op'.todo, k', done'.calm, used'.lost, used'.forgot)
  <2>1. Tidy(op.todo)
    BY <1>22 DEF FirewallInv, Course, Removing
  <2>2. QED
    BY <1>13, <1>14, <2>1 DEF Removing
<1>23. Course'
  BY <1>11, <1>13, <1>14, <1>21, <1>22 DEF FirewallInv, Course
<1>24. done'.what # "applied" /\ ~done'.calm
  BY <1>11, <1>13
<1>25. Results'
  BY <1>24 DEF Results, RemoveReleasesTraffic, FastPathComesBack, AppliedCaptures, BypassComesFirst
<1>26. QED
  BY <1>16, <1>17, <1>18, <1>20, <1>23, <1>25 DEF FirewallInv

\* The process is killed.
LEMMA StepKilled ==
  ASSUME FirewallInv, Killed
  PROVE  FirewallInv'
<1>1. Types /\ FastPath /\ Fronts /\ Bound /\ done.what = "none"
  BY DEF FirewallInv, Course, Killed
<1>2. k' = k /\ cfg' = cfg /\ done' = done /\ op' = Idle /\ SpendEvent
  BY DEF Killed
<1>3. used' \in UsedType /\ used'.lost = used.lost /\ used'.forgot = used.forgot
  BY <1>1, <1>2, Spent
<1>4. Types'
  BY <1>1, <1>2, <1>3, IdleIs DEF Types
<1>5. FastPath' /\ Fronts' /\ Bound'
  BY <1>1, <1>2, <1>3 DEF FastPath, Fronts, Bound
<1>6. Course'
  BY <1>2, IdleIs DEF Course
<1>7. QED
  BY <1>1, <1>2, <1>4, <1>5, <1>6, NothingClaimed DEF FirewallInv

\* No rule, no chain.
LEMMA Nothing ==
  /\ NoRules \in [SysRule -> Nat] /\ \A r \in Jumps : NoRules[r] = 0
  /\ NoChains \in [Chain -> Seq(RuleKind)] /\ \A c \in Chain : NoChains[c] = <<>>
  /\ \A c \in Chain : Fronted(NoChains[c])
<1>1. /\ NoRules \in [SysRule -> Nat] /\ \A r \in Jumps : NoRules[r] = 0
  BY DEF NoRules, Jumps, SysRule
<1>2. NoChains \in [Chain -> Seq(RuleKind)] /\ \A c \in Chain : NoChains[c] = <<>>
  BY DEF NoChains
<1>3. ASSUME NEW c \in Chain PROVE Fronted(NoChains[c])
  <2>1. PICK b : b = NoChains[c]
    OBVIOUS
  <2>2. DOMAIN b = {}
    BY <1>2, <2>1
  <2>3. QED
    BY <2>1, <2>2 DEF Fronted
<1>4. QED
  BY <1>1, <1>2, <1>3

\* The router restarts.
LEMMA StepReboot ==
  ASSUME FirewallInv, Reboot
  PROVE  FirewallInv'
<1>1. Types /\ FastPath /\ Fronts /\ Bound /\ k \in KType /\ done \in DoneType
  BY DEF FirewallInv, Types
<1>2. PICK y, b : y = NoRules /\ b = NoChains
  OBVIOUS
<1>3. k' = [k EXCEPT !.sys = y, !.exist = {}, !.body = b, !.ipRule = FALSE, !.routes = {}, !.sets = FALSE, !.fast = k.factory]
  BY <1>2 DEF Reboot
<1>4. y \in [SysRule -> Nat] /\ b \in [Chain -> Seq(RuleKind)]
  BY <1>2, Nothing
<1>5. k' \in KType /\ k'.sys = y /\ k'.body = b /\ k'.fast = k.factory /\ k'.saved = k.saved /\ k'.factory = k.factory
  BY <1>1, <1>3, <1>4 DEF KType
<1>6. /\ op' = Idle /\ cfg' = cfg /\ done' = [done EXCEPT !.what = "none"]
      /\ used' = [used EXCEPT !.events = @ + 1, !.forgot = @ /\ k.saved # {}]
  BY DEF Reboot
<1>7. done' \in DoneType /\ done'.what = "none"
  BY <1>1, <1>6 DEF DoneType
<1>8. used' \in UsedType /\ used'.lost = used.lost /\ used'.forgot = (used.forgot /\ k.saved # {})
  <2>1. used \in UsedType
    BY <1>1 DEF Types
  <2>2. PICK e, f : e = used.events + 1 /\ f = (used.forgot /\ k.saved # {})
    OBVIOUS
  <2>3. e \in Nat
    BY <2>1, <2>2 DEF UsedType
  <2>4. f \in BOOLEAN
    BY <2>2
  <2>5. used' = [used EXCEPT !.events = e, !.forgot = f]
    BY <1>6, <2>2
  <2>6. QED
    BY <2>1, <2>2, <2>3, <2>4, <2>5 DEF UsedType
<1>9. Types'
  BY <1>1, <1>5, <1>6, <1>7, <1>8, IdleIs DEF Types
<1>10. FastPath'
  <2>1. (\E v \in {0, 1} : k.saved \subseteq {v}) /\ (~used.forgot => k.saved \subseteq {k.factory})
    BY <1>1 DEF FastPath
  <2>2. k.saved = {} => k.saved \subseteq {k.factory}
    OBVIOUS
  <2>3. QED
    BY <1>5, <1>8, <2>1, <2>2 DEF FastPath
<1>11. Fronts'
  BY <1>2, <1>5, Nothing DEF Fronts
<1>12. Bound'
  <2>1. \A r \in Jumps : k'.sys[r] = 0
    BY <1>2, <1>5, Nothing
  <2>2. used'.lost \in Nat
    BY <1>8 DEF UsedType
  <2>3. QED
    BY <2>1, <2>2 DEF Bound
<1>13. Course'
  BY <1>6, IdleIs DEF Course
<1>14. QED
  BY <1>7, <1>9, <1>10, <1>11, <1>12, <1>13, NothingClaimed DEF FirewallInv

\* The TUN device is attached.
LEMMA StepAttachTUN ==
  ASSUME FirewallInv, AttachTUN
  PROVE  FirewallInv'
<1>1. Types /\ FastPath /\ Fronts /\ Bound /\ Results /\ k \in KType
  BY DEF FirewallInv, Types
<1>2. PICK r : r = k.routes \cup {"tun"}
  OBVIOUS
<1>3. k' = [k EXCEPT !.routes = r] /\ op.name = "idle" /\ UNCHANGED <<cfg, op, done, used>>
  BY <1>2 DEF AttachTUN
<1>4. /\ k' \in KType /\ k'.sys = k.sys /\ k'.exist = k.exist /\ k'.body = k.body /\ k'.ipRule = k.ipRule
      /\ k'.sets = k.sets /\ k'.fast = k.fast /\ k'.saved = k.saved /\ k'.factory = k.factory
  BY <1>1, <1>2, <1>3 DEF KType
<1>5. Types'
  BY <1>1, <1>3, <1>4 DEF Types
<1>6. FastPath' /\ Fronts' /\ Bound'
  BY <1>1, <1>3, <1>4 DEF FastPath, Fronts, Bound
<1>7. Course'
  BY <1>3 DEF FirewallInv, Course
<1>8. RemoveReleasesTraffic' /\ FastPathComesBack'
  BY <1>1, <1>3, <1>4 DEF Results, RemoveReleasesTraffic, FastPathComesBack, Deletable
<1>9. AppliedCaptures'
  BY <1>1, <1>3, <1>4 DEF Results, AppliedCaptures, Deletable
<1>10. BypassComesFirst'
  BY <1>1, <1>3, <1>4 DEF Results, BypassComesFirst
<1>11. QED
  BY <1>5, <1>6, <1>7, <1>8, <1>9, <1>10 DEF FirewallInv, Results

\* The settings change, or nothing does.
LEMMA StepQuiet ==
  ASSUME FirewallInv, cfg' \in Settings, UNCHANGED <<k, op, done>>,
         used' \in UsedType, used'.lost = used.lost, used'.forgot = used.forgot
  PROVE  FirewallInv'
<1>1. Types /\ FastPath /\ Fronts /\ Bound /\ Course /\ Results
  BY DEF FirewallInv
<1>2. Types'
  BY <1>1 DEF Types
<1>3. FastPath' /\ Fronts' /\ Bound'
  BY <1>1 DEF FastPath, Fronts, Bound
<1>4. Course'
  BY <1>1 DEF Course
<1>5. Results'
  BY <1>1 DEF Results, RemoveReleasesTraffic, FastPathComesBack, AppliedCaptures, BypassComesFirst, Deletable
<1>6. QED
  BY <1>2, <1>3, <1>4, <1>5 DEF FirewallInv

-----------------------------------------------------------------------------
(* The invariant.                                                          *)

\* At first there is nothing, and nothing runs.
LEMMA InvInit == Init => FirewallInv
<1>1. SUFFICES ASSUME Init PROVE FirewallInv
  OBVIOUS
<1>2. PICK factory \in {0, 1} :
        k = [sys |-> NoRules, exist |-> {}, body |-> NoChains, ipRule |-> FALSE, routes |-> {},
             sets |-> FALSE, fast |-> factory, saved |-> {}, factory |-> factory]
  BY <1>1 DEF Init
<1>3. PICK y, b : y = NoRules /\ b = NoChains
  OBVIOUS
<1>4. y \in [SysRule -> Nat] /\ b \in [Chain -> Seq(RuleKind)]
  BY <1>3, Nothing
<1>5. /\ k \in KType /\ k.sys = y /\ k.body = b /\ k.exist = {} /\ ~k.ipRule /\ ~k.sets
      /\ k.fast = k.factory /\ k.saved = {}
  BY <1>2, <1>3, <1>4 DEF KType
<1>6. op \in OpType /\ op.name = "idle" /\ op.todo = <<>>
  BY <1>1, IdleIs DEF Init
<1>7. done \in DoneType /\ done.what = "removed"
  BY <1>1 DEF Init, DoneType, Path
<1>8. used \in UsedType /\ used.lost = 0 /\ ~used.forgot
  BY <1>1 DEF Init, UsedType
<1>9. Types
  BY <1>1, <1>5, <1>6, <1>7, <1>8 DEF Types, Init
<1>10. FastPath
  <2>1. \E v \in {0, 1} : k.saved \subseteq {v}
    BY <1>5
  <2>2. QED
    BY <1>5, <2>1 DEF FastPath
<1>11. Fronts
  BY <1>3, <1>5, Nothing DEF Fronts
<1>12. \A r \in Jumps : k.sys[r] = 0
  BY <1>3, <1>5, Nothing
<1>13. Bound
  BY <1>8, <1>12 DEF Bound
<1>14. Course
  BY <1>6 DEF Course
<1>15. Results
  BY <1>5, <1>7, <1>12 DEF Results, RemoveReleasesTraffic, FastPathComesBack, AppliedCaptures, BypassComesFirst, Jumps
<1>16. QED
  BY <1>9, <1>10, <1>11, <1>13, <1>14, <1>15 DEF FirewallInv

\* Every step keeps the invariant.
LEMMA InvNext == FirewallInv /\ [Next]_vars => FirewallInv'
<1>1. SUFFICES ASSUME FirewallInv, [Next]_vars PROVE FirewallInv'
  OBVIOUS
<1>2. Types /\ used \in UsedType /\ cfg \in Settings
  BY <1>1 DEF FirewallInv, Types
<1>3. CASE Apply
  BY <1>1, <1>3, StepApply
<1>4. CASE Reconcile
  BY <1>1, <1>4, StepReconcile
<1>5. CASE Remove
  BY <1>1, <1>5, StepRemove
<1>6. CASE Call
  BY <1>1, <1>6, StepCall
<1>7. CASE CallLost
  BY <1>1, <1>7, StepCallLost
<1>8. CASE CallRefused
  BY <1>1, <1>2, <1>8, StepFail DEF CallRefused
<1>9. CASE CallFails
  <2>1. used' \in UsedType /\ used'.lost = used.lost /\ used'.forgot = used.forgot
    BY <1>2, <1>9, Spent DEF CallFails
  <2>2. QED
    BY <1>1, <1>9, <2>1, StepFail DEF CallFails
<1>10. CASE \E t \in {"mangle", "nat", "filter"} : Rebuild(t)
  BY <1>1, <1>10, StepRebuild
<1>11. CASE Killed
  BY <1>1, <1>11, StepKilled
<1>12. CASE Reboot
  BY <1>1, <1>12, StepReboot
<1>13. CASE AttachTUN
  BY <1>1, <1>13, StepAttachTUN
<1>14. CASE Configure
  <2>1. used' \in UsedType /\ used'.lost = used.lost /\ used'.forgot = used.forgot
    BY <1>2, <1>14, Spent DEF Configure
  <2>2. QED
    BY <1>1, <1>14, <2>1, StepQuiet DEF Configure
<1>15. CASE UNCHANGED vars
  BY <1>1, <1>2, <1>15, StepQuiet DEF vars
<1>16. QED
  BY <1>1, <1>3, <1>4, <1>5, <1>6, <1>7, <1>8, <1>9, <1>10, <1>11, <1>12, <1>13, <1>14, <1>15 DEF Next

\* The invariant of the applier.
LEMMA Invariant == Spec => []FirewallInv
BY InvInit, InvNext, PTL DEF Spec

-----------------------------------------------------------------------------
(* Results.                                                                *)

\* The rules, chains, routes and sysctls, and the operation, stay of their kinds.
THEOREM TypeCorrect == Spec => []TypeOK
<1>1. FirewallInv => TypeOK
  <2>1. SUFFICES ASSUME FirewallInv PROVE TypeOK
    OBVIOUS
  <2>2. k \in KType /\ op \in OpType /\ done \in DoneType /\ cfg \in Settings
    BY <2>1 DEF FirewallInv, Types
  <2>3. PICK v \in {0, 1} : k.saved \subseteq {v}
    BY <2>1 DEF FirewallInv, FastPath
  <2>4. Cardinality(k.saved) <= 1
    <3>1. k.saved = {} \/ k.saved = {v}
      BY <2>3
    <3>2. Cardinality({}) = 0 /\ Cardinality({v}) = 1
      BY FS_EmptySet, FS_Singleton
    <3>3. QED
      BY <3>1, <3>2
  <2>5. QED
    BY <2>2, <2>4 DEF TypeOK, KType, OpType, DoneType
<1>2. QED
  BY <1>1, Invariant, PTL

\* After Remove, and after an Apply that rolled back, nothing diverts traffic any
\* more, whatever was installed before and however it got there, as long as fewer
\* deletions were lost than DeleteJumpAll deletes.
THEOREM RemoveReleases == Spec => []RemoveReleasesTraffic
<1>1. FirewallInv => RemoveReleasesTraffic
  BY DEF FirewallInv, Results
<1>2. QED
  BY <1>1, Invariant, PTL

\* After Remove the fast path is what it was before the first Apply, unless a restore
\* that failed removed the saved values and the router has not restarted since.
THEOREM FastPathReturns == Spec => []FastPathComesBack
<1>1. FirewallInv => FastPathComesBack
  BY DEF FirewallInv, Results
<1>2. QED
  BY <1>1, Invariant, PTL

\* A successful Apply or Reconcile captures the traffic it is about, with one jump to
\* each chain that captures.
THEOREM CapturesOnce == Spec => []AppliedCaptures
<1>1. FirewallInv => AppliedCaptures
  BY DEF FirewallInv, Results
<1>2. QED
  BY <1>1, Invariant, PTL

\* In the chain the bypass rules go to they stand before whatever captures, and those
\* that are due are there once Apply or Reconcile has succeeded.
THEOREM BypassFirst == Spec => []BypassComesFirst
<1>1. FirewallInv => BypassComesFirst
  BY DEF FirewallInv, Results
<1>2. QED
  BY <1>1, Invariant, PTL
=============================================================================
