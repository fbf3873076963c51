---------------------------- MODULE ServiceProofs ----------------------------
(***************************************************************************)
(* Theorems about Service: what PID files say, what is left after --stop   *)
(* and after a --start that failed, and in which order peers and cores     *)
(* come and go.                                                            *)
(***************************************************************************)
EXTENDS Service, TLAPS

Single == {"prepare", "check", "apply", "load", "remove"}
Kinds == Single \cup Launches \cup {"stop", "attach"}
StepType ==
  {r \in [do : Kinds, on : SUBSET (Svc \cup {"none"})] :
     /\ r.on # {}
     /\ r.do \in Single => r.on = {"none"}
     /\ r.do \notin Single => r.on \subseteq Svc
     /\ r.do = "peer" => r.on \subseteq Peer
     /\ r.do = "naive" => r.on = {"naive"}
     /\ r.do = "dpi" => r.on = {"dpi"}}
Rules == {"none", "on", "part"}
OpType == [name : {"idle", "start", "stop", "restart"}, todo : Seq(StepType), phase : {"start", "stop"},
           new : Svc \cup {"none"}, core : Core \cup {"none"}, outs : SUBSET Peer, cut : BOOLEAN, ok : BOOLEAN,
           fw : Rules]
DoneType == [what : {"none", "stopped", "failed", "restarted", "started"}, cut : BOOLEAN,
             core : Core \cup {"none"}, outs : SUBSET Peer, fw : Rules]

Types ==
  /\ live \subseteq Svc /\ lost \subseteq Svc /\ pid \in [Svc -> Svc \cup {"none", "dead"}]
  /\ fw \in Rules /\ conf \in Conf /\ op \in OpType /\ read \in Svc \cup {"none"}
  /\ done \in DoneType /\ died \subseteq Svc /\ mixed \subseteq Svc /\ bare \subseteq Svc

\* A process that is waited for is one the current step starts.
Waiting(o) == o.new # "none" => o.todo # <<>> /\ Head(o.todo).do \in Launches /\ o.new \in Head(o.todo).on

\* What PID files say; the file of a peer names another only if it was stale.
Files ==
  /\ PidFilesAreTrue
  /\ \A s \in Svc : Running(s) /\ pid[s] # s => s \in mixed

-----------------------------------------------------------------------------
(* Lists of steps.                                                         *)

\* The step `what` about x is still to come; only steps of these kinds are.
Has(t, what, x) == \E i \in DOMAIN t : t[i].do = what /\ x \in t[i].on
Only(t, kinds) == \A i \in DOMAIN t : t[i].do \in kinds

StartKinds == Launches \cup {"prepare", "check", "apply", "attach"}
Late == {"core", "attach", "dpi"}

\* Once the rules are in, only the core and what follows it is left.
Ordered(t) == \A i, j \in DOMAIN t : i < j /\ t[i].do \in Late \cup {"apply"} => t[j].do \in Late

\* What ends doStop, or a part of it, is the last step of the list.
Closed(t) == \A i \in DOMAIN t : t[i].do \in {"load", "remove"} => i = Len(t)

-----------------------------------------------------------------------------
(* Where a command is, given what is alive and the rules.                  *)

\* doStop: what has to go is on the list or gone, and cores go before peers.
Down(o, alive, rules) ==
  /\ Only(o.todo, {"stop", "load", "remove"}) /\ Closed(o.todo)
  /\ \A s \in (Core \cup {"naive", "dpi"} \cup o.outs) \cap alive : Has(o.todo, "stop", s)
  /\ o.cut \/ rules = "none" \/ Has(o.todo, "load", "none") \/ Has(o.todo, "remove", "none")
  /\ \A p \in Peer, c \in Core : Has(o.todo, "stop", p) => ~Has(o.todo, "stop", c)

\* doStart: no rules of its own before the step "apply", and every peer is on
\* the list or was started.
Up(o, rules, known) ==
  /\ Only(o.todo, StartKinds) /\ Ordered(o.todo)
  /\ \A s \in Svc : Has(o.todo, "core", s) => s = o.core
  /\ rules = o.fw \/ Only(o.todo, Late)
  /\ \A p \in o.outs : p \in known \/ Has(o.todo, "peer", p)

\* doStart takes back what it did.
Back(o, rules) ==
  /\ Only(o.todo, {"stop", "remove"})
  /\ o.cut \/ rules \in {"none", o.fw} \/ Has(o.todo, "remove", "none")

Course(o, alive, rules, known) ==
  /\ o.name = "idle" => o.todo = <<>> /\ o.new = "none"
  /\ o.name = "start" => o.phase = "start"
  /\ o.name = "stop" => o.phase = "stop"
  /\ o.phase = "stop" => o.ok
  /\ o.name # "idle" /\ o.phase = "stop" => Down(o, alive, rules)
  /\ o.name # "idle" /\ o.phase = "start" => o.core \in Core /\ IF o.ok THEN Up(o, rules, known) ELSE Back(o, rules)
  /\ o.name = "restart" /\ o.phase = "start" => alive \cap Core \subseteq {o.core}

Known == live \cup lost \cup died \cup mixed

\* A command that runs has no result yet.
Results == /\ op.name # "idle" => done.what = "none"
           /\ StopLeavesNothing /\ FailedStartIsUndone

ServiceInv == Types /\ Waiting(op) /\ Files /\ Course(op, live, fw, Known) /\ Results

-----------------------------------------------------------------------------
(* Lists of steps: what lists are made of.                                 *)

\* The names that are no services.
LEMMA NoService == "none" \notin Svc /\ "dead" \notin Svc /\ Core \subseteq Svc /\ Peer \subseteq Svc
                   /\ "naive" \in Svc /\ "dpi" \in Svc /\ Core \cap (Peer \cup {"naive", "dpi"}) = {}
                   /\ Peer \cap {"naive", "dpi"} = {} /\ Core # {}
BY NameAssumption DEF Svc

\* The elements of a list.
LEMMA Elements ==
  ASSUME NEW t \in Seq(StepType)
  PROVE  /\ Len(t) \in Nat /\ DOMAIN t = 1..Len(t) /\ \A i \in DOMAIN t : t[i] \in StepType
         /\ t # <<>> => Len(t) > 0 /\ 1 \in DOMAIN t /\ Head(t) = t[1] /\ Head(t) \in StepType
OBVIOUS

\* A step about some services, if there are any.
LEMMA EachIs ==
  ASSUME NEW what, NEW on, on = {} \/ Step(what, on) \in StepType
  PROVE  /\ Each(what, on) \in Seq(StepType)
         /\ \A w, x : Has(Each(what, on), w, x) <=> w = what /\ x \in on
         /\ \A kinds : what \in kinds => Only(Each(what, on), kinds)
         /\ Ordered(Each(what, on)) /\ Closed(Each(what, on))
<1>1. CASE on = {}
  <2>1. PICK v : v = Each(what, on)
    OBVIOUS
  <2>2. v \in Seq(StepType) /\ DOMAIN v = {}
    BY <1>1, <2>1 DEF Each
  <2>3. QED
    BY <1>1, <2>1, <2>2 DEF Has, Only, Ordered, Closed
<1>2. CASE on # {}
  <2>1. Each(what, on) = <<Step(what, on)>> /\ Step(what, on).do = what /\ Step(what, on).on = on
    BY <1>2 DEF Each, Step
  <2>2. PICK v : v = Each(what, on)
    OBVIOUS
  <2>3. v \in Seq(StepType) /\ Len(v) = 1 /\ DOMAIN v = {1} /\ v[1].do = what /\ v[1].on = on
    BY <1>2, <2>1, <2>2
  <2>4. \A w, x : Has(v, w, x) <=> w = what /\ x \in on
    BY <2>3 DEF Has
  <2>5. \A kinds : what \in kinds => Only(v, kinds)
    BY <2>3 DEF Only
  <2>6. Ordered(v) /\ Closed(v)
    BY <2>3 DEF Ordered, Closed
  <2>7. QED
    BY <2>2, <2>3, <2>4, <2>5, <2>6
<1>3. QED
  BY <1>1, <1>2

\* Lists behind each other.
LEMMA ConcatIs ==
  ASSUME NEW t \in Seq(StepType), NEW u \in Seq(StepType)
  PROVE  /\ t \o u \in Seq(StepType)
         /\ \A w, x : Has(t \o u, w, x) <=> Has(t, w, x) \/ Has(u, w, x)
         /\ \A kinds : Only(t, kinds) /\ Only(u, kinds) => Only(t \o u, kinds)
         /\ Only(t, Kinds \ (Late \cup {"apply"})) /\ Ordered(u) => Ordered(t \o u)
         /\ Ordered(t) /\ Only(u, Late) => Ordered(t \o u)
         /\ Only(t, Kinds \ {"load", "remove"}) /\ Closed(u) => Closed(t \o u)
<1>1. /\ t \o u \in Seq(StepType) /\ Len(t \o u) = Len(t) + Len(u) /\ Len(t) \in Nat /\ Len(u) \in Nat
      /\ DOMAIN t = 1..Len(t) /\ DOMAIN u = 1..Len(u) /\ DOMAIN (t \o u) = 1..(Len(t) + Len(u))
      /\ \A i \in 1..Len(t) : (t \o u)[i] = t[i]
      /\ \A i \in (Len(t) + 1)..(Len(t) + Len(u)) : (t \o u)[i] = u[i - Len(t)]
  OBVIOUS
<1>2. PICK v : v = t \o u
  OBVIOUS
<1>3. /\ v \in Seq(StepType) /\ Len(v) = Len(t) + Len(u) /\ DOMAIN v = 1..(Len(t) + Len(u))
      /\ \A i \in 1..Len(t) : v[i] = t[i]
      /\ \A i \in DOMAIN v : i <= Len(t) => i \in DOMAIN t /\ v[i] = t[i]
      /\ \A i \in DOMAIN v : i > Len(t) => i - Len(t) \in DOMAIN u /\ v[i] = u[i - Len(t)]
      /\ \A i \in DOMAIN u : i + Len(t) \in DOMAIN v /\ v[i + Len(t)] = u[i]
      /\ \A i \in DOMAIN t : i \in DOMAIN v /\ v[i] = t[i]
      /\ \A i \in DOMAIN v : i \in Nat
  <2>1. \A i \in 1..Len(u) : i + Len(t) \in (Len(t) + 1)..(Len(t) + Len(u)) /\ (i + Len(t)) - Len(t) = i
    BY <1>1
  <2>2. QED
    BY <1>1, <1>2, <2>1
<1>4. ASSUME NEW w, NEW x PROVE Has(v, w, x) <=> Has(t, w, x) \/ Has(u, w, x)
  <2>1. Has(v, w, x) => Has(t, w, x) \/ Has(u, w, x)
    BY <1>1, <1>3 DEF Has
  <2>2. Has(t, w, x) => Has(v, w, x)
    BY <1>3 DEF Has
  <2>3. Has(u, w, x) => Has(v, w, x)
    BY <1>3 DEF Has
  <2>4. QED
    BY <2>1, <2>2, <2>3
<1>5. ASSUME NEW kinds, Only(t, kinds), Only(u, kinds) PROVE Only(v, kinds)
  BY <1>1, <1>3, <1>5 DEF Only
<1>6. ASSUME Only(t, Kinds \ (Late \cup {"apply"})), Ordered(u) PROVE Ordered(v)
  <2>1. ASSUME NEW i \in DOMAIN v, NEW j \in DOMAIN v, i < j, v[i].do \in Late \cup {"apply"} PROVE v[j].do \in Late
    <3>1. i > Len(t)
      BY <1>1, <1>3, <1>6, <2>1 DEF Only
    <3>2. j > Len(t) /\ i - Len(t) < j - Len(t)
      BY <1>1, <1>3, <2>1, <3>1
    <3>3. QED
      BY <1>3, <1>6, <2>1, <3>1, <3>2 DEF Ordered
  <2>2. QED
    BY <2>1 DEF Ordered
<1>7. ASSUME Ordered(t), Only(u, Late) PROVE Ordered(v)
  <2>1. ASSUME NEW i \in DOMAIN v, NEW j \in DOMAIN v, i < j, v[i].do \in Late \cup {"apply"} PROVE v[j].do \in Late
    <3>1. CASE j > Len(t)
      BY <1>3, <1>7, <3>1 DEF Only
    <3>2. CASE ~(j > Len(t))
      <4>1. i \in DOMAIN t /\ j \in DOMAIN t /\ v[i] = t[i] /\ v[j] = t[j]
        BY <1>1, <1>3, <2>1, <3>2
      <4>2. QED
        BY <1>7, <2>1, <4>1 DEF Ordered
    <3>3. QED
      BY <3>1, <3>2
  <2>2. QED
    BY <2>1 DEF Ordered
<1>8. ASSUME Only(t, Kinds \ {"load", "remove"}), Closed(u) PROVE Closed(v)
  <2>1. ASSUME NEW i \in DOMAIN v, v[i].do \in {"load", "remove"} PROVE i = Len(v)
    <3>1. i > Len(t)
      BY <1>1, <1>3, <1>8, <2>1 DEF Only
    <3>2. i - Len(t) = Len(u)
      BY <1>3, <1>8, <2>1, <3>1 DEF Closed
    <3>3. QED
      BY <1>1, <1>3, <3>2
  <2>2. QED
    BY <2>1 DEF Closed
<1>9. QED
  BY <1>2, <1>3, <1>4, <1>5, <1>6, <1>7, <1>8

\* The list after the service s of its first step.
LEMMA PastIs ==
  ASSUME NEW t \in Seq(StepType), t = op.todo, t # <<>>, NEW s, NEW u, u = Past(s)
  PROVE  /\ u \in Seq(StepType)
         /\ \A w, x : Has(u, w, x) => Has(t, w, x)
         /\ \A w, x : Has(t, w, x) /\ ~(w = Head(t).do /\ x = s) => Has(u, w, x)
         /\ \A kinds : Only(t, kinds) => Only(u, kinds)
         /\ Ordered(t) => Ordered(u)
         /\ Closed(t) => Closed(u)
         /\ Ordered(t) /\ Head(t).do \in Late => Only(u, Late)
         /\ Ordered(t) /\ Head(t).do = "apply" /\ s = "none" => Only(u, Late)
<1> DEFINE rest == Head(t).on \ {s}
<1>1. /\ Len(t) \in Nat /\ DOMAIN t = 1..Len(t) /\ \A i \in DOMAIN t : t[i] \in StepType
      /\ Len(t) > 0 /\ 1 \in DOMAIN t /\ Head(t) = t[1] /\ Head(t) \in StepType
  BY Elements
<1>2. u = IF rest = {} THEN Tail(t) ELSE <<Step(t[1].do, rest)>> \o Tail(t)
  BY <1>1 DEF Past
<1>3. CASE rest = {}
  <2>1. /\ u \in Seq(StepType) /\ Len(u) = Len(t) - 1 /\ DOMAIN u = 1..Len(u)
        /\ \A i \in 1..Len(u) : u[i] = t[i + 1]
    BY <1>1, <1>2, <1>3
  <2>2. /\ \A i \in DOMAIN u : i + 1 \in DOMAIN t /\ u[i] = t[i + 1]
        /\ \A i \in DOMAIN t : i # 1 => i - 1 \in DOMAIN u /\ t[i] = u[i - 1]
        /\ \A i \in DOMAIN u : i \in Nat
    <3>1. \A i \in DOMAIN t : i # 1 => i - 1 \in 1..Len(u) /\ (i - 1) + 1 = i
      BY <1>1, <2>1
    <3>2. \A i \in 1..Len(u) : i + 1 \in 1..Len(t)
      BY <1>1, <2>1
    <3>3. QED
      BY <1>1, <2>1, <3>1, <3>2
  <2>3. ASSUME NEW w, NEW x, Has(u, w, x) PROVE Has(t, w, x)
    BY <2>2, <2>3 DEF Has
  <2>4. ASSUME NEW w, NEW x, Has(t, w, x), ~(w = Head(t).do /\ x = s) PROVE Has(u, w, x)
    <3>1. PICK i \in DOMAIN t : t[i].do = w /\ x \in t[i].on
      BY <2>4 DEF Has
    <3>2. i # 1
      BY <1>1, <1>3, <2>4, <3>1
    <3>3. QED
      BY <2>2, <3>1, <3>2 DEF Has
  <2>5. \A kinds : Only(t, kinds) => Only(u, kinds)
    BY <2>2 DEF Only
  <2>6. Ordered(t) => Ordered(u)
    BY <2>2 DEF Ordered
  <2>7. ASSUME Closed(t) PROVE Closed(u)
    <3>1. ASSUME NEW i \in DOMAIN u, u[i].do \in {"load", "remove"} PROVE i = Len(u)
      <4>1. i + 1 = Len(t)
        BY <2>2, <2>7, <3>1 DEF Closed
      <4>2. QED
        BY <1>1, <2>1, <2>2, <4>1
    <3>2. QED
      BY <3>1 DEF Closed
  <2>8. Ordered(t) /\ Head(t).do \in Late \cup {"apply"} => Only(u, Late)
    <3>1. \A i \in DOMAIN u : 1 < i + 1
      BY <1>1, <2>1
    <3>2. QED
      BY <1>1, <2>2, <3>1 DEF Ordered, Only
  <2>9. QED
    BY <2>1, <2>3, <2>4, <2>5, <2>6, <2>7, <2>8
<1>4. CASE rest # {}
  <2>1. Step(t[1].do, rest) \in StepType /\ Step(t[1].do, rest).do = t[1].do /\ Step(t[1].do, rest).on = rest
    BY <1>1, <1>4 DEF Step, StepType
  <2>2. PICK f \in StepType : f = Step(t[1].do, rest) /\ f.do = t[1].do /\ f.on = rest
    BY <2>1
  <2>3. /\ u \in Seq(StepType) /\ Len(u) = Len(t) /\ DOMAIN u = 1..Len(t) /\ u[1] = f
        /\ \A i \in 2..Len(t) : u[i] = t[i]
    BY <1>1, <1>2, <1>4, <2>2
  <2>4. \A i \in DOMAIN t : i \in DOMAIN u /\ u[i].do = t[i].do /\ (i # 1 => u[i] = t[i])
    BY <1>1, <2>2, <2>3
  <2>5. DOMAIN u = DOMAIN t /\ Len(u) = Len(t)
    BY <1>1, <2>3
  <2>6. ASSUME NEW w, NEW x, Has(u, w, x) PROVE Has(t, w, x)
    BY <1>1, <2>2, <2>3, <2>4, <2>5, <2>6 DEF Has
  <2>7. ASSUME NEW w, NEW x, Has(t, w, x), ~(w = Head(t).do /\ x = s) PROVE Has(u, w, x)
    <3>1. PICK i \in DOMAIN t : t[i].do = w /\ x \in t[i].on
      BY <2>7 DEF Has
    <3>2. x \in u[i].on
      BY <1>1, <2>2, <2>3, <2>4, <2>7, <3>1
    <3>3. QED
      BY <2>4, <3>1, <3>2 DEF Has
  <2>8. \A kinds : Only(t, kinds) => Only(u, kinds)
    BY <2>4, <2>5 DEF Only
  <2>9. Ordered(t) => Ordered(u)
    BY <2>4, <2>5 DEF Ordered
  <2>10. Closed(t) => Closed(u)
    BY <2>4, <2>5 DEF Closed
  <2>11. Ordered(t) /\ Head(t).do \in Late => Only(u, Late)
    <3>1. \A i \in DOMAIN t : i = 1 \/ 1 < i
      BY <1>1
    <3>2. QED
      BY <1>1, <2>4, <2>5, <3>1 DEF Ordered, Only
  <2>12. ~(Head(t).do = "apply" /\ s = "none")
    BY <1>1, <1>4 DEF StepType, Single
  <2>13. QED
    BY <2>3, <2>6, <2>7, <2>8, <2>9, <2>10, <2>11, <2>12
<1>5. QED
  BY <1>3, <1>4

\* What is a step.
LEMMA Steps ==
  /\ \A what \in Single : Step(what, {"none"}) \in StepType
  /\ \A on \in SUBSET Svc : on # {} => Step("stop", on) \in StepType /\ Step("attach", on) \in StepType
                                       /\ Step("core", on) \in StepType
  /\ \A on \in SUBSET Peer : on # {} => Step("peer", on) \in StepType
  /\ Step("naive", {"naive"}) \in StepType /\ Step("dpi", {"dpi"}) \in StepType
BY NoService DEF Step, StepType, Kinds, Single, Launches

\* A list of one step.
LEMMA OneIs ==
  ASSUME NEW what, NEW on, Step(what, on) \in StepType
  PROVE  /\ <<Step(what, on)>> \in Seq(StepType)
         /\ \A w, x : Has(<<Step(what, on)>>, w, x) <=> w = what /\ x \in on
         /\ \A kinds : what \in kinds => Only(<<Step(what, on)>>, kinds)
         /\ Ordered(<<Step(what, on)>>) /\ Closed(<<Step(what, on)>>)
<1>1. on # {}
  BY DEF Step, StepType
<1>2. Each(what, on) = <<Step(what, on)>>
  BY <1>1 DEF Each
<1>3. QED
  BY <1>2, EachIs

\* The list of doStart.
LEMMA StartList ==
  ASSUME NEW c \in Conf, NEW t, t = StartSteps(c)
  PROVE  /\ t \in Seq(StepType) /\ Only(t, StartKinds) /\ Ordered(t)
         /\ \A s \in Svc : Has(t, "core", s) => s = c.core
         /\ \A p \in c.outs : Has(t, "peer", p)
<1> DEFINE configs == Configs(c)
           peers == Each("peer", c.outs)
           naive == Each("naive", Extra(c, "naive"))
           fixed == <<Once("prepare"), Once("check"), Once("apply"), Step("core", {c.core})>>
           attach == Each("attach", {c.core} \cap {TunCore})
           dpi == Each("dpi", Extra(c, "dpi"))
           Early == Kinds \ (Late \cup {"apply"})
<1>1. c.core \in Core /\ c.outs \subseteq Peer /\ c.core \in Svc
  BY NoService DEF Conf
<1>2. configs \in Seq(StepType) /\ Only(configs, StartKinds) /\ Only(configs, Early) /\ (\A x : ~Has(configs, "core", x))
  <2>1. Step("prepare", {"none"}) \in StepType /\ "prepare" \in StartKinds /\ "prepare" \in Early
    BY Steps DEF Single, StartKinds, Kinds, Late
  <2>2. QED
    BY <2>1, EachIs DEF Configs
<1>3. /\ peers \in Seq(StepType) /\ Only(peers, StartKinds) /\ Only(peers, Early) /\ (\A x : ~Has(peers, "core", x))
      /\ \A p \in c.outs : Has(peers, "peer", p)
  <2>1. "peer" \in StartKinds /\ "peer" \in Early /\ (c.outs = {} \/ Step("peer", c.outs) \in StepType)
    BY <1>1, Steps DEF StartKinds, Kinds, Launches, Late
  <2>2. QED
    BY <2>1, EachIs
<1>4. naive \in Seq(StepType) /\ Only(naive, StartKinds) /\ Only(naive, Early) /\ (\A x : ~Has(naive, "core", x))
  <2>1. "naive" \in StartKinds /\ "naive" \in Early
    BY DEF StartKinds, Kinds, Launches, Late
  <2>2. PICK on : on = Extra(c, "naive")
    OBVIOUS
  <2>3. on = {} \/ Step("naive", on) \in StepType
    BY <2>2, Steps DEF Extra
  <2>4. QED
    BY <2>1, <2>2, <2>3, EachIs
<1>5. /\ fixed \in Seq(StepType) /\ Only(fixed, StartKinds) /\ Ordered(fixed)
      /\ \A x : Has(fixed, "core", x) => x = c.core
  <2>1. Once("prepare") \in StepType /\ Once("check") \in StepType /\ Once("apply") \in StepType
        /\ Step("core", {c.core}) \in StepType
    BY <1>1, Steps DEF Once, Single
  <2>2. /\ Len(fixed) = 4 /\ DOMAIN fixed = 1..4 /\ fixed[1].do = "prepare" /\ fixed[2].do = "check" /\ fixed[3].do = "apply"
        /\ fixed[4].do = "core" /\ fixed[4].on = {c.core}
    BY DEF Once, Step
  <2>3. fixed \in Seq(StepType)
    BY <2>1
  <2> HIDE DEF fixed
  <2>4. Only(fixed, StartKinds)
    BY <2>2 DEF Only, StartKinds, Launches
  <2>5. Ordered(fixed)
    BY <2>2 DEF Ordered, Late
  <2>6. QED
    BY <2>2, <2>3, <2>4, <2>5 DEF Has
<1>6. attach \in Seq(StepType) /\ Only(attach, StartKinds) /\ Only(attach, Late) /\ (\A x : ~Has(attach, "core", x))
  <2>1. "attach" \in StartKinds /\ "attach" \in Late
    BY DEF StartKinds, Late
  <2>2. {c.core} \cap {TunCore} \in SUBSET Svc
    BY <1>1
  <2>3. QED
    BY <2>1, <2>2, Steps, EachIs
<1>7. dpi \in Seq(StepType) /\ Only(dpi, StartKinds) /\ Only(dpi, Late) /\ (\A x : ~Has(dpi, "core", x))
  <2>1. "dpi" \in StartKinds /\ "dpi" \in Late
    BY DEF StartKinds, Launches, Late
  <2>2. PICK on : on = Extra(c, "dpi")
    OBVIOUS
  <2>3. on = {} \/ Step("dpi", on) \in StepType
    BY <2>2, Steps DEF Extra
  <2>4. QED
    BY <2>1, <2>2, <2>3, EachIs
<1>8. t = configs \o peers \o naive \o fixed \o attach \o dpi
  BY DEF StartSteps
<1> HIDE DEF configs, peers, naive, fixed, attach, dpi, Early
<1>9. PICK a : a = configs \o peers
  OBVIOUS
<1>10. /\ a \in Seq(StepType) /\ Only(a, StartKinds) /\ Only(a, Early) /\ (\A x : ~Has(a, "core", x))
       /\ \A p \in c.outs : Has(a, "peer", p)
  BY <1>2, <1>3, <1>9, ConcatIs
<1>11. PICK b : b = a \o naive
  OBVIOUS
<1>12. /\ b \in Seq(StepType) /\ Only(b, StartKinds) /\ Only(b, Early) /\ (\A x : ~Has(b, "core", x))
       /\ \A p \in c.outs : Has(b, "peer", p)
  BY <1>4, <1>10, <1>11, ConcatIs
<1>13. PICK d : d = b \o fixed
  OBVIOUS
<1>14. /\ d \in Seq(StepType) /\ Only(d, StartKinds) /\ Ordered(d) /\ (\A x : Has(d, "core", x) => x = c.core)
       /\ \A p \in c.outs : Has(d, "peer", p)
  BY <1>5, <1>12, <1>13, ConcatIs DEF Early
<1>15. PICK e : e = d \o attach
  OBVIOUS
<1>16. /\ e \in Seq(StepType) /\ Only(e, StartKinds) /\ Ordered(e) /\ (\A x : Has(e, "core", x) => x = c.core)
       /\ \A p \in c.outs : Has(e, "peer", p)
  BY <1>6, <1>14, <1>15, ConcatIs
<1>17. t = e \o dpi
  BY <1>8, <1>9, <1>11, <1>13, <1>15
<1>18. QED
  BY <1>7, <1>16, <1>17, ConcatIs

\* The list of doStop.
LEMMA StopList ==
  ASSUME NEW t, t = StopSteps
  PROVE  /\ t \in Seq(StepType) /\ Only(t, {"stop", "load", "remove"}) /\ Closed(t) /\ Has(t, "load", "none")
         /\ \A s \in Core \cup {"naive", "dpi"} : Has(t, "stop", s)
         /\ \A p \in Peer : ~Has(t, "stop", p)
<1>1. Step("stop", {"dpi"}) \in StepType /\ Step("stop", {"naive"}) \in StepType /\ Step("stop", Core) \in StepType
      /\ Once("load") \in StepType
  <2>1. {"dpi"} \in SUBSET Svc /\ {"naive"} \in SUBSET Svc /\ Core \in SUBSET Svc /\ Core # {} /\ "load" \in Single
    BY NoService DEF Single
  <2>2. QED
    BY <2>1, Steps DEF Once
<1>2. t \in Seq(StepType)
  BY <1>1 DEF StopSteps
<1>3. /\ Len(t) = 4 /\ DOMAIN t = 1..4 /\ t[1].do = "stop" /\ t[2].do = "stop" /\ t[3].do = "stop" /\ t[4].do = "load"
      /\ t[1].on = {"dpi"} /\ t[2].on = {"naive"} /\ t[3].on = Core /\ t[4].on = {"none"}
  BY DEF StopSteps, Once, Step
<1>4. QED
  BY <1>2, <1>3, NoService DEF Only, Closed, Has

\* The list of what a failed doStart takes back.
LEMMA UndoList ==
  ASSUME op \in OpType, op.core \in Core, NEW failed \in {"prepare", "peer", "check", "apply", "core", "attach"},
         NEW t, t = Undo(failed)
  PROVE  /\ t \in Seq(StepType) /\ Only(t, {"stop", "remove"})
         /\ failed \in {"apply", "core", "attach"} => Has(t, "remove", "none")
<1> DEFINE peers == Each("stop", op.outs)
<1>1. peers \in Seq(StepType) /\ Only(peers, {"stop", "remove"})
  <2>1. op.outs \in SUBSET Svc
    BY NoService DEF OpType
  <2>2. QED
    BY <2>1, Steps, EachIs
<1> DEFINE off == <<Once("remove")>>
<1>2. off \in Seq(StepType) /\ Only(off, {"stop", "remove"}) /\ Has(off, "remove", "none")
  <2>1. Step("remove", {"none"}) \in StepType
    BY Steps DEF Single
  <2>2. QED
    BY <2>1, OneIs DEF Once
<1> DEFINE both == <<Step("stop", {op.core}), Once("remove")>>
<1>3. both \in Seq(StepType) /\ Only(both, {"stop", "remove"}) /\ Has(both, "remove", "none")
  <2>1. Step("stop", {op.core}) \in StepType /\ Once("remove") \in StepType
    BY Steps, NoService DEF Once, Single
  <2>2. both \in Seq(StepType)
    BY <2>1
  <2>3. DOMAIN both = 1..2 /\ both[1].do = "stop" /\ both[2].do = "remove" /\ both[2].on = {"none"}
    BY DEF Once, Step
  <2> HIDE DEF both
  <2>4. QED
    BY <2>2, <2>3 DEF Only, Has
<1>4. CASE failed = "prepare"
  BY <1>4 DEF Undo, Only
<1>5. CASE failed \in {"peer", "check"}
  BY <1>1, <1>5 DEF Undo
<1>6. CASE failed \in {"apply", "core"}
  <2>1. t = off \o peers
    BY <1>6 DEF Undo
  <2> HIDE DEF off, peers
  <2>2. QED
    BY <1>1, <1>2, <2>1, ConcatIs
<1>7. CASE failed = "attach"
  <2>1. t = both \o peers
    BY <1>7 DEF Undo
  <2> HIDE DEF both, peers
  <2>2. QED
    BY <1>1, <1>3, <2>1, ConcatIs
<1>8. QED
  BY <1>4, <1>5, <1>6, <1>7

-----------------------------------------------------------------------------
(* What a step has to show.                                                *)

\* Nothing runs.
LEMMA IdleIs ==
  /\ Idle \in OpType /\ Waiting(Idle) /\ Idle.name = "idle"
  /\ \A alive, rules, known : Course(Idle, alive, rules, known)
<1>1. Idle \in OpType /\ Idle.name = "idle" /\ Idle.todo = <<>> /\ Idle.new = "none" /\ Idle.ok
  BY DEF Idle, OpType, Rules
<1>2. QED
  BY <1>1 DEF Waiting, Course

\* Fewer processes and more that is known of them never hurt a command.
LEMMA CourseHolds ==
  ASSUME NEW o, NEW alive, NEW fewer, NEW rules, NEW known, NEW more, fewer \subseteq alive, known \subseteq more,
         Course(o, alive, rules, known)
  PROVE  Course(o, fewer, rules, more)
BY DEF Course, Down, Up

\* Processes come to an end, readers read, and the user edits: no command takes a step.
LEMMA Around ==
  ASSUME ServiceInv, UNCHANGED <<op, done>>, fw' = fw, live' \subseteq live, Known \subseteq Known', Types', Files'
  PROVE  ServiceInv'
<1>1. Course(op, live', fw, Known')
  BY CourseHolds DEF ServiceInv
<1>2. Course(op, live, fw, Known)'
  BY <1>1 DEF Course, Down, Up, Back
<1>3. Waiting(op)'
  BY DEF ServiceInv, Waiting
<1>4. Results'
  BY DEF ServiceInv, Results, StopLeavesNothing, FailedStartIsUndone
<1>5. QED
  BY <1>2, <1>3, <1>4 DEF ServiceInv

\* The command that runs takes a step.
LEMMA Within ==
  ASSUME ServiceInv, op.name # "idle", done' = done, Types', Files', Waiting(op'),
         Course(op', live', fw', Known')
  PROVE  ServiceInv'
<1>1. Course(op, live, fw, Known)'
  BY DEF Course, Down, Up, Back
<1>2. Waiting(op)'
  BY DEF Waiting
<1>3. Results'
  BY DEF ServiceInv, Results, StopLeavesNothing, FailedStartIsUndone
<1>4. QED
  BY <1>1, <1>2, <1>3 DEF ServiceInv

\* Which part of its course a command is on, by its next step.
LEMMA InStart ==
  ASSUME ServiceInv, op.todo # <<>>, Head(op.todo).do \in StartKinds
  PROVE  /\ op.name \in {"start", "restart"} /\ op.phase = "start" /\ op.ok /\ op.core \in Core
         /\ Up(op, fw, Known)
         /\ op.name = "restart" => live \cap Core \subseteq {op.core}
<1>1. op.todo \in Seq(StepType) /\ op.name \in {"idle", "start", "stop", "restart"} /\ op.phase \in {"start", "stop"}
      /\ op.ok \in BOOLEAN
  BY DEF ServiceInv, Types, OpType
<1>2. 1 \in DOMAIN op.todo /\ op.todo[1] = Head(op.todo)
  BY <1>1, Elements
<1>3. ~Only(op.todo, {"stop", "load", "remove"}) /\ ~Only(op.todo, {"stop", "remove"})
  BY <1>2 DEF Only, StartKinds, Launches
<1>4. QED
  BY <1>1, <1>3 DEF ServiceInv, Course, Down, Back

\* The same of what stops and removes.
LEMMA InStop ==
  ASSUME ServiceInv, op.todo # <<>>, Head(op.todo).do \notin StartKinds
  PROVE  /\ op.name # "idle"
         /\ \/ op.phase = "stop" /\ Down(op, live, fw)
            \/ op.phase = "start" /\ ~op.ok /\ op.core \in Core /\ Back(op, fw)
         /\ op.name = "restart" /\ op.phase = "start" => live \cap Core \subseteq {op.core}
<1>1. op.todo \in Seq(StepType) /\ op.phase \in {"start", "stop"}
  BY DEF ServiceInv, Types, OpType
<1>2. 1 \in DOMAIN op.todo /\ op.todo[1] = Head(op.todo)
  BY <1>1, Elements
<1>3. ~Only(op.todo, StartKinds)
  BY <1>2 DEF Only
<1>4. QED
  BY <1>1, <1>3 DEF ServiceInv, Course, Up

\* The first step of a list, and that it is on the list.
LEMMA First ==
  ASSUME ServiceInv, op.todo # <<>>
  PROVE  /\ op \in OpType /\ op.todo \in Seq(StepType) /\ Head(op.todo) \in StepType
         /\ \A s \in Head(op.todo).on : Has(op.todo, Head(op.todo).do, s)
         /\ \A kinds : Only(op.todo, kinds) => Head(op.todo).do \in kinds
<1>1. op \in OpType /\ op.todo \in Seq(StepType)
  BY DEF ServiceInv, Types, OpType
<1>2. 1 \in DOMAIN op.todo /\ op.todo[1] = Head(op.todo) /\ Head(op.todo) \in StepType
  BY <1>1, Elements
<1>3. QED
  BY <1>1, <1>2 DEF Has, Only

\* Go takes one service off the list.
LEMMA GoIs ==
  ASSUME op \in OpType, op.todo # <<>>, NEW s, Go(s)
  PROVE  /\ op' \in OpType /\ op'.todo = Past(s) /\ op'.new = "none" /\ Waiting(op')
         /\ op'.name = op.name /\ op'.phase = op.phase /\ op'.core = op.core /\ op'.outs = op.outs
         /\ op'.cut = op.cut /\ op'.ok = op.ok /\ op'.fw = op.fw
<1>1. op.todo \in Seq(StepType)
  BY DEF OpType
<1>2. Past(s) \in Seq(StepType)
  BY <1>1, PastIs
<1>3. PICK u : u = Past(s)
  OBVIOUS
<1>4. op' = [op EXCEPT !.todo = u, !.new = "none"] /\ u \in Seq(StepType)
  BY <1>2, <1>3 DEF Go
<1>5. /\ op' \in OpType /\ op'.todo = u /\ op'.new = "none"
      /\ op'.name = op.name /\ op'.phase = op.phase /\ op'.core = op.core /\ op'.outs = op.outs
      /\ op'.cut = op.cut /\ op'.ok = op.ok /\ op'.fw = op.fw
  BY <1>4 DEF OpType
<1>6. QED
  BY <1>3, <1>5 DEF Waiting

\* A step of doStart that is done, with the rules as they are.
LEMMA UpGoes ==
  ASSUME ServiceInv, op.todo # <<>>, Head(op.todo).do \in StartKinds \ {"apply"}, NEW s, Go(s),
         Head(op.todo).do = "peer" => s \in Known
  PROVE  op' \in OpType /\ Waiting(op') /\ op'.name # "idle" /\ Course(op', live, fw, Known)
<1>1. op \in OpType /\ op.todo \in Seq(StepType)
  BY First
<1>2. /\ op.name \in {"start", "restart"} /\ op.phase = "start" /\ op.ok /\ op.core \in Core /\ Up(op, fw, Known)
      /\ op.name = "restart" => live \cap Core \subseteq {op.core}
  BY InStart
<1>3. /\ op' \in OpType /\ op'.todo = Past(s) /\ op'.new = "none" /\ Waiting(op')
      /\ op'.name = op.name /\ op'.phase = op.phase /\ op'.core = op.core /\ op'.outs = op.outs
      /\ op'.cut = op.cut /\ op'.ok = op.ok /\ op'.fw = op.fw
  BY <1>1, GoIs
<1>4. PICK t : t = op.todo
  OBVIOUS
<1>5. PICK u : u = Past(s)
  OBVIOUS
<1>6. /\ \A w, x : Has(u, w, x) => Has(t, w, x)
      /\ \A w, x : Has(t, w, x) /\ ~(w = Head(t).do /\ x = s) => Has(u, w, x)
      /\ \A kinds : Only(t, kinds) => Only(u, kinds)
      /\ Ordered(t) => Ordered(u)
  BY <1>1, <1>4, <1>5, PastIs
<1>7. Up(op', fw, Known)
  <2>1. Only(u, StartKinds) /\ Ordered(u)
    BY <1>2, <1>4, <1>6 DEF Up
  <2>2. \A x \in Svc : Has(u, "core", x) => x = op'.core
    BY <1>2, <1>3, <1>4, <1>6 DEF Up
  <2>3. fw = op'.fw \/ Only(u, Late)
    BY <1>2, <1>3, <1>4, <1>6 DEF Up
  <2>4. \A p \in op'.outs : p \in Known \/ Has(u, "peer", p)
    BY <1>2, <1>3, <1>4, <1>6 DEF Up
  <2>5. QED
    BY <1>3, <1>5, <2>1, <2>2, <2>3, <2>4 DEF Up
<1>8. QED
  BY <1>2, <1>3, <1>7 DEF Course

\* A step of doStart that failed: only naive and nfqws2 are done without.
LEMMA Failed ==
  ASSUME ServiceInv, op.todo # <<>>, Head(op.todo).do \in StartKinds \ {"apply"}, NEW s, Fails(s)
  PROVE  op' \in OpType /\ Waiting(op') /\ op'.name # "idle" /\ Course(op', live, fw, Known)
<1>1. op \in OpType /\ op.todo \in Seq(StepType) /\ \A kinds : Only(op.todo, kinds) => Head(op.todo).do \in kinds
  BY First
<1>2. /\ op.name \in {"start", "restart"} /\ op.phase = "start" /\ op.ok /\ op.core \in Core /\ Up(op, fw, Known)
      /\ op.name = "restart" => live \cap Core \subseteq {op.core}
  BY InStart
<1>3. CASE Head(op.todo).do \in {"naive", "dpi"}
  BY <1>3, UpGoes DEF Fails
<1>4. CASE Head(op.todo).do \notin {"naive", "dpi"}
  <2>1. PICK what : what = Head(op.todo).do
    OBVIOUS
  <2>2. what \in {"prepare", "peer", "check", "core", "attach"}
    BY <1>4, <2>1 DEF StartKinds, Launches
  <2>3. PICK u : u = Undo(what)
    OBVIOUS
  <2>4. u \in Seq(StepType) /\ Only(u, {"stop", "remove"}) /\ (what \in {"core", "attach"} => Has(u, "remove", "none"))
    BY <1>1, <1>2, <2>2, <2>3, UndoList
  <2>5. op' = [op EXCEPT !.todo = u, !.new = "none", !.ok = FALSE]
    BY <1>4, <2>1, <2>3 DEF Fails
  <2>6. /\ op' \in OpType /\ op'.todo = u /\ op'.new = "none" /\ ~op'.ok
        /\ op'.name = op.name /\ op'.phase = op.phase /\ op'.core = op.core /\ op'.fw = op.fw
    BY <1>1, <2>4, <2>5 DEF OpType
  <2>7. what \notin {"core", "attach"} => fw = op.fw
    BY <1>1, <1>2, <2>1, <2>2 DEF Up, Late
  <2>8. Back(op', fw)
    BY <2>4, <2>6, <2>7 DEF Back
  <2>9. QED
    BY <1>2, <2>6, <2>8 DEF Course, Waiting
<1>5. QED
  BY <1>3, <1>4

-----------------------------------------------------------------------------
(* PID files.                                                              *)

\* A new process: its own file names it or is gone, and so may stale files of its program.
LEMMA FilesSpawn ==
  ASSUME ServiceInv, NEW s \in Svc, ~Running(s), NEW same \in SUBSET Stale(s), NEW own \in {{}, {s}},
         Spawn(s, same \cup own)
  PROVE  /\ Files' /\ pid' \in [Svc -> Svc \cup {"none", "dead"}]
         /\ live' = live \cup own /\ lost' = lost \cup ({s} \ own)
         /\ mixed' \subseteq Svc /\ mixed \subseteq mixed' \cup {s}
<1>1. live \subseteq Svc /\ lost \subseteq Svc /\ pid \in [Svc -> Svc \cup {"none", "dead"}] /\ mixed \subseteq Svc
  BY DEF ServiceInv, Types
<1>2. /\ s \notin same /\ same \subseteq Svc /\ \A t \in same : pid[t] = "dead" /\ SameProgram(t, s)
  BY DEF Stale, SameProgram
<1>3. /\ pid' = [t \in Svc |-> IF t \in same \cup own THEN s ELSE IF t = s THEN "none" ELSE pid[t]]
      /\ live' = live \cup own /\ lost' = lost \cup ({s} \ own) /\ mixed' = (mixed \cup same) \ {s}
  BY <1>2 DEF Spawn
<1>4. \A t \in Svc : pid'[t] = IF t \in same \cup own THEN s ELSE IF t = s THEN "none" ELSE pid[t]
  BY <1>3
<1>5. pid' \in [Svc -> Svc \cup {"none", "dead"}]
  BY <1>1, <1>3
<1>6. /\ \A t \in Svc : pid[t] \in Svc => pid[t] \in live \cup lost /\ SameProgram(t, pid[t])
      /\ \A t \in live : pid[t] = t
      /\ \A t \in Svc : pid[t] \in Svc /\ pid[t] # t => t \in mixed
  BY DEF ServiceInv, Files, PidFilesAreTrue, Running
<1>7. ASSUME NEW t \in Svc, pid'[t] \in Svc
      PROVE  pid'[t] \in live' \cup lost' /\ SameProgram(t, pid'[t]) /\ (pid'[t] # t => t \in mixed')
  <2>1. CASE t \in own
    BY <1>3, <1>4, <2>1 DEF SameProgram
  <2>2. CASE t \in same
    BY <1>2, <1>3, <1>4, <2>2
  <2>3. CASE t \notin same \cup own
    BY <1>3, <1>4, <1>6, <1>7, <2>3, NoService
  <2>4. QED
    BY <2>1, <2>2, <2>3
<1>8. ASSUME NEW t \in live' PROVE pid'[t] = t
  <2>1. CASE t \in own
    BY <1>4, <2>1
  <2>2. CASE t \notin own
    <3>1. t \in live /\ pid[t] = t /\ t \in Svc /\ t # "dead"
      BY <1>1, <1>3, <1>6, <1>8, <2>2, NoService
    <3>2. t # s
      BY <3>1 DEF Running
    <3>3. QED
      BY <1>2, <1>4, <2>2, <3>1, <3>2
  <2>3. QED
    BY <2>1, <2>2
<1>9. PidFilesAreTrue'
  BY <1>7, <1>8 DEF PidFilesAreTrue, Running
<1>10. Files'
  BY <1>7, <1>9 DEF Files, Running
<1>11. QED
  BY <1>1, <1>2, <1>3, <1>5, <1>10

\* Fork: the file names the new process.
LEMMA FilesFork ==
  ASSUME ServiceInv, NEW s \in Svc, ~Running(s), Fork(s)
  PROVE  /\ Files' /\ pid' \in [Svc -> Svc \cup {"none", "dead"}] /\ live' = live \cup {s} /\ lost' = lost
         /\ mixed' \subseteq Svc /\ mixed \subseteq mixed' \cup {s}
<1>1. PICK same \in SUBSET Stale(s) : Spawn(s, same \cup {s})
  BY DEF Fork
<1>2. PICK own \in {{}, {s}} : own = {s}
  OBVIOUS
<1>3. Spawn(s, same \cup own)
  BY <1>1, <1>2
<1>4. /\ Files' /\ pid' \in [Svc -> Svc \cup {"none", "dead"}]
      /\ live' = live \cup own /\ lost' = lost \cup ({s} \ own)
      /\ mixed' \subseteq Svc /\ mixed \subseteq mixed' \cup {s}
  BY <1>3, FilesSpawn
<1>5. lost' = lost
  BY <1>2, <1>4
<1>6. QED
  BY <1>2, <1>4, <1>5

\* A process goes, with every file that names it; the file of s may go too.
LEMMA FilesBuried ==
  ASSUME ServiceInv, NEW t, NEW s, pid' = Buried(t, s), live' = live \ {t}, lost' = lost \ {t},
         s \in Svc => pid[s] = t, mixed' = mixed
  PROVE  Files' /\ pid' \in [Svc -> Svc \cup {"none", "dead"}]
<1>1. live \subseteq Svc /\ pid \in [Svc -> Svc \cup {"none", "dead"}]
  BY DEF ServiceInv, Types
<1>2. /\ \A x \in Svc : pid[x] \in Svc => pid[x] \in live \cup lost /\ SameProgram(x, pid[x])
      /\ \A x \in live : pid[x] = x
      /\ \A x \in Svc : pid[x] \in Svc /\ pid[x] # x => x \in mixed
  BY DEF ServiceInv, Files, PidFilesAreTrue, Running
<1>3. \A x \in Svc : pid'[x] = IF x = s THEN "none" ELSE IF pid[x] = t /\ t \in Svc THEN "dead" ELSE pid[x]
  BY DEF Buried
<1>4. pid' \in [Svc -> Svc \cup {"none", "dead"}]
  BY <1>1 DEF Buried
<1>5. ASSUME NEW x \in Svc, pid'[x] \in Svc
      PROVE  pid'[x] \in live' \cup lost' /\ SameProgram(x, pid'[x]) /\ (pid'[x] # x => x \in mixed')
  <2>1. pid'[x] = pid[x] /\ pid[x] # t
    BY <1>3, <1>5, NoService
  <2>2. QED
    BY <1>2, <1>5, <2>1
<1>6. ASSUME NEW x \in live' PROVE pid'[x] = x
  <2>1. x \in live /\ x # t /\ pid[x] = x /\ x \in Svc
    BY <1>1, <1>2, <1>6
  <2>2. QED
    BY <1>3, <2>1
<1>7. PidFilesAreTrue'
  BY <1>5, <1>6 DEF PidFilesAreTrue, Running
<1>8. QED
  BY <1>4, <1>5, <1>7 DEF Files, Running

\* The file of a service goes; its process is not among those it named.
LEMMA FilesLess ==
  ASSUME ServiceInv, NEW s \in Svc, pid' = [pid EXCEPT ![s] = "none"], live' \subseteq live, s \notin live',
         live \cup lost \subseteq live' \cup lost', mixed' = mixed
  PROVE  Files' /\ pid' \in [Svc -> Svc \cup {"none", "dead"}]
<1>1. live \subseteq Svc /\ pid \in [Svc -> Svc \cup {"none", "dead"}]
  BY DEF ServiceInv, Types
<1>2. /\ \A x \in Svc : pid[x] \in Svc => pid[x] \in live \cup lost /\ SameProgram(x, pid[x])
      /\ \A x \in live : pid[x] = x
      /\ \A x \in Svc : pid[x] \in Svc /\ pid[x] # x => x \in mixed
  BY DEF ServiceInv, Files, PidFilesAreTrue, Running
<1>3. \A x \in Svc : pid'[x] = IF x = s THEN "none" ELSE pid[x]
  BY <1>1
<1>4. PidFilesAreTrue'
  BY <1>1, <1>2, <1>3, NoService DEF PidFilesAreTrue, Running
<1>5. Files'
  BY <1>2, <1>3, <1>4, NoService DEF Files, Running
<1>6. QED
  BY <1>1, <1>5

\* Nothing happens to files and processes.
LEMMA FilesSame == ASSUME ServiceInv, UNCHANGED <<live, lost, pid, mixed>> PROVE Files'
BY DEF ServiceInv, Files, PidFilesAreTrue, Running

-----------------------------------------------------------------------------
(* doStart.                                                                *)

\* StartFound: a peer is taken for its own although the file may name another.
LEMMA StepStartFound == ASSUME ServiceInv, StartFound PROVE ServiceInv'
<1>1. /\ op.todo # <<>> /\ Head(op.todo).do \in Launches
      /\ UNCHANGED <<live, lost, pid, fw, conf, read, done, died, mixed, bare>>
  BY DEF StartFound, Launching, At, procs, hist
<1>2. PICK s \in Head(op.todo).on : Running(s) /\ IF Head(op.todo).do = "peer" THEN Go(s) ELSE Fails(s)
  BY DEF StartFound
<1>3. Head(op.todo).do \in StartKinds \ {"apply"} /\ Files'
  BY <1>1, FilesSame DEF StartKinds, Launches
<1>4. s \in Known
  <2>1. s \in Svc
    BY <1>1, <1>2, First DEF StepType, Launches, Single
  <2>2. pid[s] \in live \cup lost \/ s \in mixed
    BY <1>2, <2>1 DEF ServiceInv, Files, PidFilesAreTrue
  <2>3. QED
    BY <1>2, <2>1 DEF ServiceInv, Files, PidFilesAreTrue, Running, Known
<1>5. op' \in OpType /\ Waiting(op') /\ op'.name # "idle" /\ Course(op', live, fw, Known)
  BY <1>1, <1>2, <1>3, <1>4, UpGoes, Failed
<1>6. op.name # "idle" /\ Known' = Known /\ Types'
  BY <1>1, <1>3, <1>5, InStart DEF Known, ServiceInv, Types
<1>7. QED
  BY <1>1, <1>3, <1>5, <1>6, Within

\* StartForks: of the cores only the one the command loaded.
LEMMA StepStartForks == ASSUME ServiceInv, StartForks PROVE ServiceInv'
<1>1. /\ op.todo # <<>> /\ Head(op.todo).do \in Launches
      /\ UNCHANGED <<fw, conf, read, done, died, bare>>
  BY DEF StartForks, Launching, At
<1>2. PICK s \in Head(op.todo).on : ~Running(s) /\ Fork(s) /\ op' = [op EXCEPT !.new = s]
  BY DEF StartForks
<1>3. s \in Svc /\ Has(op.todo, Head(op.todo).do, s) /\ op \in OpType /\ op.todo \in Seq(StepType)
      /\ Head(op.todo) \in StepType
  BY <1>1, <1>2, First DEF StepType, Launches, Single
<1>4. Head(op.todo).do \in StartKinds
  BY <1>1 DEF StartKinds
<1>5. /\ op.name \in {"start", "restart"} /\ op.phase = "start" /\ op.ok /\ op.core \in Core /\ Up(op, fw, Known)
      /\ op.name = "restart" => live \cap Core \subseteq {op.core}
  BY <1>1, <1>4, InStart
<1>6. /\ Files' /\ pid' \in [Svc -> Svc \cup {"none", "dead"}] /\ live' = live \cup {s} /\ lost' = lost
      /\ mixed' \subseteq Svc /\ mixed \subseteq mixed' \cup {s}
  BY <1>2, <1>3, FilesFork
<1>7. /\ op' \in OpType /\ op'.new = s /\ op'.todo = op.todo /\ op'.name = op.name /\ op'.phase = op.phase
      /\ op'.core = op.core /\ op'.outs = op.outs /\ op'.cut = op.cut /\ op'.ok = op.ok /\ op'.fw = op.fw
  BY <1>2, <1>3 DEF OpType
<1>8. Types' /\ Known \subseteq Known'
  BY <1>1, <1>3, <1>6, <1>7 DEF Known, ServiceInv, Types
<1>9. Waiting(op')
  BY <1>1, <1>2, <1>7 DEF Waiting
<1>10. Course(op', live', fw', Known')
  <2>1. s \in Core => s = op.core
    <3>1. s \in Core => Head(op.todo).do = "core"
      BY <1>1, <1>2, <1>3, NoService DEF StepType, Launches
    <3>2. QED
      BY <1>3, <1>5, <3>1 DEF Up
  <2>2. Up(op', fw', Known')
    BY <1>1, <1>5, <1>7, <1>8 DEF Up
  <2>3. QED
    BY <1>5, <1>6, <1>7, <2>1, <2>2 DEF Course
<1>11. QED
  BY <1>1, <1>5, <1>6, <1>8, <1>9, <1>10, Within

\* StartBreaks: the file is gone, and with it the name of no process that lives.
LEMMA StepStartBreaks == ASSUME ServiceInv, StartBreaks PROVE ServiceInv'
<1>1. /\ op.todo # <<>> /\ Head(op.todo).do \in Launches
      /\ UNCHANGED <<live, lost, fw, conf, read, done, died, mixed, bare>>
  BY DEF StartBreaks, Launching, At, hist
<1>2. PICK s \in Head(op.todo).on : ~Running(s) /\ Fails(s) /\ pid' = [pid EXCEPT ![s] = "none"]
  BY DEF StartBreaks
<1>3. s \in Svc /\ Head(op.todo).do \in StartKinds \ {"apply"}
  BY <1>1, <1>2, First DEF StepType, Launches, Single, StartKinds
<1>4. s \notin live
  BY <1>2, <1>3 DEF ServiceInv, Files, PidFilesAreTrue, Running
<1>5. Files' /\ pid' \in [Svc -> Svc \cup {"none", "dead"}]
  BY <1>1, <1>2, <1>3, <1>4, FilesLess
<1>6. op' \in OpType /\ Waiting(op') /\ op'.name # "idle" /\ Course(op', live, fw, Known)
  BY <1>1, <1>2, <1>3, Failed
<1>7. op.name # "idle" /\ Known' = Known /\ Types'
  BY <1>1, <1>3, <1>5, <1>6, InStart DEF Known, ServiceInv, Types
<1>8. QED
  BY <1>1, <1>5, <1>6, <1>7, Within

\* StartSettles: what does not live loses its file.
LEMMA StepStartSettles == ASSUME ServiceInv, StartSettles PROVE ServiceInv'
<1>1. op.new # "none" /\ UNCHANGED <<live, lost, fw, conf, read, done, died, mixed, bare>>
  BY DEF StartSettles, hist
<1>2. PICK s : s = op.new
  OBVIOUS
<1>3. op.todo # <<>> /\ Head(op.todo).do \in Launches /\ s \in Head(op.todo).on /\ s \in Svc
  BY <1>1, <1>2 DEF ServiceInv, Waiting, Types, OpType
<1>4. /\ IF s \in live \cup lost /\ ~op.cut THEN Go(s) ELSE Fails(s)
      /\ pid' = IF s \in live \cup lost \/ op.cut THEN pid ELSE [pid EXCEPT ![s] = "none"]
  BY <1>2 DEF StartSettles
<1>5. Head(op.todo).do \in StartKinds \ {"apply"}
  BY <1>3 DEF Launches, StartKinds
<1>6. Files' /\ pid' \in [Svc -> Svc \cup {"none", "dead"}]
  <2>1. CASE pid' = pid
    BY <1>1, <2>1, FilesSame DEF ServiceInv, Types
  <2>2. CASE pid' # pid
    BY <1>1, <1>3, <1>4, <2>2, FilesLess
  <2>3. QED
    BY <2>1, <2>2
<1>7. op' \in OpType /\ Waiting(op') /\ op'.name # "idle" /\ Course(op', live, fw, Known)
  <2>1. CASE Go(s) /\ s \in live \cup lost
    BY <1>3, <1>5, <2>1, UpGoes DEF Known
  <2>2. CASE Fails(s)
    BY <1>3, <1>5, <2>2, Failed
  <2>3. QED
    BY <1>4, <2>1, <2>2
<1>8. op.name # "idle" /\ Known' = Known /\ Types'
  BY <1>1, <1>3, <1>5, <1>6, <1>7, InStart DEF Known, ServiceInv, Types
<1>9. QED
  BY <1>1, <1>6, <1>7, <1>8, Within

\* The steps that start nothing and leave the rules as they are.
LEMMA StepPrepare ==
  ASSUME ServiceInv, Prepare \/ PrepareFails \/ Preflight \/ PreflightFails \/ Attach \/ AttachFails
  PROVE  ServiceInv'
<1>1. /\ op.todo # <<>> /\ Head(op.todo).do \in {"prepare", "check", "attach"}
      /\ UNCHANGED <<live, lost, pid, fw, conf, read, done, died, mixed, bare>>
  BY DEF Prepare, PrepareFails, Preflight, PreflightFails, Attach, AttachFails, At, procs, hist
<1>2. PICK s : Go(s) \/ Fails(s)
  BY DEF Prepare, PrepareFails, Preflight, PreflightFails, Attach, AttachFails
<1>3. Head(op.todo).do \in StartKinds \ {"apply"} /\ Head(op.todo).do # "peer" /\ Files'
  BY <1>1, FilesSame DEF StartKinds
<1>4. op' \in OpType /\ Waiting(op') /\ op'.name # "idle" /\ Course(op', live, fw, Known)
  BY <1>1, <1>2, <1>3, UpGoes, Failed
<1>5. op.name # "idle" /\ Known' = Known /\ Types'
  BY <1>1, <1>3, <1>4, InStart DEF Known, ServiceInv, Types
<1>6. QED
  BY <1>1, <1>3, <1>4, <1>5, Within

\* Apply: the rules are in, and only the core and what follows it is left.
LEMMA StepApply == ASSUME ServiceInv, Apply PROVE ServiceInv'
<1>1. /\ op.todo # <<>> /\ Head(op.todo).do = "apply" /\ fw' = "on" /\ Go("none")
      /\ UNCHANGED <<live, lost, pid, conf, read, done, died, mixed, bare>>
  BY DEF Apply, At, procs, hist
<1>2. op \in OpType /\ op.todo \in Seq(StepType)
  BY <1>1, First
<1>3. /\ op.name \in {"start", "restart"} /\ op.phase = "start" /\ op.ok /\ op.core \in Core /\ Up(op, fw, Known)
      /\ op.name = "restart" => live \cap Core \subseteq {op.core}
  BY <1>1, InStart DEF StartKinds
<1>4. /\ op' \in OpType /\ op'.todo = Past("none") /\ op'.new = "none" /\ Waiting(op')
      /\ op'.name = op.name /\ op'.phase = op.phase /\ op'.core = op.core /\ op'.outs = op.outs
      /\ op'.cut = op.cut /\ op'.ok = op.ok /\ op'.fw = op.fw
  BY <1>1, <1>2, GoIs
<1>5. PICK t : t = op.todo
  OBVIOUS
<1>6. PICK u : u = Past("none")
  OBVIOUS
<1>7. /\ \A w, x : Has(u, w, x) => Has(t, w, x)
      /\ \A w, x : Has(t, w, x) /\ ~(w = Head(t).do /\ x = "none") => Has(u, w, x)
      /\ \A kinds : Only(t, kinds) => Only(u, kinds)
      /\ Ordered(t) => Ordered(u)
      /\ Ordered(t) /\ Head(t).do = "apply" => Only(u, Late)
  BY <1>1, <1>2, <1>5, <1>6, PastIs
<1>8. Up(op', "on", Known)
  <2>1. Only(u, StartKinds) /\ Ordered(u) /\ Only(u, Late)
    BY <1>1, <1>3, <1>5, <1>7 DEF Up
  <2>2. \A x \in Svc : Has(u, "core", x) => x = op'.core
    BY <1>3, <1>4, <1>5, <1>7 DEF Up
  <2>3. \A p \in op'.outs : p \in Known \/ Has(u, "peer", p)
    BY <1>1, <1>3, <1>4, <1>5, <1>7 DEF Up
  <2>4. QED
    BY <1>4, <1>6, <2>1, <2>2, <2>3 DEF Up
<1>9. Course(op', live', fw', Known')
  <2>1. Known' = Known /\ live' = live
    BY <1>1 DEF Known
  <2>2. QED
    BY <1>1, <1>3, <1>4, <1>8, <2>1 DEF Course
<1>10. Types' /\ Files'
  BY <1>1, <1>4, FilesSame DEF ServiceInv, Types, Rules
<1>11. QED
  BY <1>1, <1>3, <1>4, <1>9, <1>10, Within

\* ApplyFails: what it left of the rules is on the list of what is taken back.
LEMMA StepApplyFails == ASSUME ServiceInv, ApplyFails PROVE ServiceInv'
<1>1. /\ op.todo # <<>> /\ Head(op.todo).do = "apply" /\ op.new = "none" /\ fw' = IF op.cut THEN fw ELSE "part"
      /\ UNCHANGED <<live, lost, pid, conf, read, done, died, mixed, bare>>
  BY DEF ApplyFails, At, procs, hist
<1>2. op \in OpType
  BY <1>1, First
<1>3. /\ op.name \in {"start", "restart"} /\ op.phase = "start" /\ op.core \in Core
      /\ op.name = "restart" => live \cap Core \subseteq {op.core}
  BY <1>1, InStart DEF StartKinds
<1>4. PICK u : u = Undo("apply")
  OBVIOUS
<1>5. u \in Seq(StepType) /\ Only(u, {"stop", "remove"}) /\ Has(u, "remove", "none")
  BY <1>2, <1>3, <1>4, UndoList
<1>6. PICK cut \in {op.cut, TRUE} : op' = [op EXCEPT !.todo = u, !.ok = FALSE, !.cut = cut]
  BY <1>4 DEF ApplyFails
<1>7. cut \in BOOLEAN
  BY <1>2 DEF OpType
<1>8. /\ op' \in OpType /\ op'.todo = u /\ op'.new = "none" /\ ~op'.ok
      /\ op'.name = op.name /\ op'.phase = op.phase /\ op'.core = op.core
  BY <1>1, <1>2, <1>5, <1>6, <1>7 DEF OpType
<1>9. Back(op', fw') /\ Waiting(op')
  BY <1>5, <1>8 DEF Back, Waiting
<1>10. Course(op', live', fw', Known')
  BY <1>1, <1>3, <1>8, <1>9 DEF Course
<1>11. Types' /\ Files'
  BY <1>1, <1>8, FilesSame DEF ServiceInv, Types, Rules
<1>12. QED
  BY <1>1, <1>3, <1>9, <1>10, <1>11, Within

-----------------------------------------------------------------------------
(* doStop, and what doStart takes back.                                    *)

\* Stop: the process is gone whoever its file named, and so is what the list had of it.
LEMMA StepStop == ASSUME ServiceInv, Stop PROVE ServiceInv'
<1>1. /\ op.todo # <<>> /\ Head(op.todo).do = "stop"
      /\ UNCHANGED <<fw, conf, read, done, died, mixed, bare>>
  BY DEF Stop, At, hist
<1>2. PICK s \in Head(op.todo).on : Terminate(s) /\ Go(s)
  BY DEF Stop
<1>3. op \in OpType /\ op.todo \in Seq(StepType) /\ s \in Svc
  BY <1>1, <1>2, First DEF StepType, Single
<1>4. PICK q : q = pid[s]
  OBVIOUS
<1>5. live' = live \ {q} /\ lost' = lost \ {q} /\ pid' = Buried(q, s)
  BY <1>2, <1>4 DEF Terminate
<1>6. Files' /\ pid' \in [Svc -> Svc \cup {"none", "dead"}]
  BY <1>1, <1>4, <1>5, FilesBuried
<1>7. s \notin live'
  BY <1>3, <1>4, <1>5 DEF ServiceInv, Files, PidFilesAreTrue
<1>8. /\ op.name # "idle"
      /\ \/ op.phase = "stop" /\ Down(op, live, fw)
         \/ op.phase = "start" /\ ~op.ok /\ op.core \in Core /\ Back(op, fw)
      /\ op.name = "restart" /\ op.phase = "start" => live \cap Core \subseteq {op.core}
  BY <1>1, InStop DEF StartKinds, Launches
<1>9. /\ op' \in OpType /\ op'.todo = Past(s) /\ op'.new = "none" /\ Waiting(op')
      /\ op'.name = op.name /\ op'.phase = op.phase /\ op'.core = op.core /\ op'.outs = op.outs
      /\ op'.cut = op.cut /\ op'.ok = op.ok /\ op'.fw = op.fw
  BY <1>1, <1>2, <1>3, GoIs
<1>10. PICK t : t = op.todo
  OBVIOUS
<1>11. PICK u : u = Past(s)
  OBVIOUS
<1>12. /\ \A w, x : Has(u, w, x) => Has(t, w, x)
       /\ \A w, x : Has(t, w, x) /\ ~(w = "stop" /\ x = s) => Has(u, w, x)
       /\ \A kinds : Only(t, kinds) => Only(u, kinds)
       /\ Closed(t) => Closed(u)
  BY <1>1, <1>3, <1>10, <1>11, PastIs
<1>13. Down(op, live, fw) => Down(op', live', fw)
  <2>1. ASSUME Down(op, live, fw) PROVE Down(op', live', fw)
    <3>1. Only(u, {"stop", "load", "remove"}) /\ Closed(u)
      BY <1>10, <1>12, <2>1 DEF Down
    <3>2. \A x \in (Core \cup {"naive", "dpi"} \cup op.outs) \cap live' : Has(u, "stop", x)
      BY <1>5, <1>7, <1>10, <1>12, <2>1 DEF Down
    <3>3. op.cut \/ fw = "none" \/ Has(u, "load", "none") \/ Has(u, "remove", "none")
      BY <1>10, <1>12, <2>1 DEF Down
    <3>4. \A p \in Peer, c \in Core : Has(u, "stop", p) => ~Has(u, "stop", c)
      BY <1>10, <1>12, <2>1 DEF Down
    <3>5. QED
      BY <1>9, <1>11, <3>1, <3>2, <3>3, <3>4 DEF Down
  <2>2. QED
    BY <2>1
<1>14. Back(op, fw) => Back(op', fw)
  BY <1>9, <1>10, <1>11, <1>12 DEF Back
<1>15. op.phase = "stop" => op.ok
  BY DEF ServiceInv, Course
<1>16. op.name = "start" => op.phase = "start"
  BY DEF ServiceInv, Course
<1>17. op.name = "stop" => op.phase = "stop"
  BY DEF ServiceInv, Course
<1>18. Course(op', live', fw', Known')
  <2>1. live' \subseteq live /\ fw' = fw
    BY <1>1, <1>5
  <2>2. QED
    BY <1>8, <1>9, <1>13, <1>14, <1>15, <1>16, <1>17, <2>1 DEF Course
<1>19. Types'
  BY <1>1, <1>5, <1>6, <1>9 DEF ServiceInv, Types
<1>20. QED
  BY <1>1, <1>6, <1>8, <1>9, <1>18, <1>19, Within

\* Load: no core is left by now, and the outbounds of state.json come on the list.
LEMMA StepLoad == ASSUME ServiceInv, Load PROVE ServiceInv'
<1>1. /\ op.todo # <<>> /\ Head(op.todo).do = "load" /\ op.new = "none"
      /\ UNCHANGED <<live, lost, pid, fw, conf, read, done, died, mixed, bare>>
  BY DEF Load, At, procs, hist
<1>2. op \in OpType /\ op.todo \in Seq(StepType) /\ conf \in Conf
  BY <1>1, First DEF ServiceInv, Types
<1>3. PICK outs \in SUBSET Peer : op' = [op EXCEPT !.outs = outs, !.todo = Each("stop", outs) \o <<Once("remove")>>]
  BY <1>2 DEF Load, Conf
<1>4. op.name # "idle" /\ op.phase = "stop" /\ Down(op, live, fw)
  <2>1. ~Only(op.todo, {"stop", "remove"})
    BY <1>1, First
  <2>2. QED
    BY <1>1, <2>1, InStop DEF StartKinds, Launches, Back
<1>5. \A s : ~Has(op.todo, "stop", s)
  <2>1. PICK t \in Seq(StepType) : t = op.todo
    BY <1>2
  <2>2. DOMAIN t = 1..Len(t) /\ 1 \in DOMAIN t /\ t[1].do = "load"
    BY <1>1, <2>1, Elements
  <2>3. Closed(t)
    BY <1>4, <2>1 DEF Down
  <2>4. 1 = Len(t)
    BY <2>2, <2>3 DEF Closed
  <2>5. DOMAIN t = {1}
    <3>1. DOMAIN t = 1..1
      BY <2>2, <2>4
    <3>2. QED
      BY <3>1
  <2>6. QED
    BY <2>1, <2>2, <2>5 DEF Has
<1>6. (Core \cup {"naive", "dpi"}) \cap live = {}
  BY <1>4, <1>5 DEF Down
<1>7. PICK a : a = Each("stop", outs)
  OBVIOUS
<1>8. /\ a \in Seq(StepType) /\ \A w, x : Has(a, w, x) <=> w = "stop" /\ x \in outs
      /\ \A kinds : "stop" \in kinds => Only(a, kinds)
  <2>1. outs = {} \/ Step("stop", outs) \in StepType
    BY Steps, NoService
  <2>2. QED
    BY <1>7, <2>1, EachIs
<1>9. PICK b : b = <<Once("remove")>>
  OBVIOUS
<1>10. /\ b \in Seq(StepType) /\ \A w, x : Has(b, w, x) <=> w = "remove" /\ x = "none"
       /\ \A kinds : "remove" \in kinds => Only(b, kinds)
       /\ Closed(b)
  <2>1. Step("remove", {"none"}) \in StepType
    BY Steps DEF Single
  <2>2. b = <<Step("remove", {"none"})>>
    BY <1>9 DEF Once
  <2>3. QED
    BY <2>1, <2>2, OneIs
<1>11. PICK u : u = a \o b
  OBVIOUS
<1>12. /\ u \in Seq(StepType) /\ Only(u, {"stop", "load", "remove"}) /\ Closed(u)
       /\ \A w, x : Has(u, w, x) <=> (w = "stop" /\ x \in outs) \/ (w = "remove" /\ x = "none")
  <2>1. Only(a, Kinds \ {"load", "remove"}) /\ Only(a, {"stop", "load", "remove"}) /\ Only(b, {"stop", "load", "remove"})
    BY <1>8, <1>10 DEF Kinds
  <2>2. u \in Seq(StepType) /\ Only(u, {"stop", "load", "remove"}) /\ Closed(u)
    <3>1. a \in Seq(StepType) /\ b \in Seq(StepType) /\ Closed(b)
      BY <1>8, <1>10
    <3>2. QED
      BY <1>11, <2>1, <3>1, ConcatIs
  <2>3. \A w, x : Has(u, w, x) <=> Has(a, w, x) \/ Has(b, w, x)
    BY <1>8, <1>10, <1>11, ConcatIs
  <2>4. QED
    BY <1>8, <1>10, <2>2, <2>3
<1>13. op' = [op EXCEPT !.outs = outs, !.todo = u]
  BY <1>3, <1>7, <1>9, <1>11
<1>14. /\ op' \in OpType /\ op'.todo = u /\ op'.new = "none" /\ op'.outs = outs
       /\ op'.name = op.name /\ op'.phase = op.phase /\ op'.ok = op.ok
  BY <1>1, <1>2, <1>12, <1>13 DEF OpType
<1>15. Down(op', live, fw)
  <2>1. \A s \in (Core \cup {"naive", "dpi"} \cup outs) \cap live : Has(u, "stop", s)
    BY <1>6, <1>12
  <2>2. \A p \in Peer, c \in Core : Has(u, "stop", p) => ~Has(u, "stop", c)
    BY <1>12, NoService
  <2>3. QED
    BY <1>12, <1>14, <2>1, <2>2 DEF Down
<1>16. Course(op', live', fw', Known')
  <2>1. op.phase = "stop" => op.ok
    BY DEF ServiceInv, Course
  <2>2. op.name # "start"
    BY <1>4 DEF ServiceInv, Course
  <2>3. QED
    BY <1>1, <1>4, <1>14, <1>15, <2>1, <2>2 DEF Course
<1>17. Types' /\ Files' /\ Waiting(op')
  BY <1>1, <1>14, FilesSame DEF ServiceInv, Types, Waiting
<1>18. QED
  BY <1>1, <1>4, <1>16, <1>17, Within

\* Remove: the rules are gone unless the command was interrupted.
LEMMA StepRemove == ASSUME ServiceInv, Remove PROVE ServiceInv'
<1>1. /\ op.todo # <<>> /\ Head(op.todo).do = "remove" /\ fw' = (IF op.cut THEN fw ELSE "none") /\ Go("none")
      /\ UNCHANGED <<live, lost, pid, conf, read, done, died, mixed, bare>>
  BY DEF Remove, At, procs, hist
<1>2. op \in OpType /\ op.todo \in Seq(StepType)
  BY <1>1, First
<1>3. /\ op.name # "idle"
      /\ \/ op.phase = "stop" /\ Down(op, live, fw)
         \/ op.phase = "start" /\ ~op.ok /\ op.core \in Core /\ Back(op, fw)
      /\ op.name = "restart" /\ op.phase = "start" => live \cap Core \subseteq {op.core}
  BY <1>1, InStop DEF StartKinds, Launches
<1>4. /\ op' \in OpType /\ op'.todo = Past("none") /\ op'.new = "none" /\ Waiting(op')
      /\ op'.name = op.name /\ op'.phase = op.phase /\ op'.core = op.core /\ op'.outs = op.outs
      /\ op'.cut = op.cut /\ op'.ok = op.ok /\ op'.fw = op.fw
  BY <1>1, <1>2, GoIs
<1>5. PICK t : t = op.todo
  OBVIOUS
<1>6. PICK u : u = Past("none")
  OBVIOUS
<1>7. /\ \A w, x : Has(u, w, x) => Has(t, w, x)
      /\ \A w, x : Has(t, w, x) /\ w # "remove" => Has(u, w, x)
      /\ \A kinds : Only(t, kinds) => Only(u, kinds)
      /\ Closed(t) => Closed(u)
  BY <1>1, <1>2, <1>5, <1>6, PastIs
<1>8. op.cut \/ fw' = "none"
  BY <1>1
<1>9. Down(op, live, fw) => Down(op', live, fw')
  BY <1>4, <1>5, <1>6, <1>7, <1>8 DEF Down
<1>10. Back(op, fw) => Back(op', fw')
  BY <1>4, <1>5, <1>6, <1>7, <1>8 DEF Back
<1>11. (op.phase = "stop" => op.ok) /\ (op.name = "start" => op.phase = "start") /\ (op.name = "stop" => op.phase = "stop")
  BY DEF ServiceInv, Course
<1>12. Course(op', live', fw', Known')
  BY <1>1, <1>3, <1>4, <1>9, <1>10, <1>11 DEF Course
<1>13. Types' /\ Files'
  BY <1>1, <1>4, FilesSame DEF ServiceInv, Types, Rules
<1>14. QED
  BY <1>1, <1>3, <1>4, <1>12, <1>13, Within

-----------------------------------------------------------------------------
(* From one command to the next.                                           *)

\* The invariant after a step that may give a result.
LEMMA Holds ==
  ASSUME Types', Files', Waiting(op'), Course(op', live', fw', Known'), Results'
  PROVE  ServiceInv'
<1>1. Course(op, live, fw, Known)'
  BY DEF Course, Down, Up, Back
<1>2. Waiting(op)'
  BY DEF Waiting
<1>3. QED
  BY <1>1, <1>2 DEF ServiceInv

\* An empty list has no step, and a command at its end waits for no process.
LEMMA Ended ==
  ASSUME ServiceInv, op.todo = <<>>
  PROVE  op.new = "none" /\ \A what, s : ~Has(op.todo, what, s)
<1>1. op.new = "none"
  BY DEF ServiceInv, Waiting
<1>2. DOMAIN op.todo = {}
  BY DEF ServiceInv
<1>3. QED
  BY <1>1, <1>2 DEF Has

\* Begin: the list of doStart leaves nothing out, and that of doStop either.
LEMMA StepBegin == ASSUME ServiceInv, NEW name \in Command, Begin(name) PROVE ServiceInv'
<1>1. /\ op' = IF name = "start"
                 THEN [Idle EXCEPT !.name = name, !.phase = "start", !.todo = StartSteps(conf),
                                   !.core = conf.core, !.outs = conf.outs, !.fw = fw]
                 ELSE [Idle EXCEPT !.name = name, !.todo = StopSteps, !.fw = fw]
      /\ done' = [done EXCEPT !.what = "none"] /\ died' = {}
      /\ UNCHANGED <<live, lost, pid, fw, conf, read, mixed, bare>>
  BY DEF Begin, procs
<1>2. name \in {"start", "stop", "restart"} /\ conf \in Conf /\ fw \in Rules /\ done \in DoneType
  BY CommandAssumption DEF ServiceInv, Types
<1>3. Files' /\ done' \in DoneType /\ done'.what = "none" /\ live' = live /\ fw' = fw
  BY <1>1, <1>2, FilesSame DEF DoneType
<1>4. Results'
  BY <1>3 DEF Results, StopLeavesNothing, FailedStartIsUndone
<1>5. CASE name = "start"
  <2>1. PICK t : t = StartSteps(conf)
    OBVIOUS
  <2>2. /\ t \in Seq(StepType) /\ Only(t, StartKinds) /\ Ordered(t)
        /\ \A s \in Svc : Has(t, "core", s) => s = conf.core
        /\ \A p \in conf.outs : Has(t, "peer", p)
    BY <1>2, <2>1, StartList
  <2>3. /\ op' \in OpType /\ op'.todo = t /\ op'.new = "none" /\ op'.name = "start" /\ op'.phase = "start"
        /\ op'.core = conf.core /\ op'.core \in Core /\ op'.outs = conf.outs /\ op'.fw = fw /\ op'.ok
    BY <1>1, <1>2, <1>5, <2>1, <2>2 DEF Idle, OpType, Conf
  <2>4. Up(op', fw, Known')
    BY <2>2, <2>3 DEF Up
  <2>5. Course(op', live', fw', Known') /\ Waiting(op')
    BY <1>3, <2>3, <2>4 DEF Course, Waiting
  <2>6. Types'
    BY <1>1, <1>3, <2>3 DEF ServiceInv, Types
  <2>7. QED
    BY <1>3, <1>4, <2>5, <2>6, Holds
<1>6. CASE name # "start"
  <2>1. PICK t : t = StopSteps
    OBVIOUS
  <2>2. /\ t \in Seq(StepType) /\ Only(t, {"stop", "load", "remove"}) /\ Closed(t) /\ Has(t, "load", "none")
        /\ \A s \in Core \cup {"naive", "dpi"} : Has(t, "stop", s)
        /\ \A p \in Peer : ~Has(t, "stop", p)
    BY <2>1, StopList
  <2>3. /\ op' \in OpType /\ op'.todo = t /\ op'.new = "none" /\ op'.name \in {"stop", "restart"}
        /\ op'.phase = "stop" /\ op'.outs = {} /\ op'.ok
    BY <1>1, <1>2, <1>6, <2>1, <2>2 DEF Idle, OpType
  <2>4. Down(op', live', fw')
    BY <2>2, <2>3 DEF Down
  <2>5. Course(op', live', fw', Known') /\ Waiting(op')
    BY <2>3, <2>4 DEF Course, Waiting
  <2>6. Types'
    BY <1>1, <1>3, <2>3 DEF ServiceInv, Types
  <2>7. QED
    BY <1>3, <1>4, <2>5, <2>6, Holds
<1>7. QED
  BY <1>5, <1>6

\* StartAgain: doStop of --restart is over, so no core lives when doStart begins.
LEMMA StepStartAgain == ASSUME ServiceInv, StartAgain PROVE ServiceInv'
<1>1. /\ op.name = "restart" /\ op.phase = "stop" /\ op.todo = <<>>
      /\ op' = [op EXCEPT !.phase = "start", !.todo = StartSteps(conf), !.core = conf.core,
                          !.outs = conf.outs, !.fw = fw]
      /\ UNCHANGED <<live, lost, pid, fw, conf, read, done, died, mixed, bare>>
  BY DEF StartAgain, procs, hist
<1>2. conf \in Conf /\ fw \in Rules /\ op \in OpType /\ op.new = "none"
  BY <1>1, Ended DEF ServiceInv, Types
<1>3. op.ok /\ live \cap Core = {}
  <2>1. op.ok /\ Down(op, live, fw)
    BY <1>1 DEF ServiceInv, Course
  <2>2. QED
    BY <1>1, <2>1, Ended DEF Down
<1>4. PICK t : t = StartSteps(conf)
  OBVIOUS
<1>5. /\ t \in Seq(StepType) /\ Only(t, StartKinds) /\ Ordered(t)
      /\ \A s \in Svc : Has(t, "core", s) => s = conf.core
      /\ \A p \in conf.outs : Has(t, "peer", p)
  BY <1>2, <1>4, StartList
<1>6. /\ op' \in OpType /\ op'.todo = t /\ op'.new = "none" /\ op'.name = "restart" /\ op'.phase = "start"
      /\ op'.core = conf.core /\ op'.core \in Core /\ op'.outs = conf.outs /\ op'.fw = fw /\ op'.ok
  BY <1>1, <1>2, <1>3, <1>4, <1>5 DEF OpType, Conf
<1>7. Up(op', fw', Known')
  BY <1>1, <1>5, <1>6 DEF Up
<1>8. Course(op', live', fw', Known') /\ Waiting(op')
  BY <1>1, <1>3, <1>6, <1>7 DEF Course, Waiting
<1>9. Types' /\ Files'
  BY <1>1, <1>6, FilesSame DEF ServiceInv, Types
<1>10. QED
  BY <1>1, <1>8, <1>9, Within

\* End: what the command has come to.
LEMMA StepEnd == ASSUME ServiceInv, End PROVE ServiceInv'
<1>1. /\ op.name # "idle" /\ op.todo = <<>> /\ op' = Idle
      /\ done' = [what |-> IF op.phase = "stop" THEN "stopped"
                           ELSE IF ~op.ok THEN "failed"
                           ELSE IF op.name = "restart" THEN "restarted" ELSE "started",
                  cut |-> op.cut, core |-> op.core, outs |-> op.outs, fw |-> op.fw]
      /\ UNCHANGED <<live, lost, pid, fw, conf, read, died, mixed, bare>>
  BY DEF End, procs
<1>2. op \in OpType /\ op.phase \in {"start", "stop"}
  BY DEF ServiceInv, Types, OpType
<1>3. \A what, s : ~Has(op.todo, what, s)
  BY <1>1, Ended
<1>4. /\ done'.what = IF op.phase = "stop" THEN "stopped"
                      ELSE IF ~op.ok THEN "failed"
                      ELSE IF op.name = "restart" THEN "restarted" ELSE "started"
      /\ done'.cut = op.cut /\ done'.core = op.core /\ done'.outs = op.outs /\ done'.fw = op.fw
  BY <1>1
<1>5. done' \in DoneType
  BY <1>1, <1>2 DEF DoneType, OpType
<1>6. StopLeavesNothing'
  <2>1. ASSUME done'.what = "stopped"
        PROVE  live' \cap (Core \cup {"naive", "dpi"} \cup done'.outs) = {} /\ (~done'.cut => fw' = "none")
    <3>1. op.phase = "stop"
      BY <1>4, <2>1
    <3>2. Down(op, live, fw)
      BY <1>1, <3>1 DEF ServiceInv, Course
    <3>3. QED
      BY <1>1, <1>3, <1>4, <3>2 DEF Down
  <2>2. ASSUME done'.what = "restarted" PROVE live' \cap Core \subseteq {done'.core}
    <3>1. op.name = "restart" /\ op.phase = "start"
      BY <1>2, <1>4, <2>2
    <3>2. QED
      BY <1>1, <1>4, <3>1 DEF ServiceInv, Course
  <2>3. QED
    BY <2>1, <2>2 DEF StopLeavesNothing
<1>7. FailedStartIsUndone'
  <2>1. ASSUME done'.what = "failed" PROVE op.phase = "start" /\ ~op.ok
    BY <1>2, <1>4, <2>1
  <2>2. ASSUME done'.what = "failed", ~done'.cut PROVE fw' = "none" \/ fw' = done'.fw
    <3>1. Back(op, fw)
      BY <1>1, <2>1, <2>2 DEF ServiceInv, Course
    <3>2. QED
      BY <1>1, <1>3, <1>4, <2>2, <3>1 DEF Back
  <2>3. QED
    BY <2>2 DEF FailedStartIsUndone
<1>8. /\ Idle \in OpType /\ Waiting(Idle) /\ Idle.name = "idle"
      /\ \A alive, rules, known : Course(Idle, alive, rules, known)
  BY IdleIs
<1>9. Results' /\ Waiting(op') /\ Course(op', live', fw', Known')
  BY <1>1, <1>6, <1>7, <1>8 DEF Results
<1>10. Types' /\ Files'
  BY <1>1, <1>5, <1>8, FilesSame DEF ServiceInv, Types
<1>11. QED
  BY <1>9, <1>10, Holds

\* Interrupt: what an interrupted command owes less.
LEMMA StepInterrupt == ASSUME ServiceInv, Interrupt PROVE ServiceInv'
<1>1. /\ op.name # "idle" /\ op' = [op EXCEPT !.cut = TRUE]
      /\ UNCHANGED <<live, lost, pid, fw, conf, read, done, died, mixed, bare>>
  BY DEF Interrupt, procs, hist
<1>2. op \in OpType
  BY DEF ServiceInv, Types
<1>3. /\ op' \in OpType /\ op'.todo = op.todo /\ op'.new = op.new /\ op'.name = op.name /\ op'.phase = op.phase
      /\ op'.core = op.core /\ op'.outs = op.outs /\ op'.cut /\ op'.ok = op.ok /\ op'.fw = op.fw
  BY <1>1, <1>2 DEF OpType
<1>4. Waiting(op')
  BY <1>3 DEF ServiceInv, Waiting
<1>5. /\ Down(op, live, fw) => Down(op', live, fw)
      /\ Up(op, fw, Known) => Up(op', fw, Known)
      /\ Back(op, fw) => Back(op', fw)
  BY <1>3 DEF Down, Up, Back
<1>6. Known' = Known /\ live' = live /\ fw' = fw
  BY <1>1 DEF Known
<1>7. Course(op', live', fw', Known')
  BY <1>3, <1>5, <1>6 DEF ServiceInv, Course
<1>8. Types' /\ Files'
  BY <1>1, <1>3, FilesSame DEF ServiceInv, Types
<1>9. QED
  BY <1>1, <1>4, <1>7, <1>8, Within

\* Killed: a command that is killed has no result.
LEMMA StepKilled == ASSUME ServiceInv, Killed PROVE ServiceInv'
<1>1. op.name # "idle" /\ op' = Idle /\ UNCHANGED <<live, lost, pid, fw, conf, read, done, died, mixed, bare>>
  BY DEF Killed, procs, hist
<1>2. /\ Idle \in OpType /\ Waiting(Idle) /\ Idle.name = "idle"
      /\ \A alive, rules, known : Course(Idle, alive, rules, known)
  BY IdleIs
<1>3. Waiting(op') /\ Course(op', live', fw', Known')
  BY <1>1, <1>2
<1>4. Types' /\ Files'
  BY <1>1, <1>2, FilesSame DEF ServiceInv, Types
<1>5. QED
  BY <1>1, <1>3, <1>4, Within

\* KilledAtFork: a process without a file, and no command.
LEMMA StepKilledAtFork == ASSUME ServiceInv, KilledAtFork PROVE ServiceInv'
<1>1. /\ op.todo # <<>> /\ Head(op.todo).do \in Launches
      /\ op' = Idle /\ UNCHANGED <<fw, conf, read, done, died>>
  BY DEF KilledAtFork, Launching, At
<1>2. PICK s \in Head(op.todo).on : /\ ~Running(s) /\ bare' = bare \cup {s}
                                   /\ \E same \in SUBSET Stale(s) : Spawn(s, same)
  BY DEF KilledAtFork
<1>3. s \in Svc
  BY <1>1, <1>2, First DEF StepType, Launches, Single
<1>4. PICK same \in SUBSET Stale(s) : Spawn(s, same)
  BY <1>2
<1>5. PICK own \in {{}, {s}} : own = {} /\ Spawn(s, same \cup own)
  <2>1. same \cup {} = same
    OBVIOUS
  <2>2. QED
    BY <1>4, <2>1
<1>6. /\ Files' /\ pid' \in [Svc -> Svc \cup {"none", "dead"}]
      /\ live' = live \cup own /\ lost' = lost \cup ({s} \ own) /\ mixed' \subseteq Svc
  BY <1>2, <1>3, <1>5, FilesSpawn
<1>7. /\ Idle \in OpType /\ Waiting(Idle) /\ Idle.name = "idle"
      /\ \A alive, rules, known : Course(Idle, alive, rules, known)
  BY IdleIs
<1>8. op.name # "idle"
  BY <1>1, InStart DEF StartKinds
<1>9. Waiting(op') /\ Course(op', live', fw', Known')
  BY <1>1, <1>7
<1>10. Types'
  BY <1>1, <1>2, <1>3, <1>5, <1>6, <1>7 DEF ServiceInv, Types
<1>11. QED
  BY <1>1, <1>6, <1>8, <1>9, <1>10, Within

\* Reboot: no file names a process any more.
LEMMA StepReboot == ASSUME ServiceInv, Reboot PROVE ServiceInv'
<1>1. /\ live' = {} /\ lost' = {} /\ fw' = "none"
      /\ pid' = [s \in Svc |-> IF Running(s) THEN "dead" ELSE pid[s]]
      /\ op' = Idle /\ read' = "none" /\ died' = {}
      /\ done' = [done EXCEPT !.what = "none"]
      /\ UNCHANGED <<conf, mixed, bare>>
  BY DEF Reboot
<1>2. /\ Idle \in OpType /\ Waiting(Idle) /\ Idle.name = "idle"
      /\ \A alive, rules, known : Course(Idle, alive, rules, known)
  BY IdleIs
<1>3. pid \in [Svc -> Svc \cup {"none", "dead"}] /\ done \in DoneType
  BY DEF ServiceInv, Types
<1>4. \A s \in Svc : pid'[s] \notin Svc
  BY <1>1, <1>3, NoService DEF Running
<1>5. pid' \in [Svc -> Svc \cup {"none", "dead"}] /\ done' \in DoneType /\ done'.what = "none"
  BY <1>1, <1>3 DEF DoneType
<1>6. Files'
  BY <1>1, <1>4 DEF Files, PidFilesAreTrue, Running
<1>7. Types'
  BY <1>1, <1>2, <1>5 DEF ServiceInv, Types, Rules
<1>8. Results'
  BY <1>5 DEF Results, StopLeavesNothing, FailedStartIsUndone
<1>9. QED
  BY <1>1, <1>2, <1>6, <1>7, <1>8, Holds

-----------------------------------------------------------------------------
(* Around the commands.                                                    *)

\* Crash: the files that named the process are stale.
LEMMA StepCrash == ASSUME ServiceInv, NEW s \in Svc, Crash(s) PROVE ServiceInv'
<1>1. /\ live' = live \ {s} /\ lost' = lost \ {s} /\ pid' = Buried(s, "none") /\ died' = died \cup {s}
      /\ UNCHANGED <<fw, conf, op, read, done, mixed, bare>>
  BY DEF Crash
<1>2. Files' /\ pid' \in [Svc -> Svc \cup {"none", "dead"}]
  BY <1>1, NoService, FilesBuried
<1>3. Types'
  BY <1>1, <1>2 DEF ServiceInv, Types
<1>4. Known \subseteq Known' /\ live' \subseteq live
  BY <1>1 DEF Known
<1>5. QED
  BY <1>1, <1>2, <1>3, <1>4, Around

\* What leaves processes, files and the command alone.
LEMMA StepAround ==
  ASSUME ServiceInv, SwitchCore \/ Configure \/ \E s \in Svc : ReadsStale(s)
  PROVE  ServiceInv'
<1>1. UNCHANGED <<live, lost, pid, fw, op, done, died, mixed, bare>>
  BY DEF SwitchCore, Configure, ReadsStale, procs, hist
<1>2. conf \in Conf /\ read \in Svc \cup {"none"}
  BY DEF ServiceInv, Types
<1>3. conf' \in Conf
  <2>1. CASE SwitchCore
    BY <1>2, <2>1 DEF SwitchCore, Conf
  <2>2. CASE Configure
    BY <1>2, <2>2 DEF Configure, Conf
  <2>3. CASE \E s \in Svc : ReadsStale(s)
    BY <1>2, <2>3 DEF ReadsStale
  <2>4. QED
    BY <2>1, <2>2, <2>3
<1>4. read' \in Svc \cup {"none"}
  BY <1>2 DEF SwitchCore, Configure, ReadsStale
<1>5. Types' /\ Files'
  BY <1>1, <1>3, <1>4, FilesSame DEF ServiceInv, Types
<1>6. Known' = Known
  BY <1>1 DEF Known
<1>7. QED
  BY <1>1, <1>5, <1>6, Around

\* ReadRemoves: whoever the file named by then lives on, and no file says so.
LEMMA StepReadRemoves == ASSUME ServiceInv, ReadRemoves PROVE ServiceInv'
<1>1. /\ read # "none" /\ pid' = [pid EXCEPT ![read] = "none"] /\ read' = "none"
      /\ live' = live \ ({read} \cap {pid[read]})
      /\ lost' = lost \cup (({read} \cap {pid[read]}) \cap live)
      /\ UNCHANGED <<fw, conf, op, done, died, mixed, bare>>
  BY DEF ReadRemoves, hist
<1>2. read \in Svc /\ live \subseteq Svc /\ lost \subseteq Svc
  BY <1>1 DEF ServiceInv, Types
<1>3. read \notin live'
  BY <1>1, <1>2 DEF ServiceInv, Files, PidFilesAreTrue
<1>4. live' \subseteq live /\ live \cup lost \subseteq live' \cup lost' /\ lost' \subseteq Svc
  BY <1>1, <1>2
<1>5. Files' /\ pid' \in [Svc -> Svc \cup {"none", "dead"}]
  BY <1>1, <1>2, <1>3, <1>4, FilesLess
<1>6. Types'
  BY <1>1, <1>4, <1>5 DEF ServiceInv, Types
<1>7. Known \subseteq Known'
  BY <1>1, <1>4 DEF Known
<1>8. QED
  BY <1>1, <1>4, <1>5, <1>6, <1>7, Around

-----------------------------------------------------------------------------
(* The invariant.                                                          *)

\* At first nothing runs and no file is there.
LEMMA InvInit == Init => ServiceInv
<1> SUFFICES ASSUME Init PROVE ServiceInv
  OBVIOUS
<1>1. /\ live = {} /\ lost = {} /\ pid = [s \in Svc |-> "none"] /\ fw = "none" /\ conf \in Conf
      /\ op = Idle /\ read = "none" /\ died = {} /\ mixed = {} /\ bare = {}
      /\ done = [what |-> "stopped", cut |-> FALSE, core |-> "none", outs |-> {}, fw |-> "none"]
  BY DEF Init
<1>2. /\ Idle \in OpType /\ Waiting(Idle) /\ Idle.name = "idle"
      /\ \A alive, rules, known : Course(Idle, alive, rules, known)
  BY IdleIs
<1>3. done \in DoneType
  BY <1>1 DEF DoneType, Rules
<1>4. Types
  BY <1>1, <1>2, <1>3 DEF Types, Rules
<1>5. Files
  BY <1>1, NoService DEF Files, PidFilesAreTrue, Running
<1>6. Results
  BY <1>1, <1>2 DEF Results, StopLeavesNothing, FailedStartIsUndone
<1>7. QED
  BY <1>1, <1>2, <1>4, <1>5, <1>6 DEF ServiceInv

\* Every step of the commands, the processes, the readers and the user preserves it.
LEMMA InvNext == ServiceInv /\ [Next]_vars => ServiceInv'
<1> SUFFICES ASSUME ServiceInv, [Next]_vars PROVE ServiceInv'
  OBVIOUS
<1>1. CASE \E name \in Command : Begin(name)
  BY <1>1, StepBegin
<1>2. CASE StartFound \/ StartForks \/ StartBreaks \/ StartSettles
  BY <1>2, StepStartFound, StepStartForks, StepStartBreaks, StepStartSettles
<1>3. CASE Prepare \/ PrepareFails \/ Preflight \/ PreflightFails \/ Attach \/ AttachFails
  BY <1>3, StepPrepare
<1>4. CASE Apply \/ ApplyFails
  BY <1>4, StepApply, StepApplyFails
<1>5. CASE Stop \/ Load \/ Remove
  BY <1>5, StepStop, StepLoad, StepRemove
<1>6. CASE StartAgain \/ End
  BY <1>6, StepStartAgain, StepEnd
<1>7. CASE Interrupt \/ Killed \/ KilledAtFork \/ Reboot
  BY <1>7, StepInterrupt, StepKilled, StepKilledAtFork, StepReboot
<1>8. CASE SwitchCore \/ Configure \/ \E s \in Svc : ReadsStale(s)
  BY <1>8, StepAround
<1>9. CASE \E s \in Svc : Crash(s)
  BY <1>9, StepCrash
<1>10. CASE ReadRemoves
  BY <1>10, StepReadRemoves
<1>11. CASE UNCHANGED vars
  <2>1. UNCHANGED <<live, lost, pid, fw, conf, op, read, done, died, mixed, bare>>
    BY <1>11 DEF vars, procs, hist
  <2>2. Types' /\ Files' /\ Known' = Known
    BY <2>1, FilesSame DEF ServiceInv, Types, Known
  <2>3. QED
    BY <2>1, <2>2, Around
<1>12. QED
  BY <1>1, <1>2, <1>3, <1>4, <1>5, <1>6, <1>7, <1>8, <1>9, <1>10, <1>11 DEF Next

\* ServiceInv holds whatever the cores and outbounds, the commands given, and
\* the crashes, restarts and interruptions around them.
THEOREM Invariant == Spec => []ServiceInv
BY InvInit, InvNext, PTL DEF Spec

\* The types of the model.
THEOREM TypeCorrect == Spec => []TypeOK
<1>1. ServiceInv => TypeOK
  BY DEF ServiceInv, Types, Waiting, OpType, TypeOK, Rules
<1>2. QED
  BY <1>1, Invariant, PTL

\* The PID file that names a process names one of its program that runs, and
\* every process is named by its own, unless its command was killed before it
\* wrote the file or a reader of the status took the file away.
THEOREM FilesNameTheLiving == Spec => []PidFilesAreTrue
<1>1. ServiceInv => PidFilesAreTrue
  BY DEF ServiceInv, Files
<1>2. QED
  BY <1>1, Invariant, PTL

\* After --stop nothing that PID files name is left, whichever cores were
\* started before, and after --restart no core but the active one.
THEOREM StopIsComplete == Spec => []StopLeavesNothing
<1>1. ServiceInv => StopLeavesNothing
  BY DEF ServiceInv, Results
<1>2. QED
  BY <1>1, Invariant, PTL

\* A --start that fails takes its rules back, whichever step it was that failed.
THEOREM FailureIsUndone == Spec => []FailedStartIsUndone
<1>1. ServiceInv => FailedStartIsUndone
  BY DEF ServiceInv, Results
<1>2. QED
  BY <1>1, Invariant, PTL

-----------------------------------------------------------------------------
(* The order of peers and cores.                                           *)

\* What a step may not do to cores and peers.
InOrder ==
  /\ \A c \in Core : c \in (live' \ live) \cup ((lost' \ lost) \ live) => \A p \in op.outs : p \in live \cup lost \cup died \cup mixed
  /\ StopsPeer /\ op.phase = "stop" => live \cap Core = {}

\* A process that comes to life is forked by the step the command is at; when
\* that is the core, no peer is left on the list.
LEMMA CoreAfterPeers ==
  ASSUME ServiceInv, [Next]_vars, NEW c \in Core,
         c \in (live' \ live) \cup ((lost' \ lost) \ live)
  PROVE  \A p \in op.outs : p \in Known
<1>1. StartForks \/ KilledAtFork
  <2>1. (live' \subseteq live /\ lost' \subseteq lost \cup live) \/ StartForks \/ KilledAtFork
    BY DEF Next, vars, procs, hist, Begin, StartFound, StartBreaks, StartSettles, Prepare, PrepareFails, Preflight,
           PreflightFails, Apply, ApplyFails, Attach, AttachFails, Stop, Terminate, Load, Remove, StartAgain, End,
           Interrupt, Killed, Reboot, SwitchCore, Configure, Crash, ReadsStale, ReadRemoves
  <2>2. QED
    BY <2>1
<1>2. op.todo # <<>> /\ Head(op.todo).do \in Launches
  BY <1>1 DEF StartForks, KilledAtFork, Launching, At
<1>3. PICK s \in Head(op.todo).on : \E named : Spawn(s, named)
  BY <1>1 DEF StartForks, KilledAtFork, Fork
<1>4. c = s
  BY <1>3 DEF Spawn
<1>5. op.todo \in Seq(StepType) /\ Head(op.todo) \in StepType
  BY <1>2, First
<1>6. Head(op.todo).do = "core"
  BY <1>2, <1>3, <1>4, <1>5, NoService DEF StepType, Launches
<1>7. Up(op, fw, Known)
  BY <1>6, <1>2, InStart DEF StartKinds, Launches
<1>8. \A p : ~Has(op.todo, "peer", p)
  <2>1. PICK t \in Seq(StepType) : t = op.todo
    BY <1>5
  <2>2. DOMAIN t = 1..Len(t) /\ Len(t) \in Nat /\ t[1] = Head(t) /\ 1 \in DOMAIN t
    BY <1>2, <2>1, Elements
  <2>3. \A i \in DOMAIN t : i = 1 \/ 1 < i
    BY <2>2
  <2>4. Ordered(t)
    BY <1>7, <2>1 DEF Up
  <2>5. \A i \in DOMAIN t : t[i].do \in Late
    BY <1>6, <2>1, <2>2, <2>3, <2>4 DEF Ordered, Late
  <2>6. QED
    BY <2>1, <2>5 DEF Has, Late
<1>9. QED
  BY <1>7, <1>8 DEF Up

\* A process that no one lost and that did not die was stopped by a step of the
\* command; when doStop stops a peer, no core is left on its list.
LEMMA CoresBeforePeers ==
  ASSUME ServiceInv, [Next]_vars, StopsPeer, op.phase = "stop"
  PROVE  live \cap Core = {}
<1>1. PICK p \in Peer : p \in live /\ p \notin live' /\ p \notin lost' /\ p \notin died' /\ op'.name # "idle"
  BY DEF StopsPeer
<1>2. Stop
  <2>1. ASSUME NEW s \in Svc, Crash(s) PROVE FALSE
    BY <1>1, <2>1 DEF Crash
  <2>2. ~ReadRemoves
    BY <1>1 DEF ReadRemoves
  <2>3. ~Reboot
    BY <1>1 DEF Reboot, Idle
  <2>4. live \subseteq live' \/ Stop \/ Reboot \/ ReadRemoves \/ \E s \in Svc : Crash(s)
    BY DEF Next, vars, procs, hist, Begin, StartFound, StartForks, Fork, Spawn, KilledAtFork, StartBreaks, StartSettles, Prepare,
           PrepareFails, Preflight, PreflightFails, Apply, ApplyFails, Attach, AttachFails, Load, Remove, StartAgain,
           End, Interrupt, Killed, SwitchCore, Configure, ReadsStale
  <2>5. QED
    BY <1>1, <2>1, <2>2, <2>3, <2>4
<1>3. op.todo # <<>> /\ Head(op.todo).do = "stop"
  BY <1>2 DEF Stop, At
<1>4. PICK s \in Head(op.todo).on : Terminate(s)
  BY <1>2 DEF Stop
<1>5. s \in Svc /\ Has(op.todo, "stop", s)
  BY <1>3, <1>4, First DEF StepType, Single
<1>6. pid[s] = p
  BY <1>1, <1>4 DEF Terminate
<1>7. s \in Peer
  <2>1. p \in Svc
    BY NoService
  <2>2. SameProgram(s, p)
    BY <1>5, <1>6, <2>1 DEF ServiceInv, Files, PidFilesAreTrue, Running
  <2>3. QED
    BY <2>2 DEF SameProgram
<1>8. Down(op, live, fw)
  BY <1>3, InStop DEF StartKinds, Launches
<1>9. QED
  BY <1>5, <1>7, <1>8 DEF Down

\* Inv-Peer-Order: no core starts before the peers of its outbounds, and in
\* doStop no peer is stopped while a core lives.
THEOREM PeersComeFirst == Spec => PeersOutliveCores
<1>1. ServiceInv /\ [Next]_vars => InOrder
  BY CoreAfterPeers, CoresBeforePeers DEF InOrder, Known
<1>2. QED
  BY <1>1, Invariant, PTL DEF Spec, PeersOutliveCores, InOrder
=============================================================================
