---------------------------- MODULE PolicyProofs ----------------------------
(***************************************************************************)
(* Theorems about Policy: types, what a --start or a tick that succeeded   *)
(* leaves behind, and what an --uninstall leaves of the policy.            *)
(***************************************************************************)
EXTENDS Policy, TLAPS

Ensuring == {"start", "boot", "tick"}
EnsureAt == {"wan", "show", "showrc", "delete", "create", "store", "rules"}
UninstallAt == {"stop", "hosts", "unset", "drop", "files"}
OpType == Ensuring \cup {"idle", "uninstall"}
AtType == EnsureAt \cup UninstallAt \cup {"idle", "save"}

DocType == [mark : Marks \cup {None}, wan : Ifaces \cup {None}]
JobType == [op : OpType, at : AtType, st : DocType, made : BOOLEAN, mark : Marks \cup {None},
            hosts : SUBSET Hosts, clean : BOOLEAN]
EndType == [op : OpType, well : BOOLEAN, clean : BOOLEAN]

Types ==
  /\ run \in Config /\ saved \in Config /\ wan \in Ifaces \cup {None}
  /\ doc \in DocType /\ rules \in Marks \cup {None}
  /\ up \in BOOLEAN /\ wd \in BOOLEAN /\ calm \in BOOLEAN
  /\ job \in JobType /\ ended \in EndType

\* Where an operation can be, and what it has in hand there.
Shape ==
  /\ job.op = "idle" <=> job.at = "idle"
  /\ job.at \in EnsureAt => job.op \in Ensuring
  /\ job.at \in UninstallAt => job.op = "uninstall"
  /\ job.at \in {"showrc", "store"} \/ (job.at = "save" /\ job.op # "uninstall") => job.mark # None
  /\ job.at = "rules" /\ job.op # "tick" => job.mark # None
  /\ job.at \in {"show", "showrc", "delete", "create", "store"} \/ (job.at = "save" /\ job.op # "uninstall")
       => job.st.wan # None
  /\ job.made => job.at \in {"show", "showrc", "save", "store", "rules"} /\ job.op # "uninstall"
  /\ wd => up
  /\ job.op \in {"start", "boot"} => ~up
  /\ job.op # "idle" => ended.op = "idle"

\* The operation has a mark that it read in NDM and not given up since.
HasMark == job.op \in Ensuring /\ (job.at \in {"showrc", "save", "store"} \/ (job.at = "rules" /\ job.mark # None))

\* What is so while nobody else acts: the mark in hand is the policy's, the WAN
\* was permitted or found permitted, what was saved is what runs.
Promise ==
  /\ HasMark => run.policy # None /\ run.policy.mark = job.mark
  /\ (job.made /\ job.at \in {"show", "showrc"}) \/ (HasMark /\ job.at # "showrc")
       => run.policy # None /\ job.st.wan \in run.policy.permit
  /\ HasMark /\ job.at \in {"store", "rules"} /\ job.clean => saved = run

\* After saveState the document in hand has the mark, and if it was written it
\* is state.json.
Stored ==
  HasMark /\ job.at = "rules" => job.st.mark = job.mark /\ (job.clean => doc = job.st)

\* How far an --uninstall without a failure has come.
Forgotten ==
  job.op = "uninstall" /\ job.clean =>
    /\ job.at = "unset" => run.bound \subseteq job.hosts
    /\ job.at \in {"drop", "save", "files"} => run.bound = {}
    /\ job.at \in {"save", "files"} => run.policy = None
    /\ job.at = "files" => saved = run

\* The inductive part: an operation under way, or none.
Course == Types /\ Shape /\ Stored /\ (calm => Promise /\ Forgotten)
PolicyInv == Course /\ StartMakesPolicy /\ UninstallForgets

-----------------------------------------------------------------------------
(* What a step has to show.                                                *)

\* The mark of an operation that has one is not None.
LEMMA MarkInHand == Shape /\ HasMark => job.mark # None
BY DEF Shape, HasMark, Ensuring

\* While an operation is under way nothing is promised of its end.
LEMMA OnTheWay == ASSUME Course', job'.op # "idle" PROVE PolicyInv'
BY DEF Course, Shape, PolicyInv, StartMakesPolicy, UninstallForgets, Ensuring

\* The fields of a job at rest.
LEMMA AtRest == /\ Idle \in JobType /\ Fresh \in DocType /\ Nothing \in EndType
                /\ Idle.op = "idle" /\ Idle.at = "idle" /\ Idle.st = Fresh /\ ~Idle.made
                /\ Idle.mark = None /\ Idle.hosts = {} /\ Idle.clean
                /\ Nothing.op = "idle" /\ ~Nothing.well
BY DEF Idle, Nothing, Fresh, JobType, EndType, DocType, OpType, AtType, EnsureAt, UninstallAt, Ensuring

\* An operation that is over leaves only its end to show.
LEMMA Over ==
  ASSUME run' \in Config, saved' \in Config, wan' \in Ifaces \cup {None}, doc' \in DocType,
         rules' \in Marks \cup {None}, up' \in BOOLEAN, wd' \in BOOLEAN, calm' \in BOOLEAN,
         job' = Idle, ended' \in EndType, wd' => up', StartMakesPolicy', UninstallForgets'
  PROVE  PolicyInv'
<1>1. Types'
  BY AtRest DEF Types
<1>2. Shape' /\ Stored' /\ Promise' /\ Forgotten'
  BY AtRest DEF Shape, Stored, Promise, Forgotten, HasMark, EnsureAt, UninstallAt, Ensuring
<1>3. QED
  BY <1>1, <1>2 DEF PolicyInv, Course

\* What NDM's configuration becomes.
LEMMA Requests ==
  ASSUME run \in Config, job \in JobType
  PROVE  /\ Deleted \in Config /\ Deleted.policy = None /\ Deleted.bound = run.bound
         /\ job.st.wan # None =>
              /\ Created \in Config /\ Created.policy # None
              /\ job.st.wan \in Created.policy.permit
<1>1. Deleted \in Config /\ Deleted.policy = None /\ Deleted.bound = run.bound
  BY DEF Deleted, Config, Policies
<1>2. ASSUME job.st.wan # None
      PROVE  Created \in Config /\ Created.policy # None /\ job.st.wan \in Created.policy.permit
  <2>1. job.st.wan \in Ifaces
    BY <1>2 DEF JobType, DocType
  <2>2. CASE run.policy = None
    <3>1. Created = [run EXCEPT !.policy = [mark |-> None, permit |-> {job.st.wan}]]
      BY <2>2 DEF Created
    <3>2. [mark |-> None, permit |-> {job.st.wan}] \in [mark : Marks \cup {None}, permit : SUBSET Ifaces]
      BY <2>1
    <3>3. QED
      BY <3>1, <3>2, NoneAssumption DEF Config, Policies
  <2>3. CASE run.policy # None
    <3> DEFINE p == [mark |-> run.policy.mark, permit |-> run.policy.permit \cup {job.st.wan}]
    <3>1. Created = [run EXCEPT !.policy = p]
      BY <2>3 DEF Created
    <3>2. run.policy \in [mark : Marks \cup {None}, permit : SUBSET Ifaces]
      BY <2>3 DEF Config, Policies
    <3>3. p \in [mark : Marks \cup {None}, permit : SUBSET Ifaces] /\ job.st.wan \in p.permit
      BY <2>1, <3>2
    <3>4. QED
      BY <3>1, <3>3, NoneAssumption DEF Config, Policies
  <2>4. QED
    BY <2>2, <2>3
<1>3. QED
  BY <1>1, <1>2

-----------------------------------------------------------------------------
(* Requests of --start and of a tick.                                      *)

\* Whatever became of the policy, an operation that gives up promises nothing.
LEMMA GiveUpKeeps ==
  ASSUME Course, job.op \in Ensuring, GiveUp, run' \in Config, UNCHANGED <<saved, wan, doc, rules, up, wd, calm>>
  PROVE  PolicyInv'
<1>1. CASE job.op = "tick"
  <2>1. job' \in JobType /\ job'.op = "tick" /\ job'.at = "rules" /\ job'.mark = None /\ ~job'.clean
    BY <1>1 DEF GiveUp, Course, Types, JobType, AtType, EnsureAt
  <2>2. ended' = ended
    BY <1>1 DEF GiveUp
  <2>3. Course'
    BY <1>1, <2>1, <2>2 DEF Course, Types, Shape, Stored, Promise, Forgotten, HasMark, EnsureAt, UninstallAt, Ensuring
  <2>4. QED
    BY <2>1, <2>3, OnTheWay
<1>2. CASE job.op # "tick"
  <2>1. job' = Idle /\ ended' = [op |-> job.op, well |-> FALSE, clean |-> FALSE]
    BY <1>2 DEF GiveUp
  <2>2. ended' \in EndType /\ ~ended'.well /\ ended'.op \in Ensuring
    BY <2>1 DEF EndType, OpType, Ensuring
  <2>3. StartMakesPolicy' /\ UninstallForgets'
    BY <2>2 DEF StartMakesPolicy, UninstallForgets, Ensuring
  <2>4. QED
    BY <2>1, <2>2, <2>3, Over DEF Course, Types, Shape
<1>3. QED
  BY <1>1, <1>2

\* DetectWAN keeps the invariant.
LEMMA StepDetectWAN == ASSUME Course, NEW a \in Answers, DetectWAN(a) PROVE PolicyInv'
<1>1. job.at = "wan" /\ job.op \in Ensuring /\ UNCHANGED <<run, saved, wan, doc, rules, up, wd, calm>>
  BY DEF DetectWAN, At, Course, Shape, EnsureAt, ndm, service
<1>2. CASE GiveUp
  BY <1>1, <1>2, GiveUpKeeps DEF Course, Types
<1>3. CASE ~GiveUp
  <2>1. job' \in JobType /\ job'.at = "show" /\ job'.op = job.op /\ job'.made = job.made /\ job'.st.wan # None
    <3>1. CASE job.st.wan # None
      BY <1>1, <3>1 DEF DetectWAN, Goto, Course, Types, JobType, AtType, EnsureAt
    <3>2. CASE job.st.wan = None
      <4>1. job' = [job EXCEPT !.st.wan = wan, !.at = "show"] /\ wan # None
        BY <1>1, <1>3, <3>2 DEF DetectWAN
      <4>2. QED
        BY <4>1 DEF Course, Types, JobType, AtType, EnsureAt, DocType
    <3>3. QED
      BY <3>1, <3>2
  <2>2. ended' = ended
    BY <1>3 DEF DetectWAN
  <2>3. Course'
    BY <1>1, <2>1, <2>2 DEF Course, Types, Shape, Stored, Promise, Forgotten, HasMark, EnsureAt, UninstallAt, Ensuring
  <2>4. QED
    BY <1>1, <2>1, <2>3, OnTheWay DEF Ensuring
<1>4. QED
  BY <1>2, <1>3

\* Show keeps the invariant: the mark it read is the policy's.
LEMMA StepShow == ASSUME Course, NEW a \in Answers, Show(a) PROVE PolicyInv'
<1>1. job.at = "show" /\ job.op \in Ensuring /\ UNCHANGED <<run, saved, wan, doc, rules, up, wd, calm>>
  BY DEF Show, At, Course, Shape, EnsureAt, ndm, service
<1>2. CASE GiveUp
  BY <1>1, <1>2, GiveUpKeeps DEF Course, Types
<1>3. CASE ~GiveUp
  <2> DEFINE read == a = "ok" /\ MarkRead
             mark == IF read THEN run.policy.mark ELSE None
             at == IF read THEN "showrc" ELSE IF job.made THEN "show" ELSE "create"
  <2>1. job' = [job EXCEPT !.clean = @ /\ a = "ok", !.mark = mark, !.at = at] /\ ended' = ended
    BY <1>3 DEF Show
  <2>2. mark \in Marks \cup {None} /\ (read => mark # None /\ run.policy # None)
    BY DEF MarkRead, Course, Types, Config, Policies
  <2>3. /\ job' \in JobType /\ job'.op = job.op /\ job'.at = at /\ job'.mark = mark
        /\ job'.st = job.st /\ job'.made = job.made
    BY <2>1, <2>2 DEF Course, Types, JobType, AtType, EnsureAt
  <2> HIDE DEF read, mark, at
  <2>4. /\ read => at = "showrc" /\ mark = run.policy.mark /\ mark # None /\ run.policy # None
        /\ ~read => at = IF job.made THEN "show" ELSE "create"
    BY <2>2 DEF read, mark, at
  <2>5. Course'
    BY <1>1, <2>1, <2>3, <2>4 DEF Course, Types, Shape, Stored, Promise, Forgotten, HasMark, EnsureAt, UninstallAt, Ensuring
  <2>6. QED
    BY <1>1, <2>3, <2>5, OnTheWay DEF Ensuring
<1>4. QED
  BY <1>2, <1>3

\* ShowRC keeps the invariant: a policy that is kept permits the WAN.
LEMMA StepShowRC == ASSUME Course, NEW a \in Answers, ShowRC(a) PROVE PolicyInv'
<1>1. job.at = "showrc" /\ job.op \in Ensuring /\ UNCHANGED <<run, saved, wan, doc, rules, up, wd, calm>>
  BY DEF ShowRC, At, Course, Shape, EnsureAt, ndm, service
<1>2. CASE GiveUp
  BY <1>1, <1>2, GiveUpKeeps DEF Course, Types
<1>3. CASE ~GiveUp
  <2> DEFINE at == IF job.made \/ job.st.wan \in run.policy.permit THEN "save" ELSE "delete"
  <2>1. job' = [job EXCEPT !.at = at] /\ ended' = ended
    BY <1>3 DEF ShowRC, Goto
  <2>2. job' \in JobType /\ job' = [job EXCEPT !.at = job'.at] /\ job'.at = at
    BY <2>1 DEF Course, Types, JobType, AtType, EnsureAt
  <2>3. Course'
    BY <1>1, <2>1, <2>2 DEF Course, Types, Shape, Stored, Promise, Forgotten, HasMark, EnsureAt, UninstallAt, Ensuring
  <2>4. QED
    BY <1>1, <2>1, <2>2, <2>3, OnTheWay DEF Ensuring, Course, Types, JobType
<1>4. QED
  BY <1>2, <1>3

\* MarkTimeout keeps the invariant.
LEMMA StepMarkTimeout == ASSUME Course, MarkTimeout PROVE PolicyInv'
BY GiveUpKeeps DEF MarkTimeout, At, Course, Shape, Types, EnsureAt, ndm, service

\* Delete keeps the invariant.
LEMMA StepDelete == ASSUME Course, NEW a \in Answers, Delete(a) PROVE PolicyInv'
<1>1. job.at = "delete" /\ job.op \in Ensuring /\ UNCHANGED <<saved, wan, doc, rules, up, wd, calm>>
  BY DEF Delete, At, Course, Shape, EnsureAt, service
<1>2. run' \in Config
  BY Requests DEF Delete, Course, Types
<1>3. CASE GiveUp
  BY <1>1, <1>2, <1>3, GiveUpKeeps
<1>4. CASE ~GiveUp
  <2>1. job' = [job EXCEPT !.at = "create", !.clean = @ /\ a = "ok"] /\ ended' = ended
    BY <1>4 DEF Delete, Proceed
  <2>2. job' \in JobType /\ job'.op = job.op /\ job'.at = "create" /\ job'.st = job.st /\ job'.made = job.made
    BY <2>1 DEF Course, Types, JobType, AtType, EnsureAt
  <2>3. Course'
    BY <1>1, <1>2, <2>1, <2>2 DEF Course, Types, Shape, Stored, Promise, Forgotten, HasMark, EnsureAt, UninstallAt, Ensuring
  <2>4. QED
    BY <1>1, <2>2, <2>3, OnTheWay DEF Ensuring
<1>5. QED
  BY <1>3, <1>4

\* Create keeps the invariant: what was created permits the WAN.
LEMMA StepCreate == ASSUME Course, NEW a \in Answers, Create(a) PROVE PolicyInv'
<1>1. job.at = "create" /\ job.op \in Ensuring /\ UNCHANGED <<saved, wan, doc, rules, up, wd, calm>> /\ job.st.wan # None
  BY DEF Create, At, Course, Shape, EnsureAt, service
<1>2. run' \in Config
  BY <1>1, Requests DEF Create, Course, Types
<1>3. CASE a = "ok"
  <2>1. job' = [job EXCEPT !.at = "show", !.made = TRUE] /\ ended' = ended /\ run' = Created
    BY <1>3 DEF Create, Done
  <2>2. job' \in JobType /\ job'.op = job.op /\ job'.at = "show" /\ job'.st = job.st /\ job'.made
    BY <2>1 DEF Course, Types, JobType, AtType, EnsureAt
  <2>3. run'.policy # None /\ job'.st.wan \in run'.policy.permit
    BY <1>1, <2>1, <2>2, Requests DEF Course, Types
  <2>4. Course'
    BY <1>1, <1>2, <2>1, <2>2, <2>3 DEF Course, Types, Shape, Stored, Promise, Forgotten, HasMark, EnsureAt, UninstallAt, Ensuring
  <2>5. QED
    BY <1>1, <2>2, <2>4, OnTheWay DEF Ensuring
<1>4. CASE a # "ok"
  BY <1>1, <1>2, <1>4, GiveUpKeeps DEF Create
<1>5. QED
  BY <1>3, <1>4

\* SaveConfig keeps the invariant, in --start as in --uninstall.
LEMMA StepSaveConfig == ASSUME Course, NEW a \in Answers, SaveConfig(a) PROVE PolicyInv'
<1>1. job.at = "save" /\ UNCHANGED <<run, wan, doc, rules, up, wd, calm, ended>>
  BY DEF SaveConfig, At, service
<1>2. job.op # "idle" /\ job.op \in Ensuring \cup {"uninstall"}
  BY <1>1 DEF Course, Types, Shape, JobType, OpType, Ensuring
<1>3. saved' \in Config /\ (a = "ok" => saved' = run)
  BY DEF SaveConfig, Saves, Done, Course, Types
<1> DEFINE at == IF job.op = "uninstall" THEN "files" ELSE "store"
<1>4. job' = [job EXCEPT !.at = at, !.clean = @ /\ a = "ok"]
  BY DEF SaveConfig, Proceed
<1>5. /\ job' \in JobType /\ job'.op = job.op /\ job'.at = at /\ job'.st = job.st /\ job'.made = job.made
      /\ job'.mark = job.mark /\ job'.hosts = job.hosts /\ (job'.clean => job.clean /\ a = "ok")
  BY <1>4 DEF Course, Types, JobType, AtType, EnsureAt, UninstallAt
<1>6. Course'
  <2>1. CASE job.op = "uninstall"
    BY <1>1, <1>3, <1>5, <2>1 DEF Course, Types, Shape, Stored, Promise, Forgotten, HasMark, EnsureAt, UninstallAt, Ensuring
  <2>2. CASE job.op \in Ensuring
    <3>1. Types' /\ Shape' /\ Stored'
      BY <1>1, <1>3, <1>5, <2>2 DEF Course, Types, Shape, Stored, HasMark, EnsureAt, UninstallAt, Ensuring
    <3>2. ASSUME calm PROVE Promise' /\ Forgotten'
      BY <1>1, <1>3, <1>5, <2>2, <3>2 DEF Course, Promise, Forgotten, HasMark, Ensuring
    <3>3. QED
      BY <1>1, <3>1, <3>2 DEF Course
  <2>3. QED
    BY <1>2, <2>1, <2>2
<1>7. QED
  BY <1>2, <1>5, <1>6, OnTheWay

\* Store keeps the invariant.
LEMMA StepStore == ASSUME Course, NEW a \in Answers, Store(a) PROVE PolicyInv'
<1>1. job.at = "store" /\ job.op \in Ensuring /\ UNCHANGED <<run, saved, wan, rules, up, wd, calm, ended>>
  BY DEF Store, At, Course, Shape, EnsureAt, ndm, service, hist
<1> DEFINE st == [mark |-> job.mark, wan |-> job.st.wan]
<1>2. st \in DocType
  BY DEF Course, Types, JobType, DocType
<1>3. /\ job' = [job EXCEPT !.st = st, !.at = "rules", !.clean = @ /\ a = "ok"]
      /\ doc' = IF a = "ok" THEN st ELSE doc
  BY DEF Store
<1>4. /\ job' \in JobType /\ job'.op = job.op /\ job'.at = "rules" /\ job'.st = st /\ job'.made = job.made
      /\ job'.mark = job.mark /\ (job'.clean => job.clean /\ a = "ok")
  BY <1>2, <1>3 DEF Course, Types, JobType, AtType, EnsureAt
<1>5. Course'
  BY <1>1, <1>2, <1>3, <1>4 DEF Course, Types, Shape, Stored, Promise, Forgotten, HasMark, EnsureAt, UninstallAt, Ensuring
<1>6. QED
  BY <1>1, <1>4, <1>5, OnTheWay DEF Ensuring

\* Rules ends a --start or a tick, with the promise kept.
LEMMA StepRules == ASSUME Course, NEW a \in Answers, Rules(a) PROVE PolicyInv'
<1>1. job.at = "rules" /\ job.op \in Ensuring /\ UNCHANGED <<run, saved, wan, doc, calm>> /\ job' = Idle
  BY DEF Rules, At, Course, Shape, EnsureAt, ndm, Finish
<1>2. CASE job.op = "tick"
  <2>1. /\ rules' \in IF ~Missing(job.st) THEN {rules} ELSE IF a = "ok" THEN {job.st.mark} ELSE {rules, None}
        /\ up' = up /\ wd' = wd
        /\ ended' = [op |-> "tick", well |-> a = "ok" /\ job.mark # None, clean |-> job.clean /\ a = "ok"]
    BY <1>1, <1>2 DEF Rules, Course, Types
  <2>2. /\ ended' \in EndType /\ ended'.op = "tick" /\ (ended'.well => a = "ok" /\ job.mark # None)
        /\ (ended'.clean => job.clean)
    BY <2>1 DEF EndType, OpType, Ensuring, Course, Types, JobType
  <2>3. rules' \in Marks \cup {None}
    BY <2>1 DEF Course, Types, JobType, DocType
  <2>4. ASSUME ended'.well PROVE rules' = job.mark /\ job.st.mark = job.mark /\ job.mark # None
    BY <1>1, <2>1, <2>2, <2>4 DEF Missing, Course, Stored, HasMark, Ensuring
  <2>5. StartMakesPolicy'
    BY <1>1, <1>2, <2>2, <2>4 DEF StartMakesPolicy, Course, Promise, Stored, HasMark, Ensuring
  <2>6. UninstallForgets'
    BY <2>2 DEF UninstallForgets
  <2>7. QED
    BY <1>1, <2>1, <2>2, <2>3, <2>5, <2>6, Over DEF Course, Types, Shape
<1>3. CASE job.op # "tick"
  <2>1. /\ rules' = IF a = "ok" THEN job.st.mark ELSE None
        /\ up' = (a = "ok") /\ ended' = [op |-> job.op, well |-> a = "ok", clean |-> job.clean]
        /\ wd' = (wd \/ (job.op = "boot" /\ a = "ok"))
    BY <1>3 DEF Rules, Finish
  <2>2. job.mark # None /\ ~wd /\ job.op \in {"start", "boot"}
    BY <1>1, <1>3 DEF Course, Shape, Types, Ensuring
  <2>3. /\ ended' \in EndType /\ ended'.op = job.op /\ (ended'.well => a = "ok") /\ (ended'.clean => job.clean)
    BY <1>1, <2>1 DEF EndType, OpType, Ensuring, Course, Types, JobType
  <2>4. rules' \in Marks \cup {None} /\ up' \in BOOLEAN /\ wd' \in BOOLEAN /\ (wd' => up')
    BY <2>1, <2>2 DEF Course, Types, JobType, DocType
  <2>5. StartMakesPolicy'
    BY <1>1, <2>1, <2>2, <2>3 DEF StartMakesPolicy, Course, Promise, Stored, HasMark, Ensuring
  <2>6. UninstallForgets'
    BY <2>2, <2>3 DEF UninstallForgets
  <2>7. QED
    BY <1>1, <2>3, <2>4, <2>5, <2>6, Over DEF Course, Types
<1>4. QED
  BY <1>2, <1>3

-----------------------------------------------------------------------------
(* Requests of --uninstall.                                                *)

\* Stop keeps the invariant.
LEMMA StepStop == ASSUME Course, Stop PROVE PolicyInv'
<1>1. /\ job.at = "stop" /\ job.op = "uninstall" /\ UNCHANGED <<run, saved, wan, doc, ended, calm>>
      /\ up' = FALSE /\ wd' = FALSE /\ rules' = None
  BY DEF Stop, At, Course, Shape, UninstallAt, ndm, hist
<1>2. job' \in JobType /\ job'.op = job.op /\ job'.at = "hosts" /\ job'.made = job.made
  BY DEF Stop, Goto, Course, Types, JobType, AtType, UninstallAt
<1>3. Course'
  BY <1>1, <1>2 DEF Course, Types, Shape, Stored, Promise, Forgotten, HasMark, EnsureAt, UninstallAt, Ensuring
<1>4. QED
  BY <1>1, <1>2, <1>3, OnTheWay

\* GetHosts keeps the invariant: it finds every device that is bound.
LEMMA StepGetHosts == ASSUME Course, NEW a \in Answers, GetHosts(a) PROVE PolicyInv'
<1>1. /\ job.at = "hosts" /\ job.op = "uninstall"
      /\ UNCHANGED <<run, saved, wan, doc, rules, up, wd, ended, calm>>
  BY DEF GetHosts, At, Course, Shape, UninstallAt, ndm, service, hist
<1> DEFINE hosts == IF a = "ok" THEN run.bound ELSE {}
<1>2. hosts \in SUBSET Hosts
  BY DEF Course, Types, Config
<1>3. /\ job' = [job EXCEPT !.at = "unset", !.hosts = hosts, !.clean = @ /\ a = "ok"]
  BY DEF GetHosts
<1>4. /\ job' \in JobType /\ job'.op = job.op /\ job'.at = "unset" /\ job'.made = job.made
      /\ job'.hosts = hosts /\ (job'.clean => a = "ok")
  BY <1>2, <1>3 DEF Course, Types, JobType, AtType, UninstallAt
<1>5. Course'
  BY <1>1, <1>4 DEF Course, Types, Shape, Stored, Promise, Forgotten, HasMark, EnsureAt, UninstallAt, Ensuring
<1>6. QED
  BY <1>1, <1>4, <1>5, OnTheWay

\* UnsetHost keeps the invariant: a device that stays bound is still to come,
\* unless a request failed.
LEMMA StepUnsetHost == ASSUME Course, NEW a \in Answers, UnsetHost(a) PROVE PolicyInv'
<1>1. /\ job.at = "unset" /\ job.op = "uninstall" /\ UNCHANGED <<saved, wan, doc, rules, up, wd, ended, calm>>
  BY DEF UnsetHost, At, Course, Shape, UninstallAt, service, hist
<1>2. CASE job.hosts = {}
  <2>1. run' = run /\ job' = [job EXCEPT !.at = "drop"]
    BY <1>2 DEF UnsetHost, Goto
  <2>2. /\ job' \in JobType /\ job'.op = job.op /\ job'.at = "drop" /\ job'.made = job.made /\ job'.clean = job.clean
    BY <2>1 DEF Course, Types, JobType, AtType, UninstallAt
  <2>3. Course'
    BY <1>1, <1>2, <2>1, <2>2 DEF Course, Types, Shape, Stored, Promise, Forgotten, HasMark, EnsureAt, UninstallAt, Ensuring
  <2>4. QED
    BY <1>1, <2>2, <2>3, OnTheWay
<1>3. CASE job.hosts # {}
  <2>1. PICK h \in job.hosts, done \in Done(a) :
          /\ run' = IF done THEN [run EXCEPT !.bound = @ \ {h}] ELSE run
          /\ job' = [job EXCEPT !.hosts = @ \ {h}, !.clean = @ /\ a = "ok"]
    BY <1>3 DEF UnsetHost
  <2>2. /\ run' \in Config /\ run'.policy = run.policy
        /\ (a = "ok" => run'.bound = run.bound \ {h}) /\ run'.bound \subseteq run.bound
    BY <2>1 DEF Done, Course, Types, Config
  <2>3. /\ job' \in JobType /\ job'.op = job.op /\ job'.at = job.at /\ job'.made = job.made
        /\ job'.hosts = job.hosts \ {h} /\ (job'.clean => job.clean /\ a = "ok")
    BY <2>1 DEF Course, Types, JobType
  <2>4. Course'
    BY <1>1, <2>2, <2>3 DEF Course, Types, Shape, Stored, Promise, Forgotten, HasMark, EnsureAt, UninstallAt, Ensuring
  <2>5. QED
    BY <1>1, <2>3, <2>4, OnTheWay
<1>4. QED
  BY <1>2, <1>3

\* Drop keeps the invariant.
LEMMA StepDrop == ASSUME Course, NEW a \in Answers, Drop(a) PROVE PolicyInv'
<1>1. /\ job.at = "drop" /\ job.op = "uninstall" /\ UNCHANGED <<saved, wan, doc, rules, up, wd, ended, calm>>
  BY DEF Drop, At, Course, Shape, UninstallAt, service, hist
<1>2. run' \in Config /\ run'.bound = run.bound /\ (a = "ok" => run'.policy = None)
  BY Requests DEF Drop, Done, Course, Types
<1> DEFINE at == IF a = "failed" THEN "files" ELSE "save"
<1>3. job' = [job EXCEPT !.at = at, !.clean = @ /\ a = "ok"]
  BY DEF Drop, Proceed
<1>4. /\ job' \in JobType /\ job'.op = job.op /\ job'.at = at /\ job'.made = job.made
      /\ (job'.clean => job.clean /\ a = "ok")
  BY <1>3 DEF Course, Types, JobType, AtType, UninstallAt
<1>5. Course'
  BY <1>1, <1>2, <1>4 DEF Course, Types, Shape, Stored, Promise, Forgotten, HasMark, EnsureAt, UninstallAt, Ensuring
<1>6. QED
  BY <1>1, <1>4, <1>5, OnTheWay

\* RemoveFiles ends an --uninstall, with the promise kept.
LEMMA StepRemoveFiles == ASSUME Course, RemoveFiles PROVE PolicyInv'
<1>1. /\ job.at = "files" /\ job.op = "uninstall" /\ UNCHANGED <<run, saved, wan, rules, up, wd, calm>>
      /\ doc' = Fresh /\ job' = Idle /\ ended' = [op |-> job.op, well |-> TRUE, clean |-> job.clean]
  BY DEF RemoveFiles, At, Course, Shape, UninstallAt, ndm, service, Finish
<1>2. ended' \in EndType /\ ended'.op = "uninstall" /\ ended'.clean = job.clean
  BY <1>1 DEF EndType, OpType, Course, Types, JobType
<1>3. StartMakesPolicy'
  BY <1>2 DEF StartMakesPolicy
<1>4. UninstallForgets'
  BY <1>1, <1>2 DEF UninstallForgets, Course, Forgotten
<1>5. QED
  BY <1>1, <1>2, <1>3, <1>4, AtRest, Over DEF Course, Types, Shape

-----------------------------------------------------------------------------
(* The steps of everybody else.                                            *)

\* An operation begins: nothing is in hand and nothing has ended.
LEMMA StepBegin ==
  ASSUME Course, NEW op \in Ensuring \cup {"uninstall"}, op \in {"start", "boot"} => ~up, Begin(op)
  PROVE  PolicyInv'
<1>1. /\ UNCHANGED <<run, saved, wan, doc, rules, up, wd>> /\ calm' = TRUE /\ ended' = Nothing
  BY DEF Begin, ndm, service
<1> DEFINE at == IF op = "uninstall" THEN "stop" ELSE "wan"
<1>2. job' = [Idle EXCEPT !.op = op, !.st = doc, !.at = at]
  BY DEF Begin
<1>3. doc \in DocType
  BY DEF Course, Types
<1>4. job' \in JobType /\ job'.op = op /\ job'.at = at /\ ~job'.made /\ job'.mark = None
  BY <1>2, <1>3, AtRest DEF JobType, OpType, AtType, EnsureAt, UninstallAt, Ensuring
<1>5. Course'
  BY <1>1, <1>4, AtRest DEF Course, Types, Shape, Stored, Promise, Forgotten, HasMark, EnsureAt, UninstallAt, Ensuring
<1>6. QED
  BY <1>4, <1>5, OnTheWay DEF Ensuring

\* --reapply puts back the rules of a service without any: the operation that
\* ended last had left some, or had promised nothing.
LEMMA StepReapply == ASSUME PolicyInv, Reapply PROVE PolicyInv'
<1>1. /\ rules = None /\ rules' = doc.mark /\ job.op = "idle"
      /\ UNCHANGED <<run, saved, wan, doc, up, wd, job, ended, calm>>
  BY DEF Reapply, ndm, service, hist
<1>2. Types'
  BY <1>1 DEF PolicyInv, Course, Types, DocType
<1>3. Course'
  BY <1>1, <1>2 DEF PolicyInv, Course, Shape, Stored, Promise, Forgotten, HasMark
<1>4. StartMakesPolicy' /\ UninstallForgets'
  BY <1>1 DEF PolicyInv, StartMakesPolicy, UninstallForgets
<1>5. QED
  BY <1>3, <1>4 DEF PolicyInv

\* NDM marks a policy that has no mark: nobody has read one, and no promise is
\* about such a policy.
LEMMA StepAssignMark == ASSUME PolicyInv, AssignMark PROVE PolicyInv'
<1>1. run.policy # None /\ run.policy.mark = None /\ UNCHANGED <<saved, wan, doc, rules, up, wd, job, ended, calm>>
  BY DEF AssignMark, service, hist
<1>2. PICK m \in Marks : run' = [run EXCEPT !.policy.mark = m]
  BY DEF AssignMark
<1>3. run.policy \in [mark : Marks \cup {None}, permit : SUBSET Ifaces]
  BY <1>1 DEF PolicyInv, Course, Types, Config, Policies
<1>4. [run.policy EXCEPT !.mark = m] \in [mark : Marks \cup {None}, permit : SUBSET Ifaces]
  BY <1>3
<1>5. /\ run' \in Config /\ run'.bound = run.bound
      /\ run'.policy # None /\ run'.policy.permit = run.policy.permit
  BY <1>2, <1>3, <1>4, NoneAssumption DEF PolicyInv, Course, Types, Config, Policies
<1>6. Types' /\ Shape' /\ Stored'
  BY <1>1, <1>5 DEF PolicyInv, Course, Types, Shape, Stored, HasMark
<1>7. ASSUME calm PROVE Promise' /\ Forgotten'
  <2>1. ~HasMark
    BY <1>1, <1>7, MarkInHand DEF PolicyInv, Course, Promise
  <2>2. QED
    BY <1>1, <1>5, <1>7, <2>1 DEF PolicyInv, Course, Promise, Forgotten, HasMark
<1>8. StartMakesPolicy'
  BY <1>1 DEF PolicyInv, StartMakesPolicy
<1>9. UninstallForgets'
  BY <1>1 DEF PolicyInv, UninstallForgets
<1>10. QED
  BY <1>1, <1>6, <1>7, <1>8, <1>9 DEF PolicyInv, Course

\* Somebody else changed something: there is no promise left to keep.
LEMMA NotCalm ==
  ASSUME Course, run' \in Config, saved' \in Config, wan' \in Ifaces \cup {None},
         rules' \in Marks \cup {None}, calm' = FALSE, UNCHANGED <<doc, up, wd, job, ended>>
  PROVE  PolicyInv'
<1>1. Types' /\ Shape' /\ Stored'
  BY DEF Course, Types, Shape, Stored, HasMark
<1>2. QED
  BY <1>1 DEF PolicyInv, Course, StartMakesPolicy, UninstallForgets

\* What the operator does in the router's interface, a rebuild of the tables
\* and another default route.
LEMMA StepOthers == ASSUME Course, Operator \/ Rebuild \/ ChangeWAN PROVE PolicyInv'
<1>1. CASE Operator
  <2>1. run' \in Config
    <3>1. CASE \E bound \in SUBSET Hosts : run' = [run EXCEPT !.bound = bound]
      BY <3>1 DEF Course, Types, Config
    <3>2. CASE run' = Deleted
      BY <3>2, Requests DEF Course, Types
    <3>3. CASE \E permit \in SUBSET Ifaces : run.policy # None /\ run' = [run EXCEPT !.policy.permit = permit]
      <4>1. PICK permit \in SUBSET Ifaces : run.policy # None /\ run' = [run EXCEPT !.policy.permit = permit]
        BY <3>3
      <4>2. run.policy \in [mark : Marks \cup {None}, permit : SUBSET Ifaces]
        BY <4>1 DEF Course, Types, Config, Policies
      <4>3. [run.policy EXCEPT !.permit = permit] \in Policies
        BY <4>2 DEF Policies
      <4>4. QED
        BY <4>1, <4>3 DEF Course, Types, Config
    <3>4. QED
      BY <1>1, <3>1, <3>2, <3>3 DEF Operator
  <2>2. QED
    BY <1>1, <2>1, NotCalm DEF Operator, Course, Types, service
<1>2. CASE Rebuild
  BY <1>2, NotCalm DEF Rebuild, Course, Types, service, ndm
<1>3. CASE ChangeWAN
  BY <1>3, NotCalm DEF ChangeWAN, Course, Types, service
<1>4. QED
  BY <1>1, <1>2, <1>3

\* A reboot and a kill leave no operation and no promise.
LEMMA StepCrash == ASSUME Course, Reboot \/ Kill PROVE PolicyInv'
<1>1. job' = Idle /\ ended' = Nothing
  BY DEF Reboot, Kill
<1>2. StartMakesPolicy' /\ UninstallForgets'
  BY <1>1, AtRest DEF StartMakesPolicy, UninstallForgets
<1>3. CASE Reboot
  <2>1. run' \in Config
    <3>1. CASE saved.policy = None
      BY <1>3, <3>1 DEF Reboot, Course, Types
    <3>2. CASE saved.policy # None
      <4>1. saved.policy \in [mark : Marks \cup {None}, permit : SUBSET Ifaces]
        BY <3>2 DEF Course, Types, Config, Policies
      <4>2. [saved.policy EXCEPT !.mark = None] \in Policies
        BY <4>1 DEF Policies
      <4>3. QED
        BY <1>3, <3>2, <4>2 DEF Reboot, Course, Types, Config
    <3>3. QED
      BY <3>1, <3>2
  <2>2. QED
    BY <1>1, <1>2, <1>3, <2>1, AtRest, Over DEF Reboot, Course, Types
<1>4. CASE Kill
  BY <1>1, <1>2, <1>4, AtRest, Over DEF Kill, Course, Types, Shape, ndm
<1>5. QED
  BY <1>3, <1>4

-----------------------------------------------------------------------------
(* The theorems.                                                           *)

\* The invariant holds at first ...
LEMMA InvInit == Init => PolicyInv
<1> SUFFICES ASSUME Init PROVE PolicyInv
  OBVIOUS
<1>1. Types
  BY AtRest DEF Init, Types, Config, Policies
<1>2. Shape /\ Stored /\ Promise /\ Forgotten
  BY AtRest DEF Init, Shape, Stored, Promise, Forgotten, HasMark, EnsureAt, UninstallAt, Ensuring
<1>3. StartMakesPolicy /\ UninstallForgets
  BY AtRest DEF Init, StartMakesPolicy, UninstallForgets
<1>4. QED
  BY <1>1, <1>2, <1>3 DEF PolicyInv, Course

\* ... and every step keeps it.
LEMMA InvNext == PolicyInv /\ [Next]_vars => PolicyInv'
<1> SUFFICES ASSUME PolicyInv, [Next]_vars PROVE PolicyInv'
  OBVIOUS
<1>1. Course
  BY DEF PolicyInv
<1>2. CASE Command
  BY <1>1, <1>2, StepBegin DEF Command, Ensuring
<1>3. CASE Tick
  BY <1>1, <1>3, StepBegin DEF Tick, Ensuring
<1>4. CASE Step
  <2>1. CASE MarkTimeout \/ Stop \/ RemoveFiles
    BY <1>1, <2>1, StepMarkTimeout, StepStop, StepRemoveFiles
  <2>2. ASSUME NEW a \in Answers, DetectWAN(a) \/ Show(a) \/ ShowRC(a) \/ Delete(a) \/ Create(a)
        PROVE  PolicyInv'
    BY <1>1, <2>2, StepDetectWAN, StepShow, StepShowRC, StepDelete, StepCreate
  <2>3. ASSUME NEW a \in Answers, SaveConfig(a) \/ Store(a) \/ Rules(a) \/ GetHosts(a) \/ UnsetHost(a) \/ Drop(a)
        PROVE  PolicyInv'
    BY <1>1, <2>3, StepSaveConfig, StepStore, StepRules, StepGetHosts, StepUnsetHost, StepDrop
  <2>4. QED
    BY <1>4, <2>1, <2>2, <2>3 DEF Step
<1>5. CASE Reapply \/ AssignMark
  BY <1>5, StepReapply, StepAssignMark
<1>6. CASE Operator \/ Rebuild \/ ChangeWAN \/ Reboot \/ Kill
  BY <1>1, <1>6, StepOthers, StepCrash
<1>7. CASE UNCHANGED vars
  BY <1>7 DEF vars, ndm, service, hist, PolicyInv, Course, Types, Shape, Stored, Promise, Forgotten, HasMark,
     StartMakesPolicy, UninstallForgets
<1>8. QED
  BY <1>2, <1>3, <1>4, <1>5, <1>6, <1>7 DEF Next

\* The invariant of the policy.
LEMMA Invariant == Spec => []PolicyInv
BY InvInit, InvNext, PTL DEF Spec

\* The variables have their types: in particular the daemon runs only in a
\* service that is up, and an operation that saves or stores has a mark
\* (cmd_lifecycle.go, ensureKeeneticPolicy).
THEOREM TypeCorrect == Spec => []TypeOK
<1>1. PolicyInv => TypeOK
  BY DEF PolicyInv, Course, Types, Shape, TypeOK, DocType
<1>2. QED
  BY <1>1, Invariant, PTL

\* A --start that succeeded, and a tick that got through, left a policy in NDM,
\* rules for its mark, and if no request failed the WAN permitted and all of it
\* saved: whichever requests were refused or lost, whatever state the policy
\* was found in, for any interfaces, marks, devices and numbers of faults
\* (policy.go, EnsurePolicy and waitForMark; cmd_lifecycle.go).
THEOREM StartDelivers == Spec => []StartMakesPolicy
<1>1. PolicyInv => StartMakesPolicy
  BY DEF PolicyInv
<1>2. QED
  BY <1>1, Invariant, PTL

\* An --uninstall without a failed request leaves neither the policy nor a bound
\* device, in what NDM runs or in what it saved, however many devices there
\* were (cmd_uninstall.go).
THEOREM UninstallDelivers == Spec => []UninstallForgets
<1>1. PolicyInv => UninstallForgets
  BY DEF PolicyInv
<1>2. QED
  BY <1>1, Invariant, PTL
====
