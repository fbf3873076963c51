-------------------------- MODULE StateStoreProofs --------------------------
(***************************************************************************)
(* Theorems about StateStore: its types, the window of a lost update, and  *)
(* the refinement of the atomic document where all writers share a lock.   *)
(***************************************************************************)
EXTENDS StateStore, TLAPS

\* One step of one flow of control, whichever it is.
AnyStep(p) == Request(p) \/ Step(p) \/ Crash(p)

\* Every request is a Submit of some kind, some settings and some value.
LEMMA RequestIsSubmit ==
  ASSUME NEW p \in Proc, Request(p)
  PROVE  \E kind \in Kind, ks \in SUBSET Key, v \in Val : Submit(p, kind, ks, v)
<1>1. CASE WebPorts(p)
  BY <1>1 DEF WebPorts, Submit, Key
<1>2. CASE CliPorts(p)
  <2>1. PICK ks \in SUBSET Port \ {{}}, v \in Val : Submit(p, "cliManager", ks, v)
    BY <1>2 DEF CliPorts
  <2>2. ks \in SUBSET Key
    BY DEF Key
  <2>3. QED
    BY <2>1, <2>2 DEF Submit
<1>3. CASE WebTargets(p) \/ CliTargets(p) \/ CliSettings(p) \/ UpdateNow(p) \/ StartPolicy(p)
           \/ WatchdogTick(p) \/ HostlistTick(p) \/ SwitchCore(p)
  BY <1>3 DEF WebTargets, CliTargets, CliSettings, UpdateNow, StartPolicy,
              WatchdogTick, HostlistTick, SwitchCore, Submit, Key, Scalar
<1>4. QED
  BY <1>1, <1>2, <1>3 DEF Request

-----------------------------------------------------------------------------
(* Types.                                                                  *)

\* A document made cell by cell from cells of values is a document.
LEMMA SavedIsDoc ==
  ASSUME TypeOK, NEW p \in Proc, NEW ks \in SUBSET Key
  PROVE  Saved(p, ks) \in Doc
BY DEF TypeOK, Saved, Doc, Job

\* Finish leaves the four variables it assigns well typed.
LEMMA FinishType ==
  ASSUME TypeOK, NEW p \in Proc, Finish(p)
  PROVE  /\ holder' \in [LockName -> Proc \cup {NoProc}]
         /\ pc' \in [Proc -> {"idle", "main", "state", "load", "save"}]
         /\ job' \in [Proc -> Job]
         /\ snap' \in [Proc -> Doc]
<1>1. NoJob \in Job /\ DefDoc \in Doc
  BY DefValAssumption DEF NoJob, Job, AllKinds, DefDoc, Doc
<1>2. holder' \in [LockName -> Proc \cup {NoProc}]
  BY DEF TypeOK, Finish, Freed
<1>3. QED
  BY <1>1, <1>2 DEF TypeOK, Finish

\* Init establishes the types, every step keeps them.
LEMMA TypeInit == Init => TypeOK
BY DefValAssumption DEF Init, TypeOK, Doc, Job, NoJob, DefDoc, LockName, AllKinds

LEMMA TypeStep ==
  ASSUME TypeOK, NEW p \in Proc, AnyStep(p)
  PROVE  TypeOK'
<1>1. CASE Request(p)
  <2>1. PICK kind \in Kind, ks \in SUBSET Key, v \in Val : Submit(p, kind, ks, v)
    BY <1>1, RequestIsSubmit
  <2>2. Entry(kind) \in {"main", "state", "load"} /\ kind \in AllKinds
    BY KindAssumption DEF Entry
  <2>3. QED
    BY <2>1, <2>2 DEF Submit, TypeOK, Job
<1>2. CASE LockMain(p) \/ LockState(p) \/ Load(p)
  BY <1>2 DEF LockMain, LockState, Load, TypeOK, LockName
<1>3. CASE LockMainGivenUp(p) \/ LockStateTimeout(p) \/ Abort(p) \/ Crash(p)
  BY <1>3, FinishType DEF LockMainGivenUp, LockStateTimeout, Abort, Crash, TypeOK
<1>4. CASE Save(p)
  <2>1. PICK ks \in Batch(p) :
          /\ doc' = Saved(p, ks)
          /\ intent' = [k \in Key |-> IF k \in ks THEN job[p].val ELSE intent[k]]
          /\ author' = [k \in Key |-> IF k \in ks \/ snap[p][k] # doc[k]
                                        THEN job[p].kind ELSE author[k]]
          /\ \/ job[p].todo = ks /\ Finish(p)
             \/ job[p].todo # ks /\ NextItem(p, ks)
    BY <1>4 DEF Save
  <2>2. job[p] \in Job
    BY DEF TypeOK
  <2>3. ks \in SUBSET Key
    BY <2>2 DEF Batch, Job
  <2>4. doc' \in Doc
    BY <2>1, <2>3, SavedIsDoc
  <2>5. intent' \in Doc /\ author' \in [Key -> AllKinds]
    BY <2>1, <2>2 DEF TypeOK, Doc, Job
  <2>6. CASE Finish(p)
    BY <2>4, <2>5, <2>6, FinishType DEF TypeOK
  <2>7. CASE NextItem(p, ks)
    <3>1. holder' \in [LockName -> Proc \cup {NoProc}]
      BY <2>7 DEF TypeOK, NextItem, Freed
    <3>2. DefDoc \in Doc
      BY DefValAssumption DEF DefDoc, Doc
    <3>3. job' \in [Proc -> Job]
      BY <2>7, <2>2 DEF NextItem, Rest, TypeOK, Job
    <3>4. QED
      BY <2>7, <2>4, <2>5, <3>1, <3>2, <3>3 DEF TypeOK, NextItem
  <2>8. QED
    BY <2>1, <2>6, <2>7
<1>5. QED
  BY <1>1, <1>2, <1>3, <1>4 DEF AnyStep, Step

\* Every variable keeps its type, for any number of processes, ports and values.
THEOREM TypeCorrect == Spec => []TypeOK
<1>1. TypeOK /\ [Next]_vars => TypeOK'
  <2> SUFFICES ASSUME TypeOK, [Next]_vars PROVE TypeOK'
    OBVIOUS
  <2>1. CASE Next
    BY <2>1, TypeStep DEF Next, AnyStep
  <2>2. CASE UNCHANGED vars
    BY <2>2 DEF vars, TypeOK
  <2>3. QED
    BY <2>1, <2>2
<1>2. QED
  BY <1>1, TypeInit, PTL DEF Spec

-----------------------------------------------------------------------------
(* Who holds which lock where.                                             *)

\* A handler that may load or save holds every lock of its kind; one that
\* waits for the state lock inside withLock holds the main lock.
HoldInv ==
  \A p \in Proc :
    /\ pc[p] \in {"load", "save"} => \A l \in Locks(job[p].kind) : holder[l] = p
    /\ pc[p] = "state" => \A l \in Locks(job[p].kind) \ {"state"} : holder[l] = p

\* A step of p changes nothing of another q: neither its place, its job, the
\* document it loaded nor the locks it holds.
LEMMA Frame ==
  ASSUME TypeOK, NEW p \in Proc, AnyStep(p), NEW q \in Proc, q # p
  PROVE  /\ pc'[q] = pc[q] /\ job'[q] = job[q] /\ snap'[q] = snap[q]
         /\ \A l \in LockName : holder[l] = q => holder'[l] = q
<1> USE ProcAssumption
<1>1. CASE Request(p)
  BY <1>1, RequestIsSubmit DEF Submit, TypeOK
<1>2. CASE LockMain(p) \/ LockState(p) \/ Load(p)
  BY <1>2 DEF LockMain, LockState, Load, TypeOK, LockName
<1>3. ASSUME Finish(p)
      PROVE  /\ pc'[q] = pc[q] /\ job'[q] = job[q] /\ snap'[q] = snap[q]
             /\ \A l \in LockName : holder[l] = q => holder'[l] = q
  BY <1>3 DEF Finish, Freed, TypeOK
<1>4. CASE LockMainGivenUp(p) \/ LockStateTimeout(p) \/ Abort(p) \/ Crash(p)
  BY <1>3, <1>4 DEF LockMainGivenUp, LockStateTimeout, Abort, Crash
<1>5. CASE Save(p)
  <2>1. PICK ks \in Batch(p) : Finish(p) \/ NextItem(p, ks)
    BY <1>5 DEF Save
  <2>2. CASE NextItem(p, ks)
    BY <2>2 DEF NextItem, Freed, TypeOK
  <2>3. QED
    BY <2>1, <2>2, <1>3
<1>6. QED
  BY <1>1, <1>2, <1>4, <1>5 DEF AnyStep, Step

LEMMA LocksAreNames == \A kind : Locks(kind) \subseteq LockName
BY DEF Locks, LockName

\* The lock invariant is inductive.
LEMMA HoldStep ==
  ASSUME TypeOK, HoldInv, NEW p \in Proc, AnyStep(p)
  PROVE  HoldInv'
<1> DEFINE HoldsAt(q) ==
      /\ pc[q] \in {"load", "save"} => \A l \in Locks(job[q].kind) : holder[l] = q
      /\ pc[q] = "state" => \A l \in Locks(job[q].kind) \ {"state"} : holder[l] = q
<1>1. ASSUME NEW q \in Proc, q # p PROVE HoldsAt(q)'
  <2>1. HoldsAt(q)
    BY DEF HoldInv
  <2>2. QED
    BY <1>1, <2>1, Frame, LocksAreNames
<1>2. ASSUME Finish(p) PROVE HoldsAt(p)'
  BY <1>2 DEF Finish, TypeOK
<1>3. HoldsAt(p)'
  <2>1. CASE Request(p)
    <3>1. PICK kind \in Kind, ks \in SUBSET Key, v \in Val : Submit(p, kind, ks, v)
      BY <2>1, RequestIsSubmit
    <3>2. pc'[p] = Entry(kind) /\ job'[p].kind = kind
      BY <3>1 DEF Submit, TypeOK
    <3>3. Entry(kind) = "load" => Locks(kind) = {}
      BY DEF Entry, Locks
    <3>4. Entry(kind) = "state" => Locks(kind) \ {"state"} = {}
      BY DEF Entry, Locks
    <3>5. QED
      BY <3>2, <3>3, <3>4 DEF Entry
  <2>2. CASE LockMain(p)
    <3>1. pc'[p] = IF "state" \in Locks(job[p].kind) THEN "state" ELSE "load"
      BY <2>2 DEF LockMain, TypeOK
    <3>2. job'[p] = job[p] /\ holder'["main"] = p
      BY <2>2 DEF LockMain, TypeOK, LockName
    <3>3. QED
      BY <3>1, <3>2 DEF Locks
  <2>3. CASE LockState(p)
    <3>1. pc'[p] = "load" /\ job'[p] = job[p]
      BY <2>3 DEF LockState, TypeOK
    <3>2. holder'["state"] = p /\ holder'["main"] = holder["main"]
      BY <2>3 DEF LockState, TypeOK, LockName
    <3>3. pc[p] = "state"
      BY <2>3 DEF LockState
    <3>4. QED
      BY <3>1, <3>2, <3>3 DEF Locks, HoldInv
  <2>4. CASE Load(p)
    <3>1. pc[p] = "load" /\ pc'[p] = "save" /\ job' = job /\ holder' = holder
      BY <2>4 DEF Load, TypeOK
    <3>2. QED
      BY <3>1 DEF HoldInv
  <2>5. CASE LockMainGivenUp(p) \/ LockStateTimeout(p) \/ Abort(p) \/ Crash(p)
    BY <2>5, <1>2 DEF LockMainGivenUp, LockStateTimeout, Abort, Crash
  <2>6. CASE Save(p)
    <3>1. PICK ks \in Batch(p) : Finish(p) \/ NextItem(p, ks)
      BY <2>6 DEF Save
    <3>2. CASE NextItem(p, ks)
      <4>1. pc[p] = "save" /\ pc'[p] = "state" /\ job'[p].kind = job[p].kind
        BY <3>2, <2>6 DEF NextItem, Rest, Save, TypeOK, Job
      <4>2. \A l \in LockName \ {"state"} : holder'[l] = holder[l]
        BY <3>2 DEF NextItem, Freed
      <4>3. QED
        BY <4>1, <4>2, LocksAreNames DEF HoldInv
    <3>3. QED
      BY <3>1, <3>2, <1>2
  <2>7. QED
    BY <2>1, <2>2, <2>3, <2>4, <2>5, <2>6 DEF AnyStep, Step
<1>4. QED
  BY <1>1, <1>3 DEF HoldInv

-----------------------------------------------------------------------------
(* The window of a lost update.                                            *)

\* Two handlers between Load and Save have no lock in common.
LEMMA SaversShareNoLock ==
  ASSUME HoldInv, NEW p \in Proc, NEW q \in Proc, p # q, pc[p] = "save", pc[q] = "save"
  PROVE  ~ShareLock(job[p].kind, job[q].kind)
BY DEF HoldInv, ShareLock

\* Every step but Save leaves the document and the history variables alone.
LEMMA OnlySaveWrites ==
  ASSUME NEW p \in Proc, AnyStep(p), ~Save(p)
  PROVE  UNCHANGED <<doc, intent, author>>
<1>1. CASE Request(p)
  BY <1>1, RequestIsSubmit DEF Submit
<1>2. CASE ~Request(p)
  BY <1>2 DEF AnyStep, Step, LockMain, LockMainGivenUp, LockState, LockStateTimeout,
              Load, Abort, Crash
<1>3. QED
  BY <1>1, <1>2

\* The process that steps is about to save only if it has just loaded.
LEMMA SaveFollowsLoad ==
  ASSUME TypeOK, NEW p \in Proc, AnyStep(p), pc'[p] = "save"
  PROVE  Load(p)
<1>1. CASE Request(p)
  BY <1>1, RequestIsSubmit DEF Submit, Entry, TypeOK
<1>2. CASE Save(p)
  BY <1>2 DEF Save, Finish, NextItem, TypeOK
<1>3. CASE ~Request(p) /\ ~Save(p)
  BY <1>3 DEF AnyStep, Step, LockMain, LockMainGivenUp, LockState, LockStateTimeout,
              Abort, Crash, Finish, TypeOK
<1>4. QED
  BY <1>1, <1>2, <1>3

\* The window invariant is inductive, given who holds which lock.
LEMMA StaleStep ==
  ASSUME TypeOK, HoldInv, StaleOnlyAcrossLocks, NEW p \in Proc, AnyStep(p)
  PROVE  StaleOnlyAcrossLocks'
<1> SUFFICES ASSUME NEW q \in Proc, NEW k \in Key, pc'[q] = "save", snap'[q][k] # doc'[k]
             PROVE  ~ShareLock(job'[q].kind, author'[k])
  BY DEF StaleOnlyAcrossLocks, ShareLock
<1>1. CASE q = p
  <2>1. Load(p)
    BY <1>1, SaveFollowsLoad
  <2>2. snap'[p] = doc /\ doc' = doc
    BY <2>1 DEF Load, TypeOK
  <2>3. QED
    BY <1>1, <2>2
<1>2. CASE q # p
  <2>1. pc[q] = "save" /\ job'[q] = job[q] /\ snap'[q] = snap[q]
    BY <1>2, Frame
  <2>2. CASE ~Save(p)
    BY <2>1, <2>2, OnlySaveWrites DEF StaleOnlyAcrossLocks
  <2>3. CASE Save(p)
    <3>1. PICK ks \in Batch(p) :
            /\ doc' = Saved(p, ks)
            /\ author' = [i \in Key |-> IF i \in ks \/ snap[p][i] # doc[i]
                                          THEN job[p].kind ELSE author[i]]
      BY <2>3 DEF Save
    <3>2. ~ShareLock(job[q].kind, job[p].kind)
      BY <1>2, <2>1, <2>3, SaversShareNoLock DEF Save
    <3>3. CASE k \in ks \/ snap[p][k] # doc[k]
      BY <3>1, <3>2, <3>3, <2>1
    <3>4. CASE ~(k \in ks \/ snap[p][k] # doc[k])
      <4>1. doc'[k] = doc[k] /\ author'[k] = author[k]
        BY <3>1, <3>4 DEF Saved
      <4>2. QED
        BY <4>1, <2>1 DEF StaleOnlyAcrossLocks
    <3>5. QED
      BY <3>3, <3>4
  <2>4. QED
    BY <2>2, <2>3
<1>3. QED
  BY <1>1, <1>2

\* Whatever handlers run, a document loaded by one of them goes stale only in
\* settings last written by a handler that holds none of its locks: the flocks
\* of withLock and withStateLock do all that two locks can do.
THEOREM StaleWindow == Spec => []StaleOnlyAcrossLocks
<1> DEFINE IInv == TypeOK /\ HoldInv /\ StaleOnlyAcrossLocks
<1>1. Init => IInv
  <2>1. Init => HoldInv /\ StaleOnlyAcrossLocks
    BY DEF Init, HoldInv, StaleOnlyAcrossLocks
  <2>2. QED
    BY <2>1, TypeInit
<1>2. IInv /\ [Next]_vars => IInv'
  <2> SUFFICES ASSUME IInv, [Next]_vars PROVE IInv'
    OBVIOUS
  <2>1. CASE Next
    <3>1. PICK p \in Proc : AnyStep(p)
      BY <2>1 DEF Next, AnyStep
    <3>2. QED
      BY <3>1, TypeStep, HoldStep, StaleStep
  <2>2. CASE UNCHANGED vars
    BY <2>2 DEF vars, TypeOK, HoldInv, StaleOnlyAcrossLocks
  <2>3. QED
    BY <2>1, <2>2
<1>3. QED
  BY <1>1, <1>2, PTL DEF Spec

-----------------------------------------------------------------------------
(* Where every two handlers share a lock, state.json is atomic.            *)

AllShareLock == \A a, b \in Kind : ShareLock(a, b)

\* A handler that runs is of a kind of this instance, and a loaded document
\* is the one on disk.
FreshInv ==
  /\ \A p \in Proc : pc[p] # "idle" => job[p].kind \in Kind
  /\ \A p \in Proc : pc[p] = "save" => snap[p] = doc

LEMMA KindStep ==
  ASSUME TypeOK, FreshInv, NEW p \in Proc, AnyStep(p), NEW q \in Proc, pc'[q] # "idle"
  PROVE  job'[q].kind \in Kind
<1>1. CASE q # p
  BY <1>1, Frame DEF FreshInv
<1>2. CASE q = p
  <2>1. CASE Request(p)
    BY <1>2, <2>1, RequestIsSubmit DEF Submit, TypeOK
  <2>2. CASE Save(p)
    <3>1. PICK ks \in Batch(p) : Finish(p) \/ NextItem(p, ks)
      BY <2>2 DEF Save
    <3>2. NextItem(p, ks)
      BY <3>1, <1>2 DEF Finish, TypeOK
    <3>3. job'[p].kind = job[p].kind /\ pc[p] # "idle"
      BY <3>2, <2>2 DEF NextItem, Rest, Save, TypeOK
    <3>4. QED
      BY <3>3, <1>2 DEF FreshInv
  <2>3. CASE ~Request(p) /\ ~Save(p)
    BY <1>2, <2>3 DEF AnyStep, Step, LockMain, LockMainGivenUp, LockState, LockStateTimeout,
                      Load, Abort, Crash, Finish, TypeOK, FreshInv
  <2>4. QED
    BY <2>1, <2>2, <2>3
<1>3. QED
  BY <1>1, <1>2

LEMMA FreshStep ==
  ASSUME AllShareLock, TypeOK, HoldInv, FreshInv, NEW p \in Proc, AnyStep(p)
  PROVE  FreshInv'
<1> SUFFICES ASSUME NEW q \in Proc, pc'[q] = "save"
             PROVE  snap'[q] = doc'
  BY KindStep DEF FreshInv
<1>1. CASE q = p
  BY <1>1, SaveFollowsLoad DEF Load, TypeOK
<1>2. CASE q # p
  <2>1. pc[q] = "save" /\ snap'[q] = snap[q]
    BY <1>2, Frame
  <2>2. ~Save(p)
    <3>1. SUFFICES ASSUME Save(p) PROVE FALSE
      OBVIOUS
    <3>2. pc[p] = "save"
      BY <3>1 DEF Save
    <3>3. ~ShareLock(job[p].kind, job[q].kind)
      BY <3>2, <2>1, <1>2, SaversShareNoLock
    <3>4. QED
      BY <3>2, <3>3, <2>1 DEF FreshInv, AllShareLock
  <2>3. QED
    BY <2>1, <2>2, OnlySaveWrites DEF FreshInv
<1>3. QED
  BY <1>1, <1>2

\* With a fresh document in hand, Save is an atomic change of the document,
\* and of the history of what was asked for.
LEMMA SaveIsChange ==
  ASSUME TypeOK, FreshInv, NEW p \in Proc, Save(p)
  PROVE  \E ks \in SUBSET Key, v \in Val :
           /\ doc' = [k \in Key |-> IF k \in ks THEN v ELSE doc[k]]
           /\ intent' = [k \in Key |-> IF k \in ks THEN v ELSE intent[k]]
<1>1. PICK ks \in Batch(p) :
        /\ doc' = Saved(p, ks)
        /\ intent' = [k \in Key |-> IF k \in ks THEN job[p].val ELSE intent[k]]
  BY DEF Save
<1>2. job[p] \in Job /\ snap[p] = doc
  BY DEF TypeOK, FreshInv, Save
<1>3. ks \in SUBSET Key /\ job[p].val \in Val
  BY <1>2 DEF Batch, Job
<1>4. doc' = [k \in Key |-> IF k \in ks THEN job[p].val ELSE doc[k]]
  BY <1>1, <1>2 DEF Saved
<1>5. QED
  BY <1>1, <1>3, <1>4

\* The invariant behind both theorems below.
AtomicInv == TypeOK /\ HoldInv /\ FreshInv /\ NoLostUpdate

LEMMA AtomicInvInductive ==
  ASSUME AllShareLock
  PROVE  /\ Init => AtomicInv
         /\ AtomicInv /\ [Next]_vars => AtomicInv'
<1>1. Init => AtomicInv
  <2>1. Init => HoldInv /\ FreshInv /\ NoLostUpdate
    BY DEF Init, HoldInv, FreshInv, NoLostUpdate
  <2>2. QED
    BY <2>1, TypeInit DEF AtomicInv
<1>2. AtomicInv /\ [Next]_vars => AtomicInv'
  <2> SUFFICES ASSUME AtomicInv, [Next]_vars PROVE AtomicInv'
    OBVIOUS
  <2>1. CASE Next
    <3>1. PICK p \in Proc : AnyStep(p)
      BY <2>1 DEF Next, AnyStep
    <3>2. TypeOK' /\ HoldInv' /\ FreshInv'
      BY <3>1, TypeStep, HoldStep, FreshStep DEF AtomicInv
    <3>3. NoLostUpdate'
      <4>1. CASE Save(p)
        BY <4>1, SaveIsChange DEF AtomicInv, NoLostUpdate
      <4>2. CASE ~Save(p)
        BY <4>2, <3>1, OnlySaveWrites DEF AtomicInv, NoLostUpdate
      <4>3. QED
        BY <4>1, <4>2
    <3>4. QED
      BY <3>2, <3>3 DEF AtomicInv
  <2>2. CASE UNCHANGED vars
    BY <2>2 DEF vars, AtomicInv, TypeOK, HoldInv, FreshInv, NoLostUpdate
  <2>3. QED
    BY <2>1, <2>2
<1>3. QED
  BY <1>1, <1>2

\* Among handlers that pairwise share a lock (the Web UI and the CLI's port,
\* exclude and target commands; or everything under withLock) no accepted
\* change is ever undone.
THEOREM SharedLockLosesNothing ==
  ASSUME AllShareLock
  PROVE  Spec => []NoLostUpdate
<1>1. AtomicInv => NoLostUpdate
  BY DEF AtomicInv
<1>2. QED
  BY <1>1, AtomicInvInductive, PTL DEF Spec

\* Among such handlers state.json behaves as the atomic document of AtomicDoc:
\* every Save is one change of the settings it is about, every other step none.
THEOREM SharedLockIsAtomic ==
  ASSUME AllShareLock
  PROVE  Spec => AtomicSpec
<1>1. Init => Atomic!Init
  BY DEF Init, Atomic!Init, DefDoc
<1>2. AtomicInv /\ [Next]_vars => [Atomic!Next]_doc
  <2> SUFFICES ASSUME AtomicInv, [Next]_vars PROVE [Atomic!Next]_doc
    OBVIOUS
  <2>1. CASE Next
    <3>1. PICK p \in Proc : AnyStep(p)
      BY <2>1 DEF Next, AnyStep
    <3>2. CASE Save(p)
      BY <3>2, SaveIsChange DEF AtomicInv, Atomic!Next, Atomic!Change
    <3>3. CASE ~Save(p)
      BY <3>1, <3>3, OnlySaveWrites
    <3>4. QED
      BY <3>2, <3>3
  <2>2. CASE UNCHANGED vars
    BY <2>2 DEF vars
  <2>3. QED
    BY <2>1, <2>2
<1>3. QED
  BY <1>1, <1>2, AtomicInvInductive, PTL DEF Spec, AtomicSpec, Atomic!Spec
=============================================================================
