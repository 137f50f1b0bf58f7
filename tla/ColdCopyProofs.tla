--------------------------- MODULE ColdCopyProofs ----------------------------
(***************************************************************************)
(* Proofs about ColdCopy for any number of copiers, workers, buckets and   *)
(* formats, any faults, and any bound on them.                             *)
(*                                                                         *)
(* That a receipt means an archived bucket takes a chain of facts: what a  *)
(* worker has found out in its loop over the formats (Knows); that a       *)
(* copier waits for a worker which has the copier's own target (Waits);    *)
(* and that a 2xx which was not yet looked at still means what the worker  *)
(* meant when it answered (Told).                                          *)
(***************************************************************************)
EXTENDS ColdCopy, TLAPS

\* A copier that is at a bucket has one.
HasTarget(c) ==
  copier[c] \in {"open", "lock", "convert", "reshare", "post", "wait",
                 "receipt", "close"} => target[c] \in Buckets

\* A worker that is not idle has a bucket.
HasJob(w) ==
  /\ worker[w] # "idle" => job[w] \in Buckets
  /\ worker[w] \in {"transfer", "size"} => format[w] \in Formats

\* What the loop over the formats has left behind is in the archive, unless
\* the answer will be an error.
Knows(w) ==
  /\ worker[w] \in {"copy", "size"} /\ ~failed[w] =>
       Formats \ formats[w] \subseteq stored[job[w]]
  /\ worker[w] = "transfer" /\ ~failed[w] =>
       (Formats \ formats[w]) \ {format[w]} \subseteq stored[job[w]]
  /\ worker[w] = "close" /\ ~failed[w] => stored[job[w]] = Formats
  /\ worker[w] = "unlink" => failed[w]

\* The worker that a copier waits for has the copier's target.
Waits(c) ==
  server[c] # NoWorker =>
    /\ copier[c] = "wait"
    /\ worker[server[c]] # "idle"
    /\ job[server[c]] = target[c]

\* A copier that was told that its target is copied can rely on that.
Told(c) ==
  /\ answer[c] = "2xx" => copier[c] = "wait" /\ stored[target[c]] = Formats
  /\ copier[c] = "receipt" => stored[target[c]] = Formats

IInv ==
  /\ TypeOK
  /\ \A c \in Copiers : HasTarget(c) /\ Waits(c) /\ Told(c)
  /\ \A w \in Workers : HasJob(w) /\ Knows(w)
  /\ ReceiptMeansArchived

-----------------------------------------------------------------------------
(***************************************************************************)
(* Types                                                                   *)
(***************************************************************************)

\* Every operation on lock files keeps the lock table well formed.
LEMMA LockTyping ==
  ASSUME LocksTypeOK, NEW a \in Actors,
         \/ UNCHANGED lockVars
         \/ \E b \in Buckets : OpenLockFile(a, b) \/ DeleteLockFile(b)
         \/ \E m \in {"none", "shared", "exclusive"} : Lock(a, m)
         \/ CloseLock(a)
         \/ LeakLock(a)
         \/ \E p : ExitProcess(p)
  PROVE  LocksTypeOK'
  <1>1. CASE UNCHANGED lockVars
    BY <1>1 DEF LocksTypeOK, lockVars
  <1>2. ASSUME NEW b \in Buckets, OpenLockFile(a, b)
        PROVE  LocksTypeOK'
    <2>1. InodeAt(b) \subseteq Inodes
      BY DEF InodeAt, FreeInodes, LocksTypeOK
    <2> QED BY <1>2, <2>1 DEF OpenLockFile, LocksTypeOK
  <1>3. ASSUME NEW b \in Buckets, DeleteLockFile(b)
        PROVE  LocksTypeOK'
    BY <1>3 DEF DeleteLockFile, LocksTypeOK
  <1>4. ASSUME NEW m \in {"none", "shared", "exclusive"}, Lock(a, m)
        PROVE  LocksTypeOK'
    BY <1>4 DEF Lock, LocksTypeOK
  <1>5. CASE CloseLock(a)
    BY <1>5 DEF CloseLock, LocksTypeOK
  <1>6. CASE LeakLock(a)
    <2>1. ProcessOf[a] \in {ProcessOf[other] : other \in Actors}
      OBVIOUS
    <2>2. leaked' \in [Inodes -> SUBSET {ProcessOf[other] : other \in Actors}]
      BY <1>6, <2>1 DEF LeakLock, LocksTypeOK
    <2> QED BY <1>6, <2>2 DEF LeakLock, LocksTypeOK
  <1>7. ASSUME NEW p, ExitProcess(p)
        PROVE  LocksTypeOK'
    BY <1>7 DEF ExitProcess, LocksTypeOK
  <1> QED BY <1>1, <1>2, <1>3, <1>4, <1>5, <1>6, <1>7

\* The variables of the requests that the server is working on.
RequestsTypeOK ==
  /\ server \in [Copiers -> Workers \cup {NoWorker}]
  /\ answer \in [Copiers -> {"none", "2xx", "error"}]
  /\ worker \in [Workers -> WorkerSteps]
  /\ job \in [Workers -> Buckets \cup {NoBucket}]
  /\ formats \in [Workers -> SUBSET Formats]
  /\ format \in [Workers -> Formats \cup {NoFormat}]
  /\ failed \in [Workers -> BOOLEAN]

\* The variables of the copiers, except for what they wait for.
CopiersTypeOK ==
  /\ copier \in [Copiers -> CopierSteps]
  /\ target \in [Copiers -> Buckets \cup {NoBucket}]
  /\ todo \in [Copiers -> SUBSET Buckets]

\* The variables of the buckets, of the archive, and of the bound.
StoreTypeOK ==
  /\ place \in [Buckets -> {"warm", "cold", "frozen"}]
  /\ stored \in [Buckets -> SUBSET Formats]
  /\ receipts \subseteq Buckets
  /\ up \in BOOLEAN
  /\ faults \in 0..MaxFaults

\* The four parts of the type invariant.
LEMMA TypeParts ==
  TypeOK <=> LocksTypeOK /\ RequestsTypeOK /\ CopiersTypeOK /\ StoreTypeOK
  BY DEF TypeOK, RequestsTypeOK, CopiersTypeOK, StoreTypeOK

\* Every step of a copier, its crash included, keeps the types.
LEMMA CopierTyping ==
  ASSUME TypeOK, NEW c \in Copiers, HasTarget(c),
         \/ \E b \in Buckets : Launch(c, b)
         \/ LaunchForOther(c) \/ CopierStep(c)
         \/ CreateReceiptThrows(c) \/ CopierCrashes(c)
  PROVE  TypeOK'
  <1> USE CopyActorsAssumption, CopyFaultsAssumption
  <1> c \in Actors
    OBVIOUS
  <1>1. ASSUME NEW b \in Buckets, Launch(c, b)
        PROVE  TypeOK'
    <2>1. LocksTypeOK'
      BY <1>1, LockTyping DEF Launch, TypeOK
    <2> QED BY <1>1, <2>1 DEF Launch, TypeOK, CopierGoto, CopierSteps,
                              workerVars
  <1>2. CASE LaunchForOther(c) \/ CopierExits(c) \/ PostRefused(c)
             \/ Answered(c)
    <2>1. LocksTypeOK'
      BY <1>2, LockTyping DEF LaunchForOther, CopierExits, PostRefused,
                              Answered, TypeOK
    <2> QED BY <1>2, <2>1 DEF LaunchForOther, CopierExits, PostRefused,
                 Answered, TypeOK, CopierGoto, CopierSteps, workerVars,
                 dataVars
  <1>3. CASE ListCold(c) \/ BuildColdBuckets(c)
    <2>1. LocksTypeOK'
      BY <1>3, LockTyping DEF ListCold, BuildColdBuckets, TypeOK
    <2> QED BY <1>3, <2>1 DEF ListCold, BuildColdBuckets, TypeOK, CopierGoto,
                              CopierSteps, workerVars, dataVars
  <1>4. ASSUME NEW b \in Buckets, NextBucket(c, b)
        PROVE  TypeOK'
    <2>1. LocksTypeOK'
      BY <1>4, LockTyping DEF NextBucket, TypeOK
    <2> QED BY <1>4, <2>1 DEF NextBucket, TypeOK, CopierGoto, CopierSteps,
                              workerVars, dataVars
  <1>5. CASE OpenLockOfTarget(c)
    <2>1. target[c] \in Buckets
      BY <1>5 DEF OpenLockOfTarget, CopierGoto, HasTarget
    <2>2. LocksTypeOK'
      BY <1>5, <2>1, LockTyping DEF OpenLockOfTarget, TypeOK
    <2> QED BY <1>5, <2>2 DEF OpenLockOfTarget, TypeOK, CopierGoto,
                              CopierSteps, workerVars, dataVars
  <1>6. CASE TryLockExclusive(c) \/ ConvertToShared(c) \/ TryLockShared(c)
    <2>1. LocksTypeOK'
      BY <1>6, LockTyping DEF TryLockExclusive, ConvertToShared,
                              TryLockShared, ReleaseLock, TypeOK
    <2> QED BY <1>6, <2>1 DEF TryLockExclusive, ConvertToShared,
                 TryLockShared, TypeOK, CopierGoto, CopierSteps,
                 workerVars, dataVars
  <1>7. ASSUME NEW w \in Workers, Post(c, w)
        PROVE  TypeOK'
    <2>1. LocksTypeOK'
      BY <1>7, LockTyping DEF Post, TypeOK
    <2> QED BY <1>7, <2>1 DEF Post, TypeOK, CopierGoto, CopierSteps,
                              WorkerSteps, dataVars
  <1>8. CASE CreateReceipt(c)
    <2>1. LocksTypeOK'
      BY <1>8, LockTyping DEF CreateReceipt, TypeOK
    <2>2. target[c] \in Buckets
      BY <1>8 DEF CreateReceipt, CopierGoto, HasTarget
    <2> QED BY <1>8, <2>1, <2>2 DEF CreateReceipt, TypeOK, CopierGoto,
                                    CopierSteps, workerVars
  <1>9. CASE CreateReceiptThrows(c)
    <2>1. LocksTypeOK'
      BY <1>9, LockTyping DEF CreateReceiptThrows, TypeOK
    <2> QED BY <1>9, <2>1 DEF CreateReceiptThrows, Fault, TypeOK, CopierGoto,
                              CopierSteps, workerVars, dataVars
  <1>10. CASE CloseLockOfTarget(c)
    <2>1. LocksTypeOK'
      BY <1>10, LockTyping DEF CloseLockOfTarget, TypeOK
    <2> QED BY <1>10, <2>1 DEF CloseLockOfTarget, TypeOK, CopierGoto,
                               CopierSteps, workerVars, dataVars
  <1>11. CASE CopierCrashes(c)
    <2>1. LocksTypeOK'
      BY <1>11, LockTyping DEF CopierCrashes, TypeOK
    <2> QED BY <1>11, <2>1 DEF CopierCrashes, TypeOK, Fault, CopierSteps,
                               workerVars, dataVars
  <1>12. CASE CopierStep(c)
    BY <1>2, <1>3, <1>4, <1>5, <1>6, <1>7, <1>8, <1>10, <1>12 DEF CopierStep
  <1> QED BY <1>1, <1>2, <1>9, <1>11, <1>12

\* A worker's move from one step of its request to another, and its response.
LEMMA RequestTyping ==
  ASSUME RequestsTypeOK, NEW w \in Workers, NEW from, NEW to \in WorkerSteps,
         \/ WorkerGoto(w, from, to) /\ KeepsJob
         \/ Respond(w, from, "2xx") \/ Respond(w, from, "error")
  PROVE  RequestsTypeOK'
  <1>1. CASE WorkerGoto(w, from, to) /\ KeepsJob
    BY <1>1 DEF WorkerGoto, KeepsJob, RequestsTypeOK
  <1>2. ASSUME NEW status \in {"2xx", "error"}, Respond(w, from, status)
        PROVE  RequestsTypeOK'
    <2>1. answer' \in [Copiers -> {"none", "2xx", "error"}]
      BY <1>2 DEF Respond, RequestsTypeOK
    <2>2. server' \in [Copiers -> Workers \cup {NoWorker}]
      BY <1>2 DEF Respond, RequestsTypeOK
    <2> QED BY <1>2, <2>1, <2>2 DEF Respond, WorkerGoto, RequestsTypeOK,
                                    WorkerSteps
  <1> QED BY <1>1, <1>2

\* Every step of a worker, the ones that throw included, keeps the types.
LEMMA WorkerTyping ==
  ASSUME TypeOK, NEW w \in Workers, HasJob(w),
         WorkerStep(w) \/ WorkerThrows(w)
  PROVE  TypeOK'
  <1> USE CopyFaultsAssumption
  <1>a. w \in Actors
    BY CopyActorsAssumption
  <1>b. RequestsTypeOK /\ CopiersTypeOK /\ StoreTypeOK /\ LocksTypeOK
    BY TypeParts
  <1>c. ASSUME RequestsTypeOK', StoreTypeOK', LocksTypeOK',
               UNCHANGED <<copier, target, todo>>
        PROVE  TypeOK'
    BY <1>b, <1>c DEF TypeOK, RequestsTypeOK, CopiersTypeOK, StoreTypeOK
  <1>1. CASE CreateBucket(w) \/ LockJob(w) \/ CloseLockOfJob(w)
    <2>1. RequestsTypeOK'
      BY <1>1, <1>b, RequestTyping
      DEF CreateBucket, LockJob, CloseLockOfJob, WorkerSteps
    <2>2. LocksTypeOK'
      BY <1>1, <1>a, <1>b, LockTyping
      DEF CreateBucket, LockJob, CloseLockOfJob
    <2>3. StoreTypeOK'
      BY <1>1, <1>b
      DEF CreateBucket, LockJob, CloseLockOfJob, StoreTypeOK, dataVars
    <2> QED BY <1>1, <1>c, <2>1, <2>2, <2>3
            DEF CreateBucket, LockJob, CloseLockOfJob
  <1>2. CASE OpenLockOfJob(w) \/ DeleteLockOfJob(w)
    <2>1. RequestsTypeOK'
      BY <1>2, <1>b, RequestTyping DEF OpenLockOfJob, DeleteLockOfJob,
                                       WorkerSteps
    <2>2. job[w] \in Buckets
      BY <1>2 DEF OpenLockOfJob, DeleteLockOfJob, WorkerGoto, HasJob
    <2>3. LocksTypeOK'
      BY <1>2, <1>a, <1>b, <2>2, LockTyping DEF OpenLockOfJob,
                                               DeleteLockOfJob
    <2>4. StoreTypeOK'
      BY <1>2, <1>b DEF OpenLockOfJob, DeleteLockOfJob, StoreTypeOK, dataVars
    <2> QED BY <1>2, <1>c, <2>1, <2>3, <2>4 DEF OpenLockOfJob, DeleteLockOfJob
  <1>3. ASSUME \/ Configure(w) \/ PersistSize(w)
               \/ \E f \in Formats : SkipArchived(w, f) \/ Export(w, f)
        PROVE  TypeOK'
    <2>1. RequestsTypeOK'
      BY <1>3, <1>b DEF Configure, PersistSize, SkipArchived, Export,
           WorkerGoto, RequestsTypeOK, WorkerSteps, copierVars
    <2>2. LocksTypeOK'
      BY <1>3, <1>a, <1>b, LockTyping
      DEF Configure, PersistSize, SkipArchived, Export
    <2>3. StoreTypeOK'
      BY <1>3, <1>b DEF Configure, PersistSize, SkipArchived, Export,
                        StoreTypeOK, dataVars
    <2> QED BY <1>3, <1>c, <2>1, <2>2, <2>3 DEF Configure, PersistSize,
                 SkipArchived, Export, copierVars
  <1>4. CASE ConfigureThrows(w)
    <2>1. RequestsTypeOK'
      BY <1>4, <1>b, RequestTyping DEF ConfigureThrows, WorkerSteps
    <2>2. LocksTypeOK'
      BY <1>4, <1>a, <1>b, LockTyping DEF ConfigureThrows
    <2>3. StoreTypeOK'
      BY <1>4, <1>b DEF ConfigureThrows, StoreTypeOK, Fault, dataVars
    <2> QED BY <1>4, <1>c, <2>1, <2>2, <2>3 DEF ConfigureThrows
  <1>5. CASE CopyThrows(w) \/ TransferThrows(w)
    <2>1. RequestsTypeOK'
      BY <1>5, <1>b DEF CopyThrows, TransferThrows, RequestsTypeOK,
                        WorkerSteps, copierVars
    <2>2. LocksTypeOK'
      BY <1>5, <1>a, <1>b, LockTyping DEF CopyThrows, TransferThrows
    <2>3. StoreTypeOK'
      BY <1>5, <1>b DEF CopyThrows, TransferThrows, Trouble, Fault,
                        StoreTypeOK, dataVars
    <2> QED BY <1>5, <1>c, <2>1, <2>2, <2>3 DEF CopyThrows, TransferThrows,
                                                copierVars
  <1>6. CASE Transfer(w)
    <2>1. RequestsTypeOK'
      BY <1>6, <1>b, RequestTyping DEF Transfer, WorkerSteps
    <2>2. LocksTypeOK'
      BY <1>6, <1>a, <1>b, LockTyping DEF Transfer
    <2>3. format[w] \in Formats
      BY <1>6 DEF Transfer, WorkerGoto, HasJob
    <2>4. StoreTypeOK'
      BY <1>6, <1>b, <2>3 DEF Transfer, StoreTypeOK
    <2> QED BY <1>6, <1>c, <2>1, <2>2, <2>4 DEF Transfer
  <1> QED BY <1>1, <1>2, <1>3, <1>4, <1>5, <1>6 DEF WorkerStep, WorkerThrows

\* So does what Splunk, the archiving of frozen buckets and the server's
\* process do.
LEMMA RestTyping ==
  ASSUME TypeOK,
         \/ \E b \in Buckets : Freeze(b) \/ \E f \in Formats : ArchiveFrozen(b, f)
         \/ ServerCrashes \/ ServerStarts \/ UNCHANGED vars
  PROVE  TypeOK'
  <1> USE CopyFaultsAssumption
  <1>1. CASE ServerCrashes
    <2>1. LocksTypeOK'
      BY <1>1 DEF ServerCrashes, ExitProcess, TypeOK, LocksTypeOK
    <2>2. RequestsTypeOK'
      BY <1>1 DEF ServerCrashes, RequestsTypeOK, WorkerSteps, TypeOK
    <2>3. up' \in BOOLEAN
      BY <1>1, Zenon DEF ServerCrashes
    <2>4. faults' \in 0..MaxFaults
      BY <1>1 DEF ServerCrashes, TypeOK, Fault
    <2>5. StoreTypeOK'
      BY <1>1, <2>3, <2>4 DEF ServerCrashes, StoreTypeOK, TypeOK, dataVars
    <2>6. CopiersTypeOK'
      BY <1>1 DEF ServerCrashes, CopiersTypeOK, TypeOK
    <2> QED BY <2>1, <2>2, <2>5, <2>6 DEF TypeOK, RequestsTypeOK,
                                         CopiersTypeOK, StoreTypeOK
  <1>2. CASE ServerStarts
    BY <1>2 DEF ServerStarts, TypeOK, LocksTypeOK, lockVars, copierVars,
                workerVars, dataVars
  <1>3. ASSUME NEW b \in Buckets,
               Freeze(b) \/ \E f \in Formats : ArchiveFrozen(b, f)
        PROVE  TypeOK'
    BY <1>3 DEF Freeze, ArchiveFrozen, TypeOK, LocksTypeOK, lockVars,
                copierVars, workerVars
  <1>4. CASE UNCHANGED vars
    BY <1>4 DEF TypeOK, LocksTypeOK, vars, lockVars, copierVars, workerVars,
                dataVars
  <1> QED BY <1>1, <1>2, <1>3, <1>4

-----------------------------------------------------------------------------
(***************************************************************************)
(* Frames: what a step leaves alone                                        *)
(***************************************************************************)

\* A copier that moves on without a request, an answer or a receipt.
CopierMoves(c) ==
  \/ \E b \in Buckets : Launch(c, b) \/ NextBucket(c, b)
  \/ LaunchForOther(c)   \/ ListCold(c)         \/ BuildColdBuckets(c)
  \/ CopierExits(c)      \/ OpenLockOfTarget(c) \/ TryLockExclusive(c)
  \/ ConvertToShared(c)  \/ TryLockShared(c)    \/ PostRefused(c)
  \/ CreateReceiptThrows(c) \/ CloseLockOfTarget(c)

\* Every step is one of these.
LEMMA NextCases ==
  ASSUME [Next]_vars
  PROVE  \/ \E c \in Copiers :
              \/ CopierMoves(c) \/ Answered(c) \/ CreateReceipt(c)
              \/ CopierCrashes(c)
              \/ \E w \in Workers : Post(c, w)
         \/ \E w \in Workers : WorkerStep(w) \/ WorkerThrows(w)
         \/ ServerCrashes \/ ServerStarts \/ UNCHANGED vars
         \/ \E b \in Buckets : Freeze(b) \/ \E f \in Formats : ArchiveFrozen(b, f)
  BY DEF Next, CopierStep, CopierMoves

\* Such a copier was not waiting, will not be, and touches nobody else.
LEMMA MovesFrame ==
  ASSUME TypeOK, NEW c \in Copiers, HasTarget(c), CopierMoves(c)
  PROVE  /\ UNCHANGED <<server, answer, workerVars, stored, receipts>>
         /\ copier[c] # "wait" /\ copier'[c] \notin {"wait", "receipt"}
         /\ \A d \in Copiers \ {c} :
              copier'[d] = copier[d] /\ target'[d] = target[d]
         /\ HasTarget(c)'
  <1> USE DEF CopierGoto, TypeOK, HasTarget
  <1>1. ASSUME NEW b \in Buckets, Launch(c, b) \/ NextBucket(c, b)
        PROVE  /\ UNCHANGED <<server, answer, workerVars, stored, receipts>>
               /\ copier[c] # "wait" /\ copier'[c] \notin {"wait", "receipt"}
               /\ \A d \in Copiers \ {c} :
                    copier'[d] = copier[d] /\ target'[d] = target[d]
               /\ HasTarget(c)'
    BY <1>1 DEF Launch, NextBucket, dataVars
  <1>2. CASE LaunchForOther(c) \/ ListCold(c) \/ BuildColdBuckets(c)
             \/ CopierExits(c) \/ CloseLockOfTarget(c)
    BY <1>2 DEF LaunchForOther, ListCold, BuildColdBuckets, CopierExits,
                CloseLockOfTarget, dataVars
  <1>3. CASE OpenLockOfTarget(c) \/ TryLockExclusive(c) \/ ConvertToShared(c)
             \/ TryLockShared(c) \/ PostRefused(c) \/ CreateReceiptThrows(c)
    BY <1>3 DEF OpenLockOfTarget, TryLockExclusive, ConvertToShared,
                TryLockShared, PostRefused, CreateReceiptThrows, dataVars
  <1> QED BY <1>1, <1>2, <1>3 DEF CopierMoves

\* What a worker is at.
Request(w) == <<worker[w], job[w], formats[w], format[w], failed[w]>>

\* A step of a worker touches no copier but those that wait for it, and those
\* only by an answer at the end of the request, and no other worker.
LEMMA WorkerFrame ==
  ASSUME TypeOK, NEW w \in Workers, WorkerStep(w) \/ WorkerThrows(w)
  PROVE  /\ UNCHANGED <<copier, target, receipts>>
         /\ \A v \in Workers \ {w} : Request(v)' = Request(v)
         /\ worker[w] # "idle"
         /\ \/ UNCHANGED <<server, answer>> /\ worker'[w] # "idle"
               /\ job'[w] = job[w]
            \/ \E status \in {"2xx", "error"} :
                 /\ Respond(w, worker[w], status)
                 /\ status = "2xx" => worker[w] = "close" /\ ~failed[w]
  <1> DEFINE Goal ==
        /\ UNCHANGED <<copier, target, receipts>>
        /\ \A v \in Workers \ {w} : Request(v)' = Request(v)
        /\ worker[w] # "idle"
        /\ \/ UNCHANGED <<server, answer>> /\ worker'[w] # "idle"
              /\ job'[w] = job[w]
           \/ \E status \in {"2xx", "error"} :
                /\ Respond(w, worker[w], status)
                /\ status = "2xx" => worker[w] = "close" /\ ~failed[w]
  <1>1. ASSUME NEW from, NEW to, WorkerGoto(w, from, to), KeepsJob,
               from # "idle", to # "idle", UNCHANGED <<copier, target, receipts>>
        PROVE  Goal
    BY <1>1 DEF WorkerGoto, KeepsJob, Request, TypeOK
  <1>2. ASSUME NEW from, NEW status \in {"2xx", "error"},
               Respond(w, from, status), from # "idle",
               status = "2xx" => from = "close" /\ ~failed[w],
               UNCHANGED <<copier, target, receipts>>
        PROVE  Goal
    <2>1. worker[w] = from
      BY <1>2 DEF Respond, WorkerGoto
    <2>2. \A v \in Workers \ {w} : Request(v)' = Request(v)
      BY <1>2 DEF Respond, WorkerGoto, Request, TypeOK
    <2> QED BY <1>2, <2>1, <2>2
  <1>3. CASE CreateBucket(w)
    BY <1>1, <1>2, <1>3 DEF CreateBucket, dataVars
  <1>4. CASE LockJob(w)
    BY <1>1, <1>2, <1>4 DEF LockJob, dataVars
  <1>5. CASE OpenLockOfJob(w) \/ Transfer(w)
    BY <1>1, <1>5 DEF OpenLockOfJob, Transfer, dataVars
  <1>6. CASE DeleteLockOfJob(w)
    BY <1>1, <1>6 DEF DeleteLockOfJob, dataVars
  <1>7. CASE ConfigureThrows(w)
    BY <1>2, <1>7 DEF ConfigureThrows, dataVars
  <1>8. CASE CloseLockOfJob(w)
    <2> DEFINE status == IF failed[w] THEN "error" ELSE "2xx"
    <2>1. status \in {"2xx", "error"} /\ (status = "2xx" => ~failed[w])
      OBVIOUS
    <2>2. Respond(w, "close", status) /\ UNCHANGED <<copier, target, receipts>>
      BY <1>8 DEF CloseLockOfJob, dataVars
    <2> HIDE DEF status
    <2> QED BY <1>2, <2>1, <2>2
  <1>9. CASE \/ Configure(w) \/ PersistSize(w) \/ CopyThrows(w)
             \/ TransferThrows(w)
             \/ \E f \in Formats : SkipArchived(w, f) \/ Export(w, f)
    BY <1>9 DEF Configure, PersistSize, CopyThrows, TransferThrows,
         SkipArchived, Export, WorkerGoto, Request, TypeOK, copierVars, dataVars
  <1> QED BY <1>3, <1>4, <1>5, <1>6, <1>7, <1>8, <1>9
          DEF WorkerStep, WorkerThrows

\* What is in the archive stays there.
LEMMA ArchiveGrows ==
  ASSUME TypeOK, [Next]_vars, NEW b \in Buckets
  PROVE  stored[b] \subseteq stored'[b]
  <1>1. ASSUME NEW w \in Workers, Transfer(w)
        PROVE  stored[b] \subseteq stored'[b]
    BY <1>1 DEF Transfer, TypeOK
  <1>2. ASSUME NEW x \in Buckets, NEW f \in Formats, ArchiveFrozen(x, f)
        PROVE  stored[b] \subseteq stored'[b]
    BY <1>2 DEF ArchiveFrozen, TypeOK
  <1>3. ASSUME NEW w \in Workers, WorkerStep(w) \/ WorkerThrows(w),
               ~Transfer(w)
        PROVE  stored' = stored
    BY <1>3 DEF WorkerStep, WorkerThrows, CreateBucket, OpenLockOfJob,
         LockJob, Configure, ConfigureThrows, SkipArchived, Export,
         CopyThrows, PersistSize, TransferThrows, DeleteLockOfJob,
         CloseLockOfJob, dataVars
  <1>4. ASSUME NEW c \in Copiers,
               \/ CopierMoves(c) \/ Answered(c) \/ CreateReceipt(c)
               \/ CopierCrashes(c)
               \/ \E w \in Workers : Post(c, w)
        PROVE  stored' = stored
    BY <1>4 DEF CopierMoves, Launch, NextBucket, LaunchForOther, ListCold,
         BuildColdBuckets, CopierExits, OpenLockOfTarget, TryLockExclusive,
         ConvertToShared, TryLockShared, PostRefused, CreateReceiptThrows,
         CloseLockOfTarget, Answered, CreateReceipt, CopierCrashes, Post,
         dataVars
  <1>5. ASSUME \/ ServerCrashes \/ ServerStarts \/ UNCHANGED vars
               \/ \E x \in Buckets : Freeze(x)
        PROVE  stored' = stored
    BY <1>5 DEF ServerCrashes, ServerStarts, Freeze, vars, dataVars
  <1> QED BY <1>1, <1>2, <1>3, <1>4, <1>5, NextCases

-----------------------------------------------------------------------------
(***************************************************************************)
(* The parts of the invariant                                              *)
(***************************************************************************)

\* A copier has a target from where it opens its lock to where it closes it.
LEMMA TargetStep ==
  ASSUME TypeOK, [Next]_vars, \A c \in Copiers : HasTarget(c)
  PROVE  \A c \in Copiers : HasTarget(c)'
  <1> SUFFICES ASSUME NEW d \in Copiers
               PROVE  HasTarget(d)'
    OBVIOUS
  <1>1. ASSUME UNCHANGED <<copier, target>>
        PROVE  HasTarget(d)'
    BY <1>1 DEF HasTarget
  <1>2. ASSUME NEW c \in Copiers, CopierMoves(c)
        PROVE  HasTarget(d)'
    BY <1>2, MovesFrame DEF HasTarget
  <1>3. ASSUME NEW c \in Copiers,
               \/ Answered(c) \/ CreateReceipt(c) \/ CopierCrashes(c)
               \/ \E w \in Workers : Post(c, w)
        PROVE  HasTarget(d)'
    BY <1>3 DEF Answered, CreateReceipt, CopierCrashes, Post, CopierGoto,
                HasTarget, TypeOK
  <1>4. ASSUME \/ \E w \in Workers : WorkerStep(w) \/ WorkerThrows(w)
               \/ ServerCrashes \/ ServerStarts \/ UNCHANGED vars
               \/ \E b \in Buckets :
                    Freeze(b) \/ \E f \in Formats : ArchiveFrozen(b, f)
        PROVE  UNCHANGED <<copier, target>>
    BY <1>4, WorkerFrame DEF ServerCrashes, ServerStarts, vars, copierVars,
                             Freeze, ArchiveFrozen
  <1> QED BY <1>1, <1>2, <1>3, <1>4, NextCases

\* What changes a worker's request: a copier that posts, itself, a crash.
LEMMA RequestCases ==
  ASSUME TypeOK, [Next]_vars, NEW w \in Workers,
         \A c \in Copiers : HasTarget(c)
  PROVE  \/ Request(w)' = Request(w)
         \/ \E c \in Copiers : Post(c, w)
         \/ WorkerStep(w) \/ WorkerThrows(w)
         \/ worker'[w] = "idle"
  <1>1. ASSUME NEW c \in Copiers, CopierMoves(c)
        PROVE  Request(w)' = Request(w)
    BY <1>1, MovesFrame DEF Request, workerVars
  <1>2. ASSUME NEW c \in Copiers,
               Answered(c) \/ CreateReceipt(c) \/ CopierCrashes(c)
        PROVE  Request(w)' = Request(w)
    BY <1>2 DEF Answered, CreateReceipt, CopierCrashes, Request, workerVars
  <1>3. ASSUME NEW c \in Copiers, NEW v \in Workers, v # w, Post(c, v)
        PROVE  Request(w)' = Request(w)
    BY <1>3 DEF Post, Request, TypeOK
  <1>4. ASSUME NEW v \in Workers, v # w, WorkerStep(v) \/ WorkerThrows(v)
        PROVE  Request(w)' = Request(w)
    BY <1>4, WorkerFrame
  <1>5. ASSUME \/ ServerStarts \/ UNCHANGED vars
               \/ \E b \in Buckets :
                    Freeze(b) \/ \E f \in Formats : ArchiveFrozen(b, f)
        PROVE  Request(w)' = Request(w)
    BY <1>5 DEF ServerStarts, Freeze, ArchiveFrozen, vars, workerVars, Request
  <1>6. ASSUME ServerCrashes
        PROVE  worker'[w] = "idle"
    BY <1>6 DEF ServerCrashes
  <1> QED BY <1>1, <1>2, <1>3, <1>4, <1>5, <1>6, NextCases

\* A worker has a bucket to work on from its request to its response.
LEMMA JobStep ==
  ASSUME TypeOK, [Next]_vars, NEW w \in Workers, HasJob(w),
         \A c \in Copiers : HasTarget(c)
  PROVE  HasJob(w)'
  <1> USE DEF HasJob
  <1>1. CASE Request(w)' = Request(w)
    BY <1>1 DEF Request
  <1>2. ASSUME NEW c \in Copiers, Post(c, w)
        PROVE  HasJob(w)'
    BY <1>2 DEF Post, CopierGoto, HasTarget, TypeOK
  <1>3. CASE worker'[w] = "idle"
    BY <1>3
  <1>4. CASE WorkerStep(w) \/ WorkerThrows(w)
    <2>1. ASSUME worker'[w] # "idle"
          PROVE  job'[w] \in Buckets
      <3>1. job'[w] = job[w] /\ worker[w] # "idle"
        BY <1>4, <2>1, WorkerFrame DEF Respond, WorkerGoto, TypeOK
      <3> QED BY <3>1
    <2>2. ASSUME worker'[w] \in {"transfer", "size"}
          PROVE  format'[w] \in Formats
      BY <1>4, <2>2 DEF WorkerStep, WorkerThrows, CreateBucket, OpenLockOfJob,
           LockJob, Configure, ConfigureThrows, SkipArchived, Export, Transfer,
           CopyThrows, PersistSize, TransferThrows, DeleteLockOfJob,
           CloseLockOfJob, WorkerGoto, Respond, KeepsJob, TypeOK
    <2> QED BY <2>1, <2>2
  <1> QED BY <1>1, <1>2, <1>3, <1>4, RequestCases

\* What a worker has found out about the archive stays true.
LEMMA KnowsStep ==
  ASSUME TypeOK, TypeOK', [Next]_vars, NEW w \in Workers, HasJob(w), Knows(w),
         \A c \in Copiers : HasTarget(c)
  PROVE  Knows(w)'
  <1>a. ASSUME job[w] \in Buckets
        PROVE  /\ stored[job[w]] \subseteq stored'[job[w]]
               /\ stored'[job[w]] \subseteq Formats
    <2>1. stored[job[w]] \subseteq stored'[job[w]]
      BY <1>a, ArchiveGrows
    <2>2. stored'[job[w]] \subseteq Formats
      BY <1>a DEF TypeOK
    <2> QED BY <2>1, <2>2
  <1>1. CASE Request(w)' = Request(w)
    <2>1. /\ worker'[w] = worker[w] /\ job'[w] = job[w]
          /\ formats'[w] = formats[w] /\ format'[w] = format[w]
          /\ failed'[w] = failed[w]
      BY <1>1 DEF Request
    <2>2. CASE worker[w] = "idle"
      BY <2>1, <2>2 DEF Knows
    <2>3. CASE worker[w] # "idle"
      BY <1>a, <2>1, <2>3 DEF Knows, HasJob
    <2> QED BY <2>2, <2>3
  <1>2. ASSUME NEW c \in Copiers, Post(c, w)
        PROVE  Knows(w)'
    BY <1>2 DEF Post, TypeOK, Knows
  <1>3. CASE worker'[w] = "idle"
    BY <1>3 DEF Knows
  <1>4. CASE WorkerStep(w) \/ WorkerThrows(w)
    <2>1. CASE CreateBucket(w) \/ OpenLockOfJob(w) \/ LockJob(w)
               \/ ConfigureThrows(w) \/ CloseLockOfJob(w)
      BY <2>1 DEF CreateBucket, OpenLockOfJob, LockJob, ConfigureThrows,
           CloseLockOfJob, Respond, WorkerGoto, Knows, TypeOK
    <2>2. CASE Configure(w)
      BY <2>2 DEF Configure, WorkerGoto, TypeOK, Knows
    <2>3. ASSUME NEW f \in Formats, SkipArchived(w, f) \/ Export(w, f)
          PROVE  Knows(w)'
      BY <2>3 DEF SkipArchived, Export, WorkerGoto, TypeOK, Knows, HasJob,
                  dataVars
    <2>4. CASE CopyThrows(w) \/ TransferThrows(w)
      BY <2>4 DEF CopyThrows, TransferThrows, TypeOK, Knows
    <2>5. CASE Transfer(w)
      <3>1. job[w] \in Buckets /\ format[w] \in Formats
        BY <2>5 DEF Transfer, WorkerGoto, HasJob
      <3>2. format[w] \in stored'[job[w]]
        BY <2>5, <3>1 DEF Transfer, TypeOK
      <3>3. /\ worker[w] = "transfer" /\ worker'[w] = "size"
            /\ UNCHANGED <<job, formats, format, failed>>
        BY <2>5 DEF Transfer, WorkerGoto, KeepsJob, TypeOK
      <3> QED BY <1>a, <3>1, <3>2, <3>3 DEF Knows
    <2>6. CASE PersistSize(w)
      BY <2>6, <1>a DEF PersistSize, WorkerGoto, TypeOK, Knows, HasJob,
                        dataVars
    <2>7. CASE DeleteLockOfJob(w)
      BY <2>7, <1>a DEF DeleteLockOfJob, WorkerGoto, KeepsJob, TypeOK, Knows,
                        HasJob, dataVars
    <2> QED BY <1>4, <2>1, <2>2, <2>3, <2>4, <2>5, <2>6, <2>7
            DEF WorkerStep, WorkerThrows
  <1> QED BY <1>1, <1>2, <1>3, <1>4, RequestCases

\* A copier goes on waiting for the worker that has its target.
LEMMA WaitsStep ==
  ASSUME TypeOK, [Next]_vars,
         \A c \in Copiers : HasTarget(c) /\ Waits(c)
  PROVE  \A c \in Copiers : Waits(c)'
  <1> SUFFICES ASSUME NEW d \in Copiers
               PROVE  Waits(d)'
    OBVIOUS
  <1> USE CopyNoneAssumption DEF Waits
  <1>1. ASSUME NEW c \in Copiers, CopierMoves(c)
        PROVE  Waits(d)'
    <2>1. CASE c = d
      BY <1>1, <2>1, MovesFrame
    <2>2. CASE c # d
      BY <1>1, <2>2, MovesFrame DEF workerVars
    <2> QED BY <2>1, <2>2
  <1>2. ASSUME NEW c \in Copiers,
               Answered(c) \/ CreateReceipt(c) \/ CopierCrashes(c)
        PROVE  Waits(d)'
    BY <1>2 DEF Answered, CreateReceipt, CopierCrashes, CopierGoto, TypeOK,
                workerVars
  <1>3. ASSUME NEW c \in Copiers, NEW w \in Workers, Post(c, w)
        PROVE  Waits(d)'
    <2>1. CASE c = d
      BY <1>3, <2>1 DEF Post, CopierGoto, TypeOK
    <2>2. CASE c # d
      <3>1. /\ server'[d] = server[d] /\ copier'[d] = copier[d]
            /\ target' = target
        BY <1>3, <2>2 DEF Post, CopierGoto, TypeOK
      <3>2. ASSUME server[d] # NoWorker
            PROVE  server[d] # w
        BY <1>3, <3>2 DEF Post
      <3>3. ASSUME server[d] # NoWorker
            PROVE  worker'[server[d]] = worker[server[d]]
                   /\ job'[server[d]] = job[server[d]]
        BY <1>3, <3>2, <3>3 DEF Post, TypeOK
      <3> QED BY <3>1, <3>3
    <2> QED BY <2>1, <2>2
  <1>4. ASSUME NEW w \in Workers, WorkerStep(w) \/ WorkerThrows(w)
        PROVE  Waits(d)'
    <2>1. \A v \in Workers \ {w} : worker'[v] = worker[v] /\ job'[v] = job[v]
      BY <1>4, WorkerFrame DEF Request
    <2>2. UNCHANGED <<copier, target>>
      BY <1>4, WorkerFrame
    <2>3. CASE UNCHANGED <<server, answer>> /\ worker'[w] # "idle"
               /\ job'[w] = job[w]
      BY <2>1, <2>2, <2>3 DEF TypeOK
    <2>4. ASSUME NEW status, Respond(w, worker[w], status)
          PROVE  Waits(d)'
      <3>1. server'[d] = IF server[d] = w THEN NoWorker ELSE server[d]
        BY <2>4 DEF Respond
      <3> QED BY <2>1, <2>2, <3>1 DEF TypeOK
    <2> QED BY <1>4, <2>3, <2>4, WorkerFrame
  <1>5. CASE ServerCrashes
    BY <1>5 DEF ServerCrashes
  <1>6. ASSUME \/ ServerStarts \/ UNCHANGED vars
               \/ \E b \in Buckets :
                    Freeze(b) \/ \E f \in Formats : ArchiveFrozen(b, f)
        PROVE  Waits(d)'
    BY <1>6 DEF ServerStarts, Freeze, ArchiveFrozen, vars, workerVars,
                copierVars
  <1> QED BY <1>1, <1>2, <1>3, <1>4, <1>5, <1>6, NextCases

\* A 2xx that a copier gets means that its target is in the archive, which it
\* still does when the copier comes to write the receipt.
LEMMA ToldStep ==
  ASSUME TypeOK, TypeOK', [Next]_vars,
         \A c \in Copiers : HasTarget(c) /\ Waits(c) /\ Told(c),
         \A w \in Workers : HasJob(w) /\ Knows(w)
  PROVE  \A c \in Copiers : Told(c)'
  <1> SUFFICES ASSUME NEW d \in Copiers
               PROVE  Told(d)'
    OBVIOUS
  <1>a. ASSUME NEW b \in Buckets, stored[b] = Formats
        PROVE  stored'[b] = Formats
    <2>1. stored[b] \subseteq stored'[b]
      BY ArchiveGrows
    <2>2. stored'[b] \subseteq Formats
      BY DEF TypeOK
    <2> QED BY <1>a, <2>1, <2>2
  <1>b. ASSUME answer'[d] \in {answer[d], "none", "error"},
               copier'[d] = copier[d], target'[d] = target[d]
        PROVE  Told(d)'
    BY <1>a, <1>b DEF Told, HasTarget
  <1>1. ASSUME NEW c \in Copiers, CopierMoves(c)
        PROVE  Told(d)'
    <2>1. CASE c = d
      BY <1>1, <2>1, MovesFrame DEF Told
    <2>2. CASE c # d
      BY <1>1, <1>b, <2>2, MovesFrame
    <2> QED BY <2>1, <2>2
  <1>2. ASSUME NEW c \in Copiers,
               \/ Answered(c) \/ CreateReceipt(c) \/ CopierCrashes(c)
               \/ \E w \in Workers : Post(c, w)
        PROVE  Told(d)'
    <2>1. CASE c # d
      BY <1>2, <1>b, <2>1 DEF Answered, CreateReceipt, CopierCrashes, Post,
                              CopierGoto, TypeOK
    <2>2. CASE c = d /\ Answered(c)
      BY <1>a, <2>2 DEF Answered, CopierGoto, Told, HasTarget, TypeOK
    <2>3. CASE c = d /\ (CopierCrashes(c) \/ \E w \in Workers : Post(c, w))
      BY <2>3 DEF CopierCrashes, Post, CopierGoto, Told, TypeOK
    <2>4. CASE c = d /\ CreateReceipt(c)
      BY <2>4 DEF CreateReceipt, CopierGoto, Told, TypeOK
    <2> QED BY <1>2, <2>1, <2>2, <2>3, <2>4
  <1>3. ASSUME NEW w \in Workers, WorkerStep(w) \/ WorkerThrows(w)
        PROVE  Told(d)'
    <2>1. UNCHANGED <<copier, target>>
      BY <1>3, WorkerFrame
    <2>2. CASE UNCHANGED <<server, answer>>
      BY <1>b, <2>1, <2>2
    <2>3. ASSUME NEW status \in {"2xx", "error"},
                 Respond(w, worker[w], status),
                 status = "2xx" => worker[w] = "close" /\ ~failed[w]
          PROVE  Told(d)'
      <3>1. answer'[d] = IF server[d] = w THEN status ELSE answer[d]
        BY <2>3 DEF Respond
      <3>2. CASE server[d] = w /\ status = "2xx"
        <4>1. copier[d] = "wait" /\ target[d] = job[w]
          BY <3>2, CopyNoneAssumption DEF Waits
        <4>2. job[w] \in Buckets /\ stored[job[w]] = Formats
          BY <2>3, <3>2 DEF Knows, HasJob
        <4>3. stored'[target[d]] = Formats
          BY <1>a, <4>1, <4>2
        <4> QED BY <2>1, <4>1, <4>3 DEF Told
      <3>3. CASE ~(server[d] = w /\ status = "2xx")
        BY <1>b, <2>1, <3>1, <3>3
      <3> QED BY <3>2, <3>3
    <2> QED BY <1>3, <2>2, <2>3, WorkerFrame
  <1>4. ASSUME \/ ServerCrashes \/ ServerStarts \/ UNCHANGED vars
               \/ \E b \in Buckets :
                    Freeze(b) \/ \E f \in Formats : ArchiveFrozen(b, f)
        PROVE  Told(d)'
    BY <1>b, <1>4 DEF ServerCrashes, ServerStarts, Freeze, ArchiveFrozen,
                      vars, copierVars
  <1> QED BY <1>1, <1>2, <1>3, <1>4, NextCases

\* Only a copier that was told so writes a receipt, for its target.
LEMMA ReceiptStep ==
  ASSUME TypeOK, TypeOK', [Next]_vars, ReceiptMeansArchived,
         \A c \in Copiers : HasTarget(c) /\ Told(c)
  PROVE  ReceiptMeansArchived'
  <1>a. ASSUME NEW b \in Buckets, stored[b] = Formats
        PROVE  stored'[b] = Formats
    <2>1. stored[b] \subseteq stored'[b]
      BY ArchiveGrows
    <2>2. stored'[b] \subseteq Formats
      BY DEF TypeOK
    <2> QED BY <1>a, <2>1, <2>2
  <1>1. ASSUME UNCHANGED receipts
        PROVE  ReceiptMeansArchived'
    BY <1>1, <1>a DEF ReceiptMeansArchived, TypeOK
  <1>2. ASSUME NEW c \in Copiers, CreateReceipt(c)
        PROVE  ReceiptMeansArchived'
    <2>1. /\ target[c] \in Buckets /\ stored[target[c]] = Formats
          /\ receipts' = receipts \cup {target[c]}
      BY <1>2 DEF CreateReceipt, CopierGoto, HasTarget, Told
    <2> QED BY <1>a, <2>1 DEF ReceiptMeansArchived, TypeOK
  <1>3. ASSUME NEW c \in Copiers,
               \/ CopierMoves(c) \/ Answered(c) \/ CopierCrashes(c)
               \/ \E w \in Workers : Post(c, w)
        PROVE  UNCHANGED receipts
    BY <1>3, MovesFrame DEF Answered, CopierCrashes, Post, dataVars
  <1>4. ASSUME \/ \E w \in Workers : WorkerStep(w) \/ WorkerThrows(w)
               \/ ServerCrashes \/ ServerStarts \/ UNCHANGED vars
               \/ \E b \in Buckets :
                    Freeze(b) \/ \E f \in Formats : ArchiveFrozen(b, f)
        PROVE  UNCHANGED receipts
    BY <1>4, WorkerFrame DEF ServerCrashes, ServerStarts, Freeze,
                             ArchiveFrozen, vars, dataVars
  <1> QED BY <1>1, <1>2, <1>3, <1>4, NextCases

-----------------------------------------------------------------------------
(***************************************************************************)
(* The theorems                                                            *)
(***************************************************************************)

\* All buckets are warm and nobody runs yet.
LEMMA InitIInv == Init => IInv
  <1> SUFFICES ASSUME Init
               PROVE  IInv
    OBVIOUS
  <1>1. LocksTypeOK
    BY DEF Init, LocksInit, LocksTypeOK
  <1>2. TypeOK
    BY <1>1, CopyFaultsAssumption DEF Init, TypeOK, CopierSteps, WorkerSteps
  <1>3. \A c \in Copiers : HasTarget(c) /\ Waits(c) /\ Told(c)
    BY DEF Init, HasTarget, Waits, Told
  <1>4. \A w \in Workers : HasJob(w) /\ Knows(w)
    BY DEF Init, HasJob, Knows
  <1> QED BY <1>2, <1>3, <1>4 DEF IInv, Init, ReceiptMeansArchived

\* Every step of the copiers, the workers and their environment keeps it.
LEMMA NextIInv == IInv /\ [Next]_vars => IInv'
  <1> SUFFICES ASSUME IInv, [Next]_vars
               PROVE  IInv'
    OBVIOUS
  <1>1. TypeOK'
    <2>1. ASSUME NEW c \in Copiers,
                 \/ \E b \in Buckets : Launch(c, b)
                 \/ LaunchForOther(c) \/ CopierStep(c)
                 \/ CreateReceiptThrows(c) \/ CopierCrashes(c)
          PROVE  TypeOK'
      BY <2>1, CopierTyping DEF IInv
    <2>2. ASSUME NEW w \in Workers, WorkerStep(w) \/ WorkerThrows(w)
          PROVE  TypeOK'
      BY <2>2, WorkerTyping DEF IInv
    <2>3. ASSUME \/ ServerCrashes \/ ServerStarts \/ UNCHANGED vars
                 \/ \E b \in Buckets :
                      Freeze(b) \/ \E f \in Formats : ArchiveFrozen(b, f)
          PROVE  TypeOK'
      BY <2>3, RestTyping DEF IInv
    <2> QED BY <2>1, <2>2, <2>3 DEF Next
  <1>2. \A c \in Copiers : HasTarget(c)'
    BY TargetStep DEF IInv
  <1>3. \A w \in Workers : HasJob(w)'
    BY JobStep DEF IInv
  <1>4. \A w \in Workers : Knows(w)'
    BY <1>1, KnowsStep DEF IInv
  <1>5. \A c \in Copiers : Waits(c)'
    BY WaitsStep DEF IInv
  <1>6. \A c \in Copiers : Told(c)'
    BY <1>1, ToldStep DEF IInv
  <1>7. ReceiptMeansArchived'
    BY <1>1, ReceiptStep DEF IInv
  <1> QED BY <1>1, <1>2, <1>3, <1>4, <1>5, <1>6, <1>7 DEF IInv

\* The invariant holds in every state of every behaviour.
LEMMA Invariance == Spec => []IInv
  BY InitIInv, NextIInv, PTL DEF Spec

\* Type correctness of the copiers, the workers, the lock files and the data.
THEOREM Typing == Spec => []TypeOK
  <1>1. IInv => TypeOK
    BY DEF IInv
  <1> QED BY <1>1, Invariance, PTL

\* However many copiers and workers race for a bucket, whatever fails and
\* whichever answers are lost: a bucket with a copy receipt is in the archive
\* in every format.
THEOREM ReceiptsAreTrue == Spec => []ReceiptMeansArchived
  <1>1. IInv => ReceiptMeansArchived
    BY DEF IInv
  <1> QED BY <1>1, Invariance, PTL
=============================================================================
