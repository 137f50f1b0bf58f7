-------------------------- MODULE ArchivingProofs ---------------------------
(***************************************************************************)
(* Proofs about Archiving for any number of freezers, workers, buckets and *)
(* formats, any faults, and any bound on them.                             *)
(*                                                                         *)
(* NoDataLoss is not inductive: that a deleted bucket is archived follows  *)
(* from what its worker has found out about the archive, format by format, *)
(* since it began its loop (Knows), and that depends on the archive never  *)
(* losing what another worker has found in it, and on the local bucket     *)
(* being whole as long as a format is missing (Intact).  The promise wants *)
(* besides who may be at a cold bucket (OInv), and that no two workers     *)
(* have one lock file open and locked is an invariant of its own (LInv).   *)
(***************************************************************************)
EXTENDS Archiving, TLAPS

\* A worker that is not idle has a bucket, and an endpoint that discards has
\* a replicated one.
HasJob(w) ==
  /\ worker[w] # "idle" => job[w] \in Buckets
  /\ worker[w] = "discard" => job[w] \in Replicated
  /\ worker[w] \in {"transfer", "size"} => format[w] \in Formats

\* The archive has something of the bucket in the format.
Present(b, f) == stored[b][f] # "absent"

\* What the loop over the formats has left behind is in the archive, unless
\* the loop will end with an exception.
Knows(w) ==
  /\ worker[w] = "copy" /\ ~failed[w] =>
       \A f \in Formats \ formats[w] : Present(job[w], f)
  /\ worker[w] = "transfer" /\ ~failed[w] =>
       \A f \in Formats \ formats[w] : f # format[w] => Present(job[w], f)
  /\ worker[w] = "size" /\ ~failed[w] =>
       \A f \in Formats \ formats[w] : Present(job[w], f)
  /\ worker[w] \in {"delete", "tear"} =>
       \A f \in Formats : Present(job[w], f)

\* A freezer that is at a bucket has one.
HasTarget(c) ==
  freezer[c] \in {"open", "lock", "convert", "reshare", "move", "post",
                  "wait", "close", "abort"} => target[c] \in Buckets

\* An original bucket is archived whole, and before it is deleted.
Intact(b) ==
  /\ \A f \in Formats : stored[b][f] # "torn"
  /\ place[b] \in {"torn", "gone"} => \A f \in Formats : Present(b, f)

IInv ==
  /\ TypeOK
  /\ \A c \in Freezers : HasTarget(c)
  /\ \A w \in Workers : HasJob(w) /\ Knows(w)
  /\ \A b \in Buckets \ Replicated : Intact(b)

-----------------------------------------------------------------------------
(***************************************************************************)
(* Types                                                                   *)
(***************************************************************************)

\* Every operation on lock files keeps the lock table well formed.
LEMMA LockTyping ==
  ASSUME LocksTypeOK, NEW a \in Actors,
         \/ UNCHANGED lockVars
         \/ \E b \in Buckets : OpenLockFile(a, b) \/ DeleteLockFile(b)
         \/ \E m \in {"none", "shared", "exclusive"} : Lock(a, m)
         \/ CloseLock(a)
         \/ LeakLock(a)
         \/ \E p : ExitProcess(p)
  PROVE  LocksTypeOK'
  <1>1. CASE UNCHANGED lockVars
    BY <1>1 DEF LocksTypeOK, lockVars
  <1>2. ASSUME NEW b \in Buckets, OpenLockFile(a, b)
        PROVE  LocksTypeOK'
    <2>1. InodeAt(b) \subseteq Inodes
      BY DEF InodeAt, FreeInodes, LocksTypeOK
    <2> QED BY <1>2, <2>1 DEF OpenLockFile, LocksTypeOK
  <1>3. ASSUME NEW b \in Buckets, DeleteLockFile(b)
        PROVE  LocksTypeOK'
    BY <1>3 DEF DeleteLockFile, LocksTypeOK
  <1>4. ASSUME NEW m \in {"none", "shared", "exclusive"}, Lock(a, m)
        PROVE  LocksTypeOK'
    BY <1>4 DEF Lock, LocksTypeOK
  <1>5. CASE CloseLock(a)
    BY <1>5 DEF CloseLock, LocksTypeOK
  <1>6. CASE LeakLock(a)
    <2>1. ProcessOf[a] \in {ProcessOf[other] : other \in Actors}
      OBVIOUS
    <2>2. leaked' \in [Inodes -> SUBSET {ProcessOf[other] : other \in Actors}]
      BY <1>6, <2>1 DEF LeakLock, LocksTypeOK
    <2> QED BY <1>6, <2>2 DEF LeakLock, LocksTypeOK
  <1>7. ASSUME NEW p, ExitProcess(p)
        PROVE  LocksTypeOK'
    BY <1>7 DEF ExitProcess, LocksTypeOK
  <1> QED BY <1>1, <1>2, <1>3, <1>4, <1>5, <1>6, <1>7

\* Every step of a freezer, its crash included, keeps the types of what it can
\* touch: the lock table, the freezer's own state and the requests it posts.
LEMMA FreezerTyping ==
  ASSUME TypeOK, NEW c \in Freezers, HasTarget(c),
         \/ \E b \in Buckets : Launch(c, b)
         \/ LaunchForOther(c) \/ FreezerStep(c)
         \/ MoveThrows(c) \/ FreezerCrashes(c)
  PROVE  TypeOK'
  <1> USE ActorsAssumption, MaxFaultsAssumption
  <1> c \in Actors
    OBVIOUS
  <1>1. ASSUME NEW b \in Buckets, Launch(c, b)
        PROVE  TypeOK'
    <2>1. LocksTypeOK'
      BY <1>1, LockTyping DEF Launch, TypeOK
    <2> QED BY <1>1, <2>1 DEF Launch, TypeOK, FreezerGoto, FreezerSteps,
                              workerVars, dataVars
  <1>2. CASE LaunchForOther(c)
    <2>1. LocksTypeOK'
      BY <1>2, LockTyping DEF LaunchForOther, TypeOK
    <2> QED BY <1>2, <2>1 DEF LaunchForOther, TypeOK, FreezerGoto,
                              FreezerSteps, workerVars, dataVars
  <1>3. CASE OpenLockOfTarget(c)
    <2>1. target[c] \in Buckets
      BY <1>3 DEF OpenLockOfTarget, FreezerGoto, HasTarget
    <2>2. LocksTypeOK'
      BY <1>3, <2>1, LockTyping DEF OpenLockOfTarget, TypeOK
    <2> QED BY <1>3, <2>2 DEF OpenLockOfTarget, TypeOK, FreezerGoto,
                              FreezerSteps, workerVars, dataVars
  <1>4. CASE TryLockExclusive(c) \/ ConvertToShared(c) \/ TryLockShared(c)
    <2>1. LocksTypeOK'
      BY <1>4, LockTyping DEF TryLockExclusive, ConvertToShared,
                              TryLockShared, ReleaseLock, TypeOK
    <2> QED BY <1>4, <2>1 DEF TryLockExclusive, ConvertToShared,
                 TryLockShared, TypeOK, FreezerGoto, FreezerSteps,
                 workerVars, dataVars
  <1>5. CASE MoveToSafe(c)
    <2>1. LocksTypeOK'
      BY <1>5, LockTyping DEF MoveToSafe, TypeOK
    <2> QED BY <1>5, <2>1 DEF MoveToSafe, TypeOK, FreezerGoto,
                              FreezerSteps, workerVars
  <1>6. CASE MoveThrows(c)
    <2>1. LocksTypeOK'
      BY <1>6, LockTyping DEF MoveThrows, TypeOK
    <2> QED BY <1>6, <2>1 DEF MoveThrows, TypeOK, FreezerGoto, Fault,
                              FreezerSteps, workerVars, dataVars
  <1>7. ASSUME NEW w \in Workers, Post(c, w)
        PROVE  TypeOK'
    <2>1. LocksTypeOK'
      BY <1>7, LockTyping DEF Post, TypeOK
    <2> QED BY <1>7, <2>1 DEF Post, TypeOK, FreezerGoto, FreezerSteps,
                              WorkerSteps, dataVars
  <1>8. CASE PostRefused(c) \/ Answered(c) \/ FreezerExits(c)
    <2>1. LocksTypeOK'
      BY <1>8, LockTyping DEF PostRefused, Answered, FreezerExits, TypeOK
    <2> QED BY <1>8, <2>1 DEF PostRefused, Answered, FreezerExits, TypeOK,
                 FreezerGoto, FreezerSteps, workerVars, dataVars
  <1>9. CASE CloseLockOfTarget(c)
    <2>1. LocksTypeOK'
      BY <1>9, LockTyping DEF CloseLockOfTarget, TypeOK
    <2> QED BY <1>9, <2>1 DEF CloseLockOfTarget, TypeOK, FreezerGoto,
                              FreezerSteps, workerVars, dataVars
  <1>10. CASE ListMovedBuckets(c) \/ BuildMovedBuckets(c)
    <2>1. LocksTypeOK'
      BY <1>10, LockTyping DEF ListMovedBuckets, BuildMovedBuckets, TypeOK
    <2> QED BY <1>10, <2>1 DEF ListMovedBuckets, BuildMovedBuckets, TypeOK,
                 FreezerGoto, FreezerSteps, workerVars, dataVars
  <1>11. ASSUME NEW b \in Buckets, RecoverNext(c, b)
         PROVE  TypeOK'
    <2>1. LocksTypeOK'
      BY <1>11, LockTyping DEF RecoverNext, TypeOK
    <2> QED BY <1>11, <2>1 DEF RecoverNext, TypeOK, FreezerGoto,
                               FreezerSteps, workerVars, dataVars
  <1>12. CASE FreezerCrashes(c)
    <2>1. LocksTypeOK'
      BY <1>12, LockTyping DEF FreezerCrashes, TypeOK
    <2> QED BY <1>12, <2>1 DEF FreezerCrashes, TypeOK, Fault, FreezerSteps,
                               workerVars, dataVars
  <1>13. CASE FreezerStep(c)
    BY <1>3, <1>4, <1>5, <1>7, <1>8, <1>9, <1>10, <1>11, <1>13 DEF FreezerStep
  <1> QED BY <1>1, <1>2, <1>6, <1>12, <1>13

\* The variables of the requests that the server is working on.
RequestsTypeOK ==
  /\ server \in [Freezers -> Workers \cup {NoWorker}]
  /\ worker \in [Workers -> WorkerSteps]
  /\ job \in [Workers -> Buckets \cup {NoBucket}]
  /\ formats \in [Workers -> SUBSET Formats]
  /\ format \in [Workers -> Formats \cup {NoFormat}]
  /\ failed \in [Workers -> BOOLEAN]

\* A worker's move from one step of its request to another, and its response.
LEMMA RequestTyping ==
  ASSUME RequestsTypeOK, NEW w \in Workers, NEW from, NEW to \in WorkerSteps,
         (WorkerGoto(w, from, to) /\ KeepsJob) \/ Respond(w, from)
  PROVE  RequestsTypeOK'
  <1>1. CASE WorkerGoto(w, from, to) /\ KeepsJob
    BY <1>1 DEF WorkerGoto, KeepsJob, RequestsTypeOK
  <1>2. CASE Respond(w, from)
    BY <1>2 DEF Respond, WorkerGoto, RequestsTypeOK, WorkerSteps
  <1> QED BY <1>1, <1>2

\* The variables of the local buckets, of the archive, and of the bound.
StoreTypeOK ==
  /\ place \in [Buckets -> {"cold", "safe", "torn", "gone"}]
  /\ stored \in [Buckets -> [Formats -> {"absent", "torn", "whole"}]]
  /\ sized \in [Buckets -> SUBSET Formats]
  /\ up \in BOOLEAN
  /\ faults \in 0..MaxFaults

\* Every step of a worker, the ones that throw included, keeps the types.
LEMMA WorkerTyping ==
  ASSUME TypeOK, NEW w \in Workers, HasJob(w),
         WorkerStep(w) \/ WorkerThrows(w)
  PROVE  TypeOK'
  <1> USE MaxFaultsAssumption
  <1>a. w \in Actors
    BY ActorsAssumption
  <1>b. RequestsTypeOK /\ StoreTypeOK /\ LocksTypeOK
    BY DEF TypeOK, RequestsTypeOK, StoreTypeOK
  <1>c. ASSUME RequestsTypeOK', StoreTypeOK', LocksTypeOK',
               UNCHANGED <<freezer, target, fresh, todo>>
        PROVE  TypeOK'
    BY <1>c DEF TypeOK, RequestsTypeOK, StoreTypeOK
  <1>1. CASE CreateBucket(w)
    <2>1. RequestsTypeOK'
      BY <1>1, <1>b, RequestTyping DEF CreateBucket, WorkerSteps
    <2>2. LocksTypeOK' /\ StoreTypeOK'
      BY <1>1, <1>a, <1>b, LockTyping DEF CreateBucket, StoreTypeOK, dataVars
    <2> QED BY <1>1, <1>c, <2>1, <2>2 DEF CreateBucket
  <1>2. CASE DiscardRawOnly(w)
    <2>1. RequestsTypeOK'
      BY <1>2, <1>b, RequestTyping DEF DiscardRawOnly, WorkerSteps
    <2>2. LocksTypeOK'
      BY <1>2, <1>a, <1>b, LockTyping DEF DiscardRawOnly
    <2>3. StoreTypeOK'
      BY <1>2, <1>b DEF DiscardRawOnly, StoreTypeOK, Fault
    <2> QED BY <1>2, <1>c, <2>1, <2>2, <2>3 DEF DiscardRawOnly
  <1>3. CASE OpenLockOfJob(w)
    <2>1. RequestsTypeOK'
      BY <1>3, <1>b, RequestTyping DEF OpenLockOfJob, WorkerSteps
    <2>2. job[w] \in Buckets
      BY <1>3 DEF OpenLockOfJob, WorkerGoto, HasJob
    <2>3. LocksTypeOK'
      BY <1>3, <1>a, <1>b, <2>2, LockTyping DEF OpenLockOfJob
    <2>4. StoreTypeOK'
      BY <1>3, <1>b DEF OpenLockOfJob, StoreTypeOK, dataVars
    <2> QED BY <1>3, <1>c, <2>1, <2>3, <2>4 DEF OpenLockOfJob
  <1>4. CASE LockJob(w)
    <2>1. RequestsTypeOK'
      BY <1>4, <1>b, RequestTyping DEF LockJob, WorkerSteps
    <2>2. LocksTypeOK'
      BY <1>4, <1>a, <1>b, LockTyping DEF LockJob
    <2>3. StoreTypeOK'
      BY <1>4, <1>b DEF LockJob, StoreTypeOK, dataVars
    <2> QED BY <1>4, <1>c, <2>1, <2>2, <2>3 DEF LockJob
  <1>5. CASE Configure(w)
    <2>1. RequestsTypeOK'
      BY <1>5, <1>b DEF Configure, WorkerGoto, RequestsTypeOK, WorkerSteps,
                        freezerVars
    <2>2. LocksTypeOK' /\ StoreTypeOK'
      BY <1>5, <1>a, <1>b, LockTyping DEF Configure, StoreTypeOK, dataVars
    <2> QED BY <1>5, <1>c, <2>1, <2>2 DEF Configure, freezerVars
  <1>6. CASE ConfigureThrows(w)
    <2>1. RequestsTypeOK'
      BY <1>6, <1>b, RequestTyping DEF ConfigureThrows, WorkerSteps
    <2>2. LocksTypeOK'
      BY <1>6, <1>a, <1>b, LockTyping DEF ConfigureThrows
    <2>3. StoreTypeOK'
      BY <1>6, <1>b DEF ConfigureThrows, StoreTypeOK, Fault
    <2> QED BY <1>6, <1>c, <2>1, <2>2, <2>3 DEF ConfigureThrows
  <1>7. ASSUME NEW f \in Formats, SkipArchived(w, f) \/ Export(w, f)
        PROVE  TypeOK'
    <2>1. RequestsTypeOK'
      BY <1>7, <1>b DEF SkipArchived, Export, Dealt, WorkerGoto,
                        RequestsTypeOK, WorkerSteps, freezerVars
    <2>2. LocksTypeOK' /\ StoreTypeOK'
      BY <1>7, <1>a, <1>b, LockTyping
      DEF SkipArchived, Export, StoreTypeOK, dataVars
    <2> QED BY <1>7, <1>c, <2>1, <2>2 DEF SkipArchived, Export, freezerVars
  <1>8. CASE CopyThrows(w) \/ EndCopy(w)
    <2>1. RequestsTypeOK'
      BY <1>8, <1>b, RequestTyping DEF CopyThrows, EndCopy, WorkerSteps
    <2>2. LocksTypeOK'
      BY <1>8, <1>a, <1>b, LockTyping DEF CopyThrows, EndCopy
    <2>3. StoreTypeOK'
      BY <1>8, <1>b DEF CopyThrows, EndCopy, StoreTypeOK, Fault, dataVars
    <2> QED BY <1>8, <1>c, <2>1, <2>2, <2>3 DEF CopyThrows, EndCopy
  <1>9. CASE Transfer(w)
    <2>1. RequestsTypeOK'
      BY <1>9, <1>b, RequestTyping DEF Transfer, WorkerSteps
    <2>2. LocksTypeOK'
      BY <1>9, <1>a, <1>b, LockTyping DEF Transfer
    <2>3. StoreTypeOK'
      BY <1>9, <1>b DEF Transfer, StoreTypeOK
    <2> QED BY <1>9, <1>c, <2>1, <2>2, <2>3 DEF Transfer
  <1>10. CASE PersistSize(w)
    <2>1. RequestsTypeOK'
      BY <1>10, <1>b DEF PersistSize, WorkerGoto, RequestsTypeOK,
                         WorkerSteps, freezerVars
    <2>2. LocksTypeOK'
      BY <1>10, <1>a, <1>b, LockTyping DEF PersistSize
    <2>3. format[w] \in Formats
      BY <1>10 DEF PersistSize, WorkerGoto, HasJob
    <2>4. StoreTypeOK'
      BY <1>10, <1>b, <2>3 DEF PersistSize, StoreTypeOK
    <2> QED BY <1>10, <1>c, <2>1, <2>2, <2>4 DEF PersistSize, freezerVars
  <1>11. CASE TransferThrows(w)
    <2>1. RequestsTypeOK'
      BY <1>11, <1>b DEF TransferThrows, RequestsTypeOK, WorkerSteps,
                         freezerVars
    <2>2. LocksTypeOK'
      BY <1>11, <1>a, <1>b, LockTyping DEF TransferThrows
    <2>3. StoreTypeOK'
      BY <1>11, <1>b DEF TransferThrows, StoreTypeOK, Fault, dataVars
    <2> QED BY <1>11, <1>c, <2>1, <2>2, <2>3 DEF TransferThrows, freezerVars
  <1>12. CASE BeginDelete(w) \/ EndDelete(w)
    <2>1. RequestsTypeOK'
      BY <1>12, <1>b, RequestTyping DEF BeginDelete, EndDelete, WorkerSteps
    <2>2. LocksTypeOK'
      BY <1>12, <1>a, <1>b, LockTyping DEF BeginDelete, EndDelete
    <2>3. StoreTypeOK'
      BY <1>12, <1>b DEF BeginDelete, EndDelete, StoreTypeOK, Fault
    <2> QED BY <1>12, <1>c, <2>1, <2>2, <2>3 DEF BeginDelete, EndDelete
  <1>13. CASE DeleteLockOfJob(w)
    <2>1. RequestsTypeOK'
      BY <1>13, <1>b, RequestTyping DEF DeleteLockOfJob, WorkerSteps
    <2>2. job[w] \in Buckets
      BY <1>13 DEF DeleteLockOfJob, WorkerGoto, HasJob
    <2>3. LocksTypeOK'
      BY <1>13, <1>a, <1>b, <2>2, LockTyping DEF DeleteLockOfJob
    <2>4. StoreTypeOK'
      BY <1>13, <1>b DEF DeleteLockOfJob, StoreTypeOK, dataVars
    <2> QED BY <1>13, <1>c, <2>1, <2>3, <2>4 DEF DeleteLockOfJob
  <1>14. CASE CloseLockOfJob(w)
    <2>1. RequestsTypeOK'
      BY <1>14, <1>b, RequestTyping DEF CloseLockOfJob, WorkerSteps
    <2>2. LocksTypeOK'
      BY <1>14, <1>a, <1>b, LockTyping DEF CloseLockOfJob
    <2>3. StoreTypeOK'
      BY <1>14, <1>b DEF CloseLockOfJob, StoreTypeOK, dataVars
    <2> QED BY <1>14, <1>c, <2>1, <2>2, <2>3 DEF CloseLockOfJob
  <1>15. CASE WorkerThrows(w)
    BY <1>6, <1>8, <1>11, <1>15 DEF WorkerThrows
  <1>16. CASE WorkerStep(w)
    BY <1>1, <1>2, <1>3, <1>4, <1>5, <1>7, <1>8, <1>9, <1>10, <1>12, <1>13,
       <1>14, <1>16 DEF WorkerStep
  <1> QED BY <1>15, <1>16

\* A crash of the server resets its workers and its locks to typed values, and
\* a start changes nothing but that it runs.
LEMMA ServerTyping ==
  ASSUME TypeOK, ServerCrashes \/ ServerStarts \/ UNCHANGED vars
  PROVE  TypeOK'
  <1> USE MaxFaultsAssumption
  <1>1. CASE ServerCrashes
    <2>1. LocksTypeOK'
      BY <1>1 DEF ServerCrashes, ExitProcess, TypeOK, LocksTypeOK
    <2>2. RequestsTypeOK'
      BY <1>1 DEF ServerCrashes, RequestsTypeOK, WorkerSteps
    <2>3. up' \in BOOLEAN
      BY <1>1, Zenon DEF ServerCrashes
    <2>4. faults' \in 0..MaxFaults
      BY <1>1 DEF ServerCrashes, TypeOK, Fault
    <2>5. StoreTypeOK'
      BY <1>1, <2>3, <2>4 DEF ServerCrashes, StoreTypeOK, TypeOK, dataVars
    <2> QED BY <1>1, <2>1, <2>2, <2>5 DEF ServerCrashes, TypeOK,
                                         RequestsTypeOK, StoreTypeOK
  <1>2. CASE ServerStarts
    BY <1>2 DEF ServerStarts, TypeOK, LocksTypeOK, lockVars, freezerVars,
                workerVars, dataVars
  <1>3. CASE UNCHANGED vars
    BY <1>3 DEF TypeOK, LocksTypeOK, vars, lockVars, freezerVars, workerVars,
                dataVars
  <1> QED BY <1>1, <1>2, <1>3

-----------------------------------------------------------------------------
(***************************************************************************)
(* Targets and jobs                                                        *)
(***************************************************************************)

\* A freezer has a target from where it opens its lock to where it closes it.
LEMMA TargetStep ==
  ASSUME TypeOK, NEW d \in Freezers, HasTarget(d), [Next]_vars
  PROVE  HasTarget(d)'
  <1> USE DEF HasTarget
  <1>1. ASSUME UNCHANGED <<freezer, target>>
        PROVE  HasTarget(d)'
    BY <1>1
  <1>2. ASSUME NEW c \in Freezers, NEW b \in Buckets,
               Launch(c, b) \/ RecoverNext(c, b)
        PROVE  HasTarget(d)'
    BY <1>2 DEF Launch, RecoverNext, FreezerGoto, TypeOK, FreezerSteps
  <1>3. ASSUME NEW c \in Freezers,
               \/ LaunchForOther(c)   \/ CloseLockOfTarget(c)
               \/ ListMovedBuckets(c) \/ BuildMovedBuckets(c)
               \/ FreezerExits(c)     \/ FreezerCrashes(c)
        PROVE  HasTarget(d)'
    BY <1>3 DEF LaunchForOther, CloseLockOfTarget, ListMovedBuckets,
         BuildMovedBuckets, FreezerExits, FreezerCrashes, FreezerGoto,
         TypeOK, FreezerSteps
  <1>4. ASSUME NEW c \in Freezers,
               \/ OpenLockOfTarget(c) \/ TryLockExclusive(c)
               \/ ConvertToShared(c)  \/ TryLockShared(c)
               \/ MoveToSafe(c)       \/ MoveThrows(c)
               \/ PostRefused(c)      \/ Answered(c)
               \/ \E w \in Workers : Post(c, w)
        PROVE  HasTarget(d)'
    <2>1. /\ target' = target
          /\ \E from, to : FreezerGoto(c, from, to) /\ from \in
               {"open", "lock", "convert", "reshare", "move", "post", "wait"}
      BY <1>4 DEF OpenLockOfTarget, TryLockExclusive, ConvertToShared,
           TryLockShared, MoveToSafe, MoveThrows, PostRefused, Answered, Post
    <2> QED BY <2>1 DEF FreezerGoto, TypeOK
  <1>5. ASSUME NEW w \in Workers, WorkerStep(w) \/ WorkerThrows(w)
        PROVE  UNCHANGED <<freezer, target>>
    BY <1>5 DEF WorkerStep, WorkerThrows, CreateBucket, DiscardRawOnly,
         OpenLockOfJob, LockJob, Configure, ConfigureThrows, SkipArchived,
         Export, CopyThrows, Transfer, PersistSize, TransferThrows, EndCopy,
         BeginDelete, EndDelete, DeleteLockOfJob, CloseLockOfJob, freezerVars
  <1>6. ASSUME ServerCrashes \/ ServerStarts \/ UNCHANGED vars
        PROVE  UNCHANGED <<freezer, target>>
    BY <1>6 DEF ServerCrashes, ServerStarts, vars, freezerVars
  <1>7. ASSUME NEW c \in Freezers, FreezerStep(c)
        PROVE  HasTarget(d)'
    BY <1>2, <1>3, <1>4, <1>7 DEF FreezerStep
  <1> QED BY <1>1, <1>2, <1>3, <1>4, <1>5, <1>6, <1>7 DEF Next

\* Nobody but its freezer, itself and a crash changes what a worker is at.
Request(w) == <<worker[w], job[w], formats[w], format[w], failed[w]>>

\* A step of a freezer that does not post to the worker, and a step of another
\* worker, leave the worker's request as it is.
LEMMA OthersKeepRequest ==
  ASSUME TypeOK, NEW w \in Workers, [Next]_vars,
         \A c \in Freezers : ~Post(c, w),
         ~WorkerStep(w), ~WorkerThrows(w), ~ServerCrashes
  PROVE  Request(w)' = Request(w)
  <1> USE DEF Request
  <1>1. ASSUME NEW c \in Freezers, NEW v \in Workers, Post(c, v)
        PROVE  Request(w)' = Request(w)
    BY <1>1 DEF Post, TypeOK
  <1>2. ASSUME NEW v \in Workers, WorkerStep(v) \/ WorkerThrows(v)
        PROVE  Request(w)' = Request(w)
    <2>1. v # w
      BY <1>2
    <2>2. ASSUME NEW from, Respond(v, from)
          PROVE  Request(w)' = Request(w)
      BY <2>1, <2>2 DEF Respond, WorkerGoto, TypeOK
    <2>3. ASSUME NEW from, NEW to, WorkerGoto(v, from, to), KeepsJob
          PROVE  Request(w)' = Request(w)
      BY <2>1, <2>3 DEF WorkerGoto, KeepsJob, TypeOK
    <2>4. CASE CreateBucket(v) \/ DiscardRawOnly(v) \/ OpenLockOfJob(v)
      BY <2>2, <2>3, <2>4 DEF CreateBucket, DiscardRawOnly, OpenLockOfJob
    <2>5. CASE LockJob(v) \/ ConfigureThrows(v) \/ CloseLockOfJob(v)
      BY <2>2, <2>3, <2>5 DEF LockJob, ConfigureThrows, CloseLockOfJob
    <2>6. CASE CopyThrows(v) \/ EndCopy(v) \/ Transfer(v) \/ BeginDelete(v)
               \/ EndDelete(v) \/ DeleteLockOfJob(v)
      BY <2>3, <2>6 DEF CopyThrows, EndCopy, Transfer, BeginDelete,
                        EndDelete, DeleteLockOfJob
    <2>7. CASE Configure(v) \/ PersistSize(v) \/ TransferThrows(v)
      BY <2>1, <2>7 DEF Configure, PersistSize, TransferThrows, WorkerGoto,
                        TypeOK
    <2>8. ASSUME NEW f \in Formats, SkipArchived(v, f) \/ Export(v, f)
          PROVE  Request(w)' = Request(w)
      BY <2>1, <2>8 DEF SkipArchived, Export, Dealt, WorkerGoto, TypeOK
    <2> QED BY <1>2, <2>4, <2>5, <2>6, <2>7, <2>8 DEF WorkerStep, WorkerThrows
  <1>3. ASSUME NEW c \in Freezers, NEW b \in Buckets,
               Launch(c, b) \/ RecoverNext(c, b)
        PROVE  Request(w)' = Request(w)
    BY <1>3 DEF Launch, RecoverNext, workerVars
  <1>4. ASSUME NEW c \in Freezers,
               \/ LaunchForOther(c)   \/ CloseLockOfTarget(c)
               \/ ListMovedBuckets(c) \/ BuildMovedBuckets(c)
               \/ FreezerExits(c)     \/ FreezerCrashes(c)
               \/ OpenLockOfTarget(c) \/ TryLockExclusive(c)
               \/ ConvertToShared(c)  \/ TryLockShared(c)
               \/ MoveToSafe(c)       \/ MoveThrows(c)
               \/ PostRefused(c)      \/ Answered(c)
        PROVE  Request(w)' = Request(w)
    BY <1>4 DEF LaunchForOther, CloseLockOfTarget, ListMovedBuckets,
         BuildMovedBuckets, FreezerExits, FreezerCrashes, OpenLockOfTarget,
         TryLockExclusive, ConvertToShared, TryLockShared, MoveToSafe,
         MoveThrows, PostRefused, Answered, workerVars
  <1>5. ASSUME ServerStarts \/ UNCHANGED vars
        PROVE  Request(w)' = Request(w)
    BY <1>5 DEF ServerStarts, vars, workerVars
  <1>6. ASSUME NEW c \in Freezers, FreezerStep(c)
        PROVE  Request(w)' = Request(w)
    BY <1>1, <1>3, <1>4, <1>6 DEF FreezerStep
  <1> QED BY <1>2, <1>3, <1>4, <1>5, <1>6 DEF Next

\* A worker has a bucket to work on from its request to its response.
LEMMA JobStep ==
  ASSUME TypeOK, NEW w \in Workers, HasJob(w), [Next]_vars,
         \A c \in Freezers : HasTarget(c)
  PROVE  HasJob(w)'
  <1> USE DEF HasJob
  <1>1. ASSUME Request(w)' = Request(w)
        PROVE  HasJob(w)'
    BY <1>1 DEF Request
  <1>2. ASSUME NEW c \in Freezers, Post(c, w)
        PROVE  HasJob(w)'
    BY <1>2 DEF Post, FreezerGoto, HasTarget, TypeOK
  <1>3. CASE ServerCrashes
    BY <1>3 DEF ServerCrashes
  <1>4. CASE WorkerStep(w) \/ WorkerThrows(w)
    <2>1. ASSUME NEW from, Respond(w, from)
          PROVE  HasJob(w)'
      BY <2>1 DEF Respond, WorkerGoto, TypeOK
    <2>2. ASSUME NEW from, NEW to, WorkerGoto(w, from, to), KeepsJob,
                 from # "idle", to \notin {"discard", "transfer", "size"}
          PROVE  HasJob(w)'
      BY <2>2 DEF WorkerGoto, KeepsJob, TypeOK
    <2>3. CASE CreateBucket(w)
      BY <2>1, <2>3, ReplicatedAssumption
      DEF CreateBucket, WorkerGoto, KeepsJob, TypeOK
    <2>4. CASE DiscardRawOnly(w) \/ OpenLockOfJob(w) \/ LockJob(w)
               \/ ConfigureThrows(w) \/ CloseLockOfJob(w)
      BY <2>1, <2>2, <2>4 DEF DiscardRawOnly, OpenLockOfJob, LockJob,
                              ConfigureThrows, CloseLockOfJob
    <2>5. CASE CopyThrows(w) \/ EndCopy(w) \/ BeginDelete(w)
               \/ EndDelete(w) \/ DeleteLockOfJob(w)
      BY <2>2, <2>5 DEF CopyThrows, EndCopy, BeginDelete, EndDelete,
                        DeleteLockOfJob
    <2>6. CASE Transfer(w)
      BY <2>6 DEF Transfer, WorkerGoto, KeepsJob, TypeOK
    <2>7. CASE Configure(w) \/ PersistSize(w) \/ TransferThrows(w)
      BY <2>7 DEF Configure, PersistSize, TransferThrows, WorkerGoto, TypeOK
    <2>8. ASSUME NEW f \in Formats, SkipArchived(w, f) \/ Export(w, f)
          PROVE  HasJob(w)'
      BY <2>8 DEF SkipArchived, Export, WorkerGoto, TypeOK
    <2> QED BY <1>4, <2>3, <2>4, <2>5, <2>6, <2>7, <2>8
            DEF WorkerStep, WorkerThrows
  <1> QED BY <1>1, <1>2, <1>3, <1>4, OthersKeepRequest

-----------------------------------------------------------------------------
(***************************************************************************)
(* What workers know about the archive                                     *)
(***************************************************************************)

\* Only a transfer changes what the archive stores.
LEMMA StoredOnlyByTransfer ==
  ASSUME [Next]_vars, \A w \in Workers : ~Transfer(w)
  PROVE  stored' = stored
  <1>1. ASSUME NEW c \in Freezers, FreezerStep(c)
        PROVE  stored' = stored
    BY <1>1 DEF FreezerStep, OpenLockOfTarget, TryLockExclusive,
         ConvertToShared, TryLockShared, MoveToSafe, Post, PostRefused,
         Answered, CloseLockOfTarget, ListMovedBuckets, BuildMovedBuckets,
         RecoverNext, FreezerExits, dataVars
  <1>2. ASSUME NEW c \in Freezers,
               \/ \E b \in Buckets : Launch(c, b)
               \/ LaunchForOther(c) \/ MoveThrows(c) \/ FreezerCrashes(c)
        PROVE  stored' = stored
    BY <1>2 DEF Launch, LaunchForOther, MoveThrows, FreezerCrashes, dataVars
  <1>3. ASSUME NEW w \in Workers, WorkerStep(w) \/ WorkerThrows(w)
        PROVE  stored' = stored
    BY <1>3 DEF WorkerStep, WorkerThrows, CreateBucket, DiscardRawOnly,
         OpenLockOfJob, LockJob, Configure, ConfigureThrows, SkipArchived,
         Export, CopyThrows, PersistSize, TransferThrows, EndCopy,
         BeginDelete, EndDelete, DeleteLockOfJob, CloseLockOfJob, dataVars
  <1>4. CASE ServerCrashes \/ ServerStarts \/ UNCHANGED vars
    BY <1>4 DEF ServerCrashes, ServerStarts, vars, dataVars
  <1> QED BY <1>1, <1>2, <1>3, <1>4 DEF Next

\* What is in the archive stays there, and what a transfer adds is the bucket
\* of its job in its format.
LEMMA PresentForGood ==
  ASSUME TypeOK, [Next]_vars, NEW b \in Buckets, NEW f \in Formats,
         Present(b, f)
  PROVE  stored'[b][f] = stored[b][f]
  <1>1. ASSUME NEW w \in Workers, Transfer(w)
        PROVE  stored'[b][f] = stored[b][f]
    BY <1>1 DEF Transfer, Present, TypeOK
  <1> QED BY <1>1, StoredOnlyByTransfer

\* What a worker has found out about the archive stays true: a format it has
\* dealt with, without an exception, is in the archive.
LEMMA KnowsStep ==
  ASSUME TypeOK, NEW w \in Workers, HasJob(w), Knows(w), [Next]_vars
  PROVE  Knows(w)'
  <1>a. ASSUME job[w] \in Buckets
       
PROVE   \A f \in Formats : Present(job[w], f) => stored'[job[w]][f] # "absent"
    BY <1>a, PresentForGood DEF Present
  <1>1. CASE Request(w)' = Request(w)
    BY <1>1, <1>a DEF Request, Knows, HasJob, Present
  <1>2. ASSUME NEW c \in Freezers, Post(c, w)
        PROVE  Knows(w)'
    BY <1>2 DEF Post, TypeOK, Knows
  <1>3. CASE ServerCrashes
    BY <1>3 DEF ServerCrashes, Knows
  <1>4. CASE WorkerStep(w) \/ WorkerThrows(w)
    <2>1. ASSUME NEW from, Respond(w, from)
          PROVE  Knows(w)'
      BY <2>1 DEF Respond, WorkerGoto, TypeOK, Knows
    <2>2. ASSUME NEW from, NEW to, WorkerGoto(w, from, to),
                 to \notin {"copy", "transfer", "size", "delete", "tear"}
          PROVE  Knows(w)'
      BY <2>2 DEF WorkerGoto, TypeOK, Knows
    <2>3. CASE CreateBucket(w) \/ DiscardRawOnly(w) \/ OpenLockOfJob(w)
               \/ LockJob(w) \/ ConfigureThrows(w) \/ CopyThrows(w)
               \/ EndDelete(w) \/ DeleteLockOfJob(w) \/ CloseLockOfJob(w)
      BY <2>1, <2>2, <2>3 DEF CreateBucket, DiscardRawOnly, OpenLockOfJob,
           LockJob, ConfigureThrows, CopyThrows, EndDelete, DeleteLockOfJob,
           CloseLockOfJob
    <2>4. CASE Configure(w)
      BY <2>4 DEF Configure, WorkerGoto, TypeOK, Knows
    <2>5. ASSUME NEW f \in Formats, SkipArchived(w, f)
          PROVE  Knows(w)'
      BY <2>5, <1>a DEF SkipArchived, Dealt, WorkerGoto, TypeOK, Knows,
                        HasJob, Present, dataVars
    <2>6. ASSUME NEW f \in Formats, Export(w, f)
          PROVE  Knows(w)'
      BY <2>6, <1>a DEF Export, Dealt, WorkerGoto, TypeOK, Knows, HasJob,
                        Present, dataVars
    <2>7. CASE Transfer(w)
      <3>1. job[w] \in Buckets /\ format[w] \in Formats
        BY <2>7 DEF Transfer, WorkerGoto, HasJob
      <3>2. stored'[job[w]][format[w]] # "absent"
        BY <2>7, <3>1 DEF Transfer, TypeOK
      <3>3. /\ worker'[w] = "size"
            /\ UNCHANGED <<job, formats, format, failed>>
        BY <2>7 DEF Transfer, WorkerGoto, KeepsJob, TypeOK
      <3>4. worker[w] = "transfer"
        BY <2>7 DEF Transfer, WorkerGoto
      <3> QED BY <1>a, <3>1, <3>2, <3>3, <3>4 DEF Knows, Present
    <2>8. CASE PersistSize(w)
      BY <2>8, <1>a DEF PersistSize, WorkerGoto, TypeOK, Knows, HasJob,
                        Present
    <2>9. CASE TransferThrows(w)
      BY <2>9 DEF TransferThrows, TypeOK, Knows
    <2>10. CASE EndCopy(w) \/ BeginDelete(w)
      BY <2>10, <1>a DEF EndCopy, BeginDelete, WorkerGoto, KeepsJob, TypeOK,
                         Knows, HasJob, Present, dataVars
    <2> QED BY <1>4, <2>3, <2>4, <2>5, <2>6, <2>7, <2>8, <2>9, <2>10
            DEF WorkerStep, WorkerThrows
  <1> QED BY <1>1, <1>2, <1>3, <1>4, OthersKeepRequest

\* An original bucket that was in one piece stays so until the archive has it
\* in every format; what is transferred of an intact bucket is whole.
LEMMA IntactStep ==
  ASSUME TypeOK, NEW b \in Buckets \ Replicated, Intact(b), [Next]_vars,
         \A w \in Workers : HasJob(w) /\ Knows(w)
  PROVE  Intact(b)'
  <1>a. \A f \in Formats : Present(b, f) => stored'[b][f] = stored[b][f]
    BY PresentForGood
  <1>1. ASSUME UNCHANGED stored,
               place'[b] \in {"torn", "gone"} => place[b] \in {"torn", "gone"}
        PROVE  Intact(b)'
    BY <1>1 DEF Intact, Present
  <1>2. ASSUME NEW w \in Workers, Transfer(w)
        PROVE  Intact(b)'
    <2>1. job[w] \in Buckets /\ format[w] \in Formats
      BY <1>2 DEF Transfer, WorkerGoto, HasJob
    <2>2. \A f \in Formats : stored'[b][f] # "torn"
      BY <1>2, <2>1 DEF Transfer, TypeOK, Intact, Present
    <2>3. place' = place
      BY <1>2 DEF Transfer
    <2> QED BY <1>a, <2>2, <2>3 DEF Intact, Present
  <1>3. ASSUME NEW w \in Workers, BeginDelete(w) \/ EndDelete(w)
        PROVE  Intact(b)'
    <2>1. UNCHANGED stored
      BY <1>3 DEF BeginDelete, EndDelete
    <2>2. CASE job[w] = b
      BY <1>3, <2>1, <2>2 DEF BeginDelete, EndDelete, WorkerGoto, Knows,
                              Intact, Present
    <2>3. CASE job[w] # b
      <3>1. place'[b] = place[b]
        BY <1>3, <2>3 DEF BeginDelete, EndDelete, TypeOK
      <3> QED BY <1>1, <2>1, <3>1
    <2> QED BY <2>2, <2>3
  <1>4. ASSUME NEW w \in Workers, DiscardRawOnly(w) \/ ConfigureThrows(w)
        PROVE  Intact(b)'
    <2>1. CASE UNCHANGED place
      BY <1>1, <1>4, <2>1 DEF DiscardRawOnly, ConfigureThrows
    <2>2. CASE job[w] \in Replicated
      <3>1. place'[b] = place[b] /\ UNCHANGED stored
        BY <1>4, <2>2 DEF DiscardRawOnly, ConfigureThrows, TypeOK
      <3> QED BY <1>1, <3>1
    <2> QED BY <1>4, <2>1, <2>2 DEF DiscardRawOnly, ConfigureThrows, Respond,
                                    WorkerGoto, HasJob
  <1>5. ASSUME NEW c \in Freezers, MoveToSafe(c)
        PROVE  Intact(b)'
    <2>1. place'[b] \in {"safe", place[b]} /\ UNCHANGED stored
      BY <1>5 DEF MoveToSafe, TypeOK
    <2> QED BY <1>1, <2>1
  <1>6. ASSUME NEW w \in Workers, WorkerStep(w) \/ WorkerThrows(w)
        PROVE  Intact(b)'
    <2>1. CASE ~Transfer(w) /\ ~BeginDelete(w) /\ ~EndDelete(w)
               /\ ~DiscardRawOnly(w) /\ ~ConfigureThrows(w)
      <3>1. UNCHANGED <<place, stored>>
        BY <1>6, <2>1 DEF WorkerStep, WorkerThrows, CreateBucket,
             OpenLockOfJob, LockJob, Configure, SkipArchived, Export,
             CopyThrows, PersistSize, TransferThrows, EndCopy,
             DeleteLockOfJob, CloseLockOfJob, dataVars
      <3> QED BY <1>1, <3>1
    <2> QED BY <1>2, <1>3, <1>4, <1>6, <2>1
  <1>7. ASSUME NEW c \in Freezers, FreezerStep(c)
        PROVE  Intact(b)'
    <2>1. CASE ~MoveToSafe(c)
      <3>1. UNCHANGED <<place, stored>>
        BY <1>7, <2>1 DEF FreezerStep, OpenLockOfTarget, TryLockExclusive,
             ConvertToShared, TryLockShared, Post, PostRefused, Answered,
             CloseLockOfTarget, ListMovedBuckets, BuildMovedBuckets,
             RecoverNext, FreezerExits, dataVars
      <3> QED BY <1>1, <3>1
    <2> QED BY <1>5, <2>1
  <1>8. ASSUME NEW c \in Freezers,
               \/ \E x \in Buckets : Launch(c, x)
               \/ LaunchForOther(c) \/ MoveThrows(c) \/ FreezerCrashes(c)
        PROVE  Intact(b)'
    BY <1>1, <1>8 DEF Launch, LaunchForOther, MoveThrows, FreezerCrashes,
                      dataVars
  <1>9. CASE ServerCrashes \/ ServerStarts \/ UNCHANGED vars
    BY <1>1, <1>9 DEF ServerCrashes, ServerStarts, vars, dataVars
  <1> QED BY <1>6, <1>7, <1>8, <1>9 DEF Next

-----------------------------------------------------------------------------
(***************************************************************************)
(* The theorems                                                            *)
(***************************************************************************)

\* All buckets are cold and nobody runs yet.
LEMMA InitIInv == Init => IInv
  <1> SUFFICES ASSUME Init
               PROVE  IInv
    OBVIOUS
  <1>1. LocksTypeOK
    BY DEF Init, LocksInit, LocksTypeOK
  <1>2. TypeOK
    BY <1>1, MaxFaultsAssumption DEF Init, TypeOK, FreezerSteps, WorkerSteps
  <1>3. \A c \in Freezers : HasTarget(c)
    BY DEF Init, HasTarget
  <1>4. \A w \in Workers : HasJob(w) /\ Knows(w)
    BY DEF Init, HasJob, Knows
  <1>5. \A b \in Buckets \ Replicated : Intact(b)
    BY DEF Init, Intact, Present
  <1> QED BY <1>2, <1>3, <1>4, <1>5 DEF IInv

\* Every step of the freezers, the workers and the server keeps the invariant.
LEMMA NextIInv == IInv /\ [Next]_vars => IInv'
  <1> SUFFICES ASSUME IInv, [Next]_vars
               PROVE  IInv'
    OBVIOUS
  <1>1. TypeOK'
    <2>1. ASSUME NEW c \in Freezers,
                 \/ \E b \in Buckets : Launch(c, b)
                 \/ LaunchForOther(c) \/ FreezerStep(c)
                 \/ MoveThrows(c) \/ FreezerCrashes(c)
          PROVE  TypeOK'
      BY <2>1, FreezerTyping DEF IInv
    <2>2. ASSUME NEW w \in Workers, WorkerStep(w) \/ WorkerThrows(w)
          PROVE  TypeOK'
      BY <2>2, WorkerTyping DEF IInv
    <2>3. CASE ServerCrashes \/ ServerStarts \/ UNCHANGED vars
      BY <2>3, ServerTyping DEF IInv
    <2> QED BY <2>1, <2>2, <2>3 DEF Next
  <1>2. \A c \in Freezers : HasTarget(c)'
    BY TargetStep DEF IInv
  <1>3. \A w \in Workers : HasJob(w)'
    BY JobStep DEF IInv
  <1>4. \A w \in Workers : Knows(w)'
    BY KnowsStep DEF IInv
  <1>5. \A b \in Buckets \ Replicated : Intact(b)'
    BY IntactStep DEF IInv
  <1> QED BY <1>1, <1>2, <1>3, <1>4, <1>5 DEF IInv

\* The invariant holds in every state of every behaviour.
LEMMA Invariance == Spec => []IInv
  BY InitIInv, NextIInv, PTL DEF Spec

\* Type correctness of the freezers, the workers, the lock files and the data.
THEOREM Typing == Spec => []TypeOK
  <1>1. IInv => TypeOK
    BY DEF IInv
  <1> QED BY <1>1, Invariance, PTL

\* However many freezers and workers race for a bucket, whatever they lock,
\* whichever calls throw and whoever crashes: the files of an original bucket
\* are deleted only when the archive has the bucket in every format.
THEOREM DeletedOnlyWhenArchived == Spec => []NoDataLoss
  <1>1. IInv => NoDataLoss
    BY DEF IInv, TypeOK, Intact, Present, NoDataLoss, Archived
  <1> QED BY <1>1, Invariance, PTL

\* Only the rest of a replicated bucket is ever archived in its place: what the
\* archive has of an original bucket is whole.
THEOREM OriginalsAreWhole ==
  Spec => [](\A b \in Buckets \ Replicated, f \in Formats :
               stored[b][f] # "torn")
  <1>1. IInv => \A b \in Buckets \ Replicated, f \in Formats :
                  stored[b][f] # "torn"
    BY DEF IInv, Intact
  <1> QED BY <1>1, Invariance, PTL

-----------------------------------------------------------------------------
(***************************************************************************)
(* The promise                                                             *)
(*                                                                         *)
(* That an archived bucket is deleted only then, and stays archived, is in *)
(* the first invariant.  That a bucket which is gone does not come back is *)
(* not: a freezer that moves a bucket to the safe directory has to have it *)
(* for itself until then (OInv), whoever else crashes, recovers or lists.  *)
(***************************************************************************)

NoJob(b) == \A w \in Workers : job[w] # b

\* Splunk runs one freezer for a bucket.
OneFresh ==
  \A c, d \in Freezers :
    fresh[c] /\ fresh[d] /\ target[c] = target[d] => c = d

\* Only the freezer that was run for a bucket moves it, and it is still cold.
OwnBucket(c) ==
  /\ freezer[c] = "move" => fresh[c]
  /\ freezer[c] \in {"idle", "list", "build", "next"} =>
       ~fresh[c] /\ target[c] = NoBucket
  /\ fresh[c] /\ freezer[c] \notin {"post", "wait", "close"} =>
       place[target[c]] = "cold"

\* Nobody else is at a cold bucket, or has it on his list.
Untouched(b) ==
  place[b] = "cold" =>
    /\ NoJob(b)
    /\ \A c \in Freezers : b \notin todo[c]
    /\ \A c \in Freezers : target[c] = b =>
         fresh[c] /\ freezer[c] \notin {"post", "wait"}

OInv ==
  /\ \A c \in Freezers : OwnBucket(c)
  /\ OneFresh
  /\ \A b \in Buckets : Untouched(b)

\* What workers do, and the server's end, leaves the cold buckets to their
\* freezers.
LEMMA WorkersKeepOwners ==
  ASSUME OInv, \A c \in Freezers : HasTarget(c), TypeOK,
         UNCHANGED <<freezer, target, fresh, todo>>,
         \A w \in Workers : job'[w] \in {job[w], NoBucket},
         \A b \in Buckets : place'[b] = "cold" <=> place[b] = "cold"
  PROVE  OInv'
  <1> USE NoneAssumption
  <1>1. ASSUME NEW c \in Freezers PROVE OwnBucket(c)'
    <2>1. fresh[c] => target[c] \in Buckets
      BY DEF OInv, OwnBucket, HasTarget, TypeOK, FreezerSteps
    <2> QED BY <2>1 DEF OInv, OwnBucket
  <1>2. ASSUME NEW b \in Buckets PROVE Untouched(b)'
    BY DEF OInv, Untouched, NoJob
  <1> QED BY <1>1, <1>2 DEF OInv, OneFresh

\* Which places a worker changes, and to what.
LEMMA WorkerPlaces ==
  ASSUME TypeOK, NEW w \in Workers, HasJob(w), WorkerStep(w) \/ WorkerThrows(w)
  PROVE  /\ worker[w] # "idle"
         /\ UNCHANGED <<freezer, target, fresh, todo>>
         /\ \A v \in Workers : job'[v] \in {job[v], NoBucket}
         /\ \A b \in Buckets : \/ place'[b] = place[b]
                               \/ job[w] = b /\ place'[b] \in {"torn", "gone"}
  <1>1. CASE CreateBucket(w) \/ LockJob(w) \/ CloseLockOfJob(w)
    BY <1>1 DEF CreateBucket, LockJob, CloseLockOfJob, Respond, WorkerGoto,
                KeepsJob, TypeOK, dataVars
  <1>2. CASE DiscardRawOnly(w) \/ ConfigureThrows(w)
    <2>1. \E from \in {"discard", "configure"} : Respond(w, from)
      BY <1>2 DEF DiscardRawOnly, ConfigureThrows
    <2>2. \A v \in Workers : job'[v] \in {job[v], NoBucket}
      BY <2>1 DEF Respond, TypeOK
    <2>3. \A b \in Buckets : \/ place'[b] = place[b]
                             \/ job[w] = b /\ place'[b] \in {"torn", "gone"}
      BY <1>2 DEF DiscardRawOnly, ConfigureThrows, TypeOK
    <2> QED BY <1>2, <2>1, <2>2, <2>3 DEF DiscardRawOnly, ConfigureThrows,
                                          Respond, WorkerGoto
  <1>3. CASE \/ OpenLockOfJob(w) \/ Configure(w) \/ CopyThrows(w)
             \/ Transfer(w) \/ PersistSize(w) \/ TransferThrows(w)
             \/ EndCopy(w) \/ DeleteLockOfJob(w)
             \/ \E f \in Formats : SkipArchived(w, f) \/ Export(w, f)
    BY <1>3 DEF OpenLockOfJob, Configure, CopyThrows, Transfer, PersistSize,
         TransferThrows, EndCopy, DeleteLockOfJob, SkipArchived, Export,
         WorkerGoto, KeepsJob, freezerVars, dataVars
  <1>4. CASE BeginDelete(w) \/ EndDelete(w)
    BY <1>4 DEF BeginDelete, EndDelete, WorkerGoto, KeepsJob, TypeOK
  <1> QED BY <1>1, <1>2, <1>3, <1>4 DEF WorkerStep, WorkerThrows

\* Every step leaves the cold buckets to their own freezers.
LEMMA OwnersStep ==
  ASSUME IInv, OInv, [Next]_vars
  PROVE  OInv'
  <1> USE NoneAssumption
  <1>1. /\ TypeOK
        /\ \A c \in Freezers : HasTarget(c)
        /\ \A w \in Workers : HasJob(w)
    BY DEF IInv
  <1>2. /\ \A c \in Freezers : OwnBucket(c)
        /\ OneFresh
        /\ \A b \in Buckets : Untouched(b)
    BY DEF OInv
  <1>3. ASSUME NEW w \in Workers, WorkerStep(w) \/ WorkerThrows(w)
        PROVE  OInv'
    <2>1. \A b \in Buckets : place[b] = "cold" => job[w] # b
      BY <1>2 DEF Untouched, NoJob
    <2>2. \A b \in Buckets : place'[b] = "cold" <=> place[b] = "cold"
      BY <1>1, <1>3, <2>1, WorkerPlaces
    <2> QED BY <1>1, <1>3, <2>2, WorkerPlaces, WorkersKeepOwners
  <1>4. CASE ServerCrashes \/ ServerStarts \/ UNCHANGED vars
    <2>1. /\ UNCHANGED <<freezer, target, fresh, todo, place>>
          /\ \A w \in Workers : job'[w] \in {job[w], NoBucket}
      BY <1>4
      DEF ServerCrashes, ServerStarts, vars, freezerVars, workerVars, dataVars
    <2> QED BY <1>1, <2>1, WorkersKeepOwners
  <1>5. ASSUME NEW c \in Freezers, NEW b \in Buckets, Launch(c, b)
        PROVE  OInv'
    <2>1. /\ place[b] = "cold" /\ freezer[c] = "idle"
          /\ \A d \in Freezers : fresh[d] => target[d] # b
          /\ freezer' = [freezer EXCEPT ![c] = "open"]
          /\ target' = [target EXCEPT ![c] = b]
          /\ fresh' = [fresh EXCEPT ![c] = TRUE]
          /\ UNCHANGED <<todo, job, place>>
      BY <1>5 DEF Launch, FreezerGoto, workerVars, dataVars
    <2>2. \A d \in Freezers : OwnBucket(d)'
      BY <1>1, <1>2, <2>1 DEF OwnBucket, TypeOK
    <2>3. OneFresh'
      BY <1>1, <1>2, <2>1 DEF OneFresh, TypeOK
    <2>4. ASSUME NEW x \in Buckets PROVE Untouched(x)'
      BY <1>1, <1>2, <2>1 DEF Untouched, NoJob, TypeOK
    <2> QED BY <2>2, <2>3, <2>4 DEF OInv
  <1>6. ASSUME NEW c \in Freezers, NEW b \in Buckets, RecoverNext(c, b)
        PROVE  OInv'
    <2>1. /\ b \in todo[c] /\ freezer[c] = "next"
          /\ freezer' = [freezer EXCEPT ![c] = "open"]
          /\ target' = [target EXCEPT ![c] = b]
          /\ todo' = [todo EXCEPT ![c] = @ \ {b}]
          /\ UNCHANGED <<fresh, job, place>>
      BY <1>6 DEF RecoverNext, FreezerGoto, workerVars, dataVars
    <2>2. ~fresh[c] /\ place[b] # "cold"
      BY <1>2, <2>1 DEF OwnBucket, Untouched
    <2>3. \A d \in Freezers : OwnBucket(d)'
      BY <1>1, <1>2, <2>1, <2>2 DEF OwnBucket, TypeOK
    <2>4. OneFresh'
      BY <1>1, <1>2, <2>1, <2>2 DEF OneFresh, TypeOK
    <2>5. ASSUME NEW x \in Buckets PROVE Untouched(x)'
      BY <1>1, <1>2, <2>1, <2>2 DEF Untouched, NoJob, TypeOK
    <2> QED BY <2>3, <2>4, <2>5 DEF OInv
  <1>7. ASSUME NEW c \in Freezers, CloseLockOfTarget(c) \/ FreezerCrashes(c)
        PROVE  OInv'
    <2>1. /\ \E to \in {"list", "next", "idle"} :
               freezer' = [freezer EXCEPT ![c] = to]
          /\ target' = [target EXCEPT ![c] = NoBucket]
          /\ fresh' = [fresh EXCEPT ![c] = FALSE]
          /\ todo' = todo \/ todo' = [todo EXCEPT ![c] = {}]
          /\ UNCHANGED <<job, place>>
      BY <1>7
      DEF CloseLockOfTarget, FreezerCrashes, FreezerGoto, workerVars, dataVars
    <2>2. \A d \in Freezers : OwnBucket(d)'
      BY <1>1, <1>2, <2>1 DEF OwnBucket, TypeOK
    <2>3. OneFresh'
      BY <1>1, <1>2, <2>1 DEF OneFresh, TypeOK
    <2>4. ASSUME NEW x \in Buckets PROVE Untouched(x)'
      BY <1>1, <1>2, <2>1 DEF Untouched, NoJob, TypeOK
    <2> QED BY <2>2, <2>3, <2>4 DEF OInv
  <1>8. ASSUME NEW c \in Freezers, MoveToSafe(c)
        PROVE  OInv'
    <2>1. /\ freezer[c] = "move"
          /\ freezer' = [freezer EXCEPT ![c] = "post"]
          /\ place' = [place EXCEPT ![target[c]] = "safe"]
          /\ UNCHANGED <<target, fresh, todo, job>>
      BY <1>8 DEF MoveToSafe, FreezerGoto, workerVars
    <2>2. fresh[c] /\ target[c] \in Buckets
      BY <1>1, <1>2, <2>1 DEF OwnBucket, HasTarget
    <2>3. \A d \in Freezers : OwnBucket(d)'
      BY <1>1, <1>2, <2>1, <2>2
      DEF OwnBucket, OneFresh, HasTarget, TypeOK, FreezerSteps
    <2>4. OneFresh'
      BY <1>2, <2>1 DEF OneFresh
    <2>5. ASSUME NEW x \in Buckets PROVE Untouched(x)'
      BY <1>1, <1>2, <2>1, <2>2 DEF Untouched, NoJob, TypeOK
    <2> QED BY <2>3, <2>4, <2>5 DEF OInv
  <1>9. ASSUME NEW c \in Freezers, NEW w \in Workers, Post(c, w)
        PROVE  OInv'
    <2>1. /\ freezer[c] = "post"
          /\ freezer' = [freezer EXCEPT ![c] = "wait"]
          /\ job' = [job EXCEPT ![w] = target[c]]
          /\ UNCHANGED <<target, fresh, todo, place>>
      BY <1>9 DEF Post, FreezerGoto, dataVars
    <2>2. \A d \in Freezers : OwnBucket(d)'
      BY <1>1, <1>2, <2>1 DEF OwnBucket, TypeOK
    <2>3. OneFresh'
      BY <1>2, <2>1 DEF OneFresh
    <2>4. ASSUME NEW x \in Buckets PROVE Untouched(x)'
      BY <1>1, <1>2, <2>1 DEF Untouched, NoJob, TypeOK
    <2> QED BY <2>2, <2>3, <2>4 DEF OInv
  <1>10. ASSUME NEW c \in Freezers,
                \/ OpenLockOfTarget(c) \/ TryLockExclusive(c)
                \/ ConvertToShared(c)  \/ TryLockShared(c)
                \/ MoveThrows(c) \/ PostRefused(c) \/ Answered(c)
                \/ LaunchForOther(c)   \/ ListMovedBuckets(c)
                \/ BuildMovedBuckets(c) \/ FreezerExits(c)
         PROVE  OInv'
    <2>1. UNCHANGED <<target, fresh, job, place>>
      BY <1>10 DEF OpenLockOfTarget, TryLockExclusive, ConvertToShared,
           TryLockShared, MoveThrows, PostRefused, Answered, LaunchForOther,
           ListMovedBuckets, BuildMovedBuckets, FreezerExits, workerVars, dataVars
    <2>2. PICK to : /\ freezer' = [freezer EXCEPT ![c] = to]
                    /\ freezer[c] \in {"post", "wait"} => to = "close"
                    /\ freezer[c] \in {"idle", "list", "build", "next"} <=>
                         to \in {"idle", "list", "build", "next"}
                    /\ to = "move" => fresh[c]
                    /\ to \in {"post", "wait"} => ~fresh[c]
      BY <1>10 DEF OpenLockOfTarget, TryLockExclusive, ConvertToShared,
           TryLockShared, MoveThrows, PostRefused, Answered, LaunchForOther,
           ListMovedBuckets, BuildMovedBuckets, FreezerExits, FreezerGoto
    <2>3. freezer[c] = "close" => FALSE
      BY <1>10 DEF OpenLockOfTarget, TryLockExclusive, ConvertToShared,
           TryLockShared, MoveThrows, PostRefused, Answered, LaunchForOther,
           ListMovedBuckets, BuildMovedBuckets, FreezerExits, FreezerGoto
    <2>4. \A d \in Freezers : OwnBucket(d)'
      BY <1>1, <1>2, <2>1, <2>2, <2>3 DEF OwnBucket, TypeOK
    <2>5. OneFresh'
      BY <1>2, <2>1 DEF OneFresh
    <2>6. ASSUME NEW d \in Freezers, NEW x \in Buckets, x \in todo'[d]
          PROVE  x \in todo[d] \/ place[x] # "cold"
      <3>1. CASE ListMovedBuckets(c)
        <4>1. todo' = [todo EXCEPT ![c] =
                         {y \in Buckets : place[y] \in {"safe", "torn"}}]
          BY <3>1 DEF ListMovedBuckets
        <4> QED BY <1>1, <2>6, <4>1 DEF TypeOK
      <3>2. CASE ~ListMovedBuckets(c)
        <4>1. todo' = todo \/ todo' = [todo EXCEPT ![c] = {}]
          BY <1>10, <3>2
          DEF OpenLockOfTarget, TryLockExclusive, ConvertToShared,
           TryLockShared, MoveThrows, PostRefused, Answered, LaunchForOther,
           BuildMovedBuckets, FreezerExits
        <4> QED BY <1>1, <2>6, <4>1 DEF TypeOK
      <3> QED BY <3>1, <3>2
    <2>7. ASSUME NEW x \in Buckets PROVE Untouched(x)'
      BY <1>1, <1>2, <2>1, <2>2, <2>6 DEF Untouched, NoJob, TypeOK
    <2> QED BY <2>4, <2>5, <2>7 DEF OInv
  <1>11. ASSUME NEW c \in Freezers, FreezerStep(c)
         PROVE  OInv'
    BY <1>6, <1>7, <1>8, <1>9, <1>10, <1>11, Zenon DEF FreezerStep
  <1>12. ASSUME NEW c \in Freezers,
  LaunchForOther(c) \/ MoveThrows(c) \/ FreezerCrashes(c)
         PROVE  OInv'
    BY <1>7, <1>10, <1>12, Zenon
  <1> QED BY <1>3, <1>4, <1>5, <1>11, <1>12, Zenon DEF Next

\* An original bucket leaves the cold and the safe directory for good, and when
\* the archive has it in every format.
LEMMA PlaceStep ==
  ASSUME IInv, OInv, [Next]_vars, NEW b \in Buckets \ Replicated,
         (place'[b] \in {"cold", "safe"}) # (place[b] \in {"cold", "safe"})
  PROVE  /\ place[b] \in {"cold", "safe"}
         /\ Archived(b)
         /\ UNCHANGED stored
  <1>1. /\ TypeOK /\ Intact(b)
        /\ \A w \in Workers : HasJob(w) /\ Knows(w)
        /\ \A c \in Freezers : HasTarget(c)
    BY DEF IInv
  <1>2. ASSUME NEW w \in Workers, WorkerStep(w) \/ WorkerThrows(w)
        PROVE  /\ place[b] \in {"cold", "safe"} /\ Archived(b)
               /\ UNCHANGED stored
    <2>1. job[w] = b /\ place[b] \in {"cold", "safe"}
      BY <1>1, <1>2, WorkerPlaces DEF TypeOK
    <2>2. BeginDelete(w) \/ EndDelete(w)
      <3>1. ~DiscardRawOnly(w)
        BY <1>1, <2>1 DEF DiscardRawOnly, Respond, WorkerGoto, HasJob
      <3>2. CASE ConfigureThrows(w)
        BY <2>1, <3>2 DEF ConfigureThrows
      <3>3. CASE ~ConfigureThrows(w) /\ ~BeginDelete(w) /\ ~EndDelete(w)
        BY <1>2, <3>1, <3>3 DEF WorkerStep, WorkerThrows, CreateBucket,
           OpenLockOfJob, LockJob, Configure, SkipArchived, Export,
           CopyThrows, Transfer, PersistSize, TransferThrows, EndCopy,
           DeleteLockOfJob, CloseLockOfJob, dataVars
      <3> QED BY <3>2, <3>3
    <2>3. UNCHANGED stored
      BY <2>2 DEF BeginDelete, EndDelete
    <2>4. \A f \in Formats : Present(b, f)
      BY <1>1, <2>1, <2>2 DEF BeginDelete, EndDelete, WorkerGoto, Knows
    <2>5. Archived(b)
      BY <1>1, <2>4 DEF Archived, Present, Intact, TypeOK
    <2> QED BY <2>1, <2>3, <2>5
  <1>3. ASSUME NEW c \in Freezers, MoveToSafe(c)
        PROVE  FALSE
    <2>1. target[c] \in Buckets /\ place[target[c]] = "cold"
      BY <1>1, <1>3 DEF MoveToSafe, FreezerGoto, HasTarget, OInv, OwnBucket
    <2> QED BY <1>1, <1>3, <2>1 DEF MoveToSafe, TypeOK
  <1>4. ASSUME NEW c \in Freezers, FreezerStep(c), ~MoveToSafe(c)
        PROVE  FALSE
    BY <1>4 DEF FreezerStep, OpenLockOfTarget, TryLockExclusive,
         ConvertToShared, TryLockShared, Post, PostRefused, Answered,
         CloseLockOfTarget, ListMovedBuckets, BuildMovedBuckets,
         RecoverNext, FreezerExits, dataVars
  <1>5. ASSUME NEW c \in Freezers,
               \/ \E x \in Buckets : Launch(c, x)
               \/ LaunchForOther(c) \/ MoveThrows(c) \/ FreezerCrashes(c)
        PROVE  FALSE
    BY <1>5 DEF Launch, LaunchForOther, MoveThrows, FreezerCrashes, dataVars
  <1>6. ~ServerCrashes /\ ~ServerStarts /\ ~UNCHANGED vars
    BY DEF ServerCrashes, ServerStarts, vars, dataVars
  <1> QED BY <1>2, <1>3, <1>4, <1>5, <1>6, Zenon DEF Next

\* Such a step discards the bucket in the abstract, another one may publish it.
LEMMA PromiseStep ==
  ASSUME IInv, OInv, [Next]_vars, NEW b \in Buckets \ Replicated
  PROVE  [Promise(b)!Next]_(Promise(b)!promiseVars)
  <1> DEFINE here == place[b] \in {"cold", "safe"}
             here2 == place'[b] \in {"cold", "safe"}
  <1>1. Archived(b) => Archived(b)'
    BY PresentForGood DEF Archived, Present, IInv
  <1>2. CASE here = here2
    BY <1>1, <1>2 DEF Promise!Next, Promise!Publish, Promise!promiseVars
  <1>3. CASE here # here2
    <2>1. here /\ Archived(b) /\ UNCHANGED stored
      BY <1>3, PlaceStep
    <2>2. Archived(b)'
      BY <1>1, <2>1
    <2>3. Promise(b)!Discard(Server)
      BY <1>3, <2>1, <2>2 DEF Promise!Discard
    <2> QED BY <2>3 DEF Promise!Next
  <1> QED BY <1>2, <1>3

\* All buckets are cold and nobody is at one.
LEMMA InitOInv == Init => OInv
  BY NoneAssumption DEF Init, OInv, OwnBucket, OneFresh, Untouched, NoJob

\* Archiving implements ArchivePromise for every original bucket, unless the
\* list of formats is empty, whatever crashes: the bucket is published once and
\* for good, its files are given up only after that, and they never come back.
THEOREM ArchivingRefinement ==
  ASSUME Formats # {}
  PROVE  Spec => KeepsThePromise
  <1>1. Init => IInv /\ OInv
    BY InitIInv, InitOInv
  <1>2. IInv /\ OInv /\ [Next]_vars => (IInv /\ OInv)'
    BY NextIInv, OwnersStep
  <1>3. Init => \A b \in Buckets \ Replicated : Promise(b)!Init
    <2> SUFFICES ASSUME Init, NEW b \in Buckets \ Replicated
                 PROVE  Promise(b)!Init
      OBVIOUS
    <2>1. ~Archived(b)
      BY DEF Init, Archived
    <2>2. place[b] = "cold"
      BY DEF Init
    <2> QED BY <2>1, <2>2 DEF Promise!Init
  <1>4. IInv /\ OInv /\ [Next]_vars =>
          [\A b \in Buckets \ Replicated :
             [Promise(b)!Next]_(Promise(b)!promiseVars)]_vars
    BY PromiseStep
  <1> QED BY <1>1, <1>2, <1>3, <1>4, PTL DEF Spec, KeepsThePromise

-----------------------------------------------------------------------------
(***************************************************************************)
(* Locks of workers                                                        *)
(*                                                                         *)
(* What a freezer's exclusive lock and a worker's shared one are to keep,  *)
(* one shuttler for a bucket, they do not keep.  What they do keep follows *)
(* from an invariant of the locks alone (LInv): a worker has a shared lock *)
(* from the step that got it to the step that closes it, and the JVM never *)
(* gives two threads a lock on one file.                                   *)
(***************************************************************************)

Holding == {"configure", "copy", "transfer", "size", "delete", "tear",
            "unlink", "close"}

WorkerLock(w) == mode[w] = IF worker[w] \in Holding THEN "shared" ELSE "none"

Apart(v, w) ==
  mode[v] # "none" /\ mode[w] # "none" /\ opened[v] = opened[w] => v = w

LInv ==
  /\ \A w \in Workers : WorkerLock(w)
  /\ \A v, w \in Workers : Apart(v, w)

\* Who opens or locks is at no other worker's lock.
LEMMA LocksKept ==
  ASSUME LInv, NEW w \in Workers,
         \A v \in Workers \ {w} :
           UNCHANGED <<mode[v], opened[v], worker[v]>>,
         WorkerLock(w)',
         \/ mode'[w] = "none"
         \/ mode'[w] = mode[w] /\ opened'[w] = opened[w]
         \/ \A v \in Workers \ {w} : mode[v] # "none" => opened[v] # opened'[w]
  PROVE  LInv'
  BY DEF LInv, WorkerLock, Apart

\* Freezers leave the locks of workers alone.
LEMMA FreezersKeepLocks ==
  ASSUME TypeOK, LInv, NEW c \in Freezers,
         \/ \E b \in Buckets : Launch(c, b)
         \/ LaunchForOther(c) \/ FreezerStep(c)
         \/ MoveThrows(c) \/ FreezerCrashes(c)
  PROVE  LInv'
  <1> USE ActorsAssumption
  <1>1. \A w \in Workers : UNCHANGED <<mode[w], opened[w]>>
    <2>1. CASE lockVars' = lockVars
      BY <2>1 DEF lockVars
    <2>2. CASE OpenLockOfTarget(c)
      BY <2>2 DEF OpenLockOfTarget, OpenLockFile, TypeOK, LocksTypeOK
    <2>3. CASE TryLockExclusive(c) \/ ConvertToShared(c) \/ TryLockShared(c)
      BY <2>3 DEF TryLockExclusive, ConvertToShared, TryLockShared,
                  ReleaseLock, Lock, lockVars, TypeOK, LocksTypeOK
    <2>4. CASE CloseLockOfTarget(c)
      BY <2>4 DEF CloseLockOfTarget, CloseLock, TypeOK, LocksTypeOK
    <2>5. CASE FreezerCrashes(c)
      BY <2>5 DEF FreezerCrashes, ExitProcess, TypeOK, LocksTypeOK
    <2>6. CASE \/ \E b \in Buckets : Launch(c, b) \/ RecoverNext(c, b)
               \/ LaunchForOther(c) \/ MoveToSafe(c) \/ MoveThrows(c)
               \/ \E w \in Workers : Post(c, w)
               \/ PostRefused(c) \/ Answered(c) \/ ListMovedBuckets(c)
               \/ BuildMovedBuckets(c) \/ FreezerExits(c)
      BY <2>1, <2>6 DEF Launch, RecoverNext, LaunchForOther, MoveToSafe,
         MoveThrows, Post, PostRefused, Answered, ListMovedBuckets,
         BuildMovedBuckets, FreezerExits
    <2> QED BY <2>2, <2>3, <2>4, <2>5, <2>6 DEF FreezerStep
  <1>2. \A w \in Workers : worker'[w] \in Holding <=> worker[w] \in Holding
    <2>1. ASSUME NEW w \in Workers, Post(c, w)
          PROVE  \A v \in Workers :
                   worker'[v] \in Holding <=> worker[v] \in Holding
      BY <2>1 DEF Post, Holding, TypeOK
    <2>2. CASE \A w \in Workers : ~Post(c, w)
      <3>1. worker' = worker
        BY <2>2 DEF Launch, LaunchForOther, MoveThrows, FreezerCrashes,
           FreezerStep, OpenLockOfTarget, TryLockExclusive, ConvertToShared,
           TryLockShared, MoveToSafe, PostRefused, Answered,
           CloseLockOfTarget, ListMovedBuckets, BuildMovedBuckets,
           FreezerExits, RecoverNext, workerVars
      <3> QED BY <3>1
    <2> QED BY <2>1, <2>2
  <1> QED BY <1>1, <1>2 DEF LInv, WorkerLock, Apart

\* A worker locks no file that another worker has a lock on, and unlocks its
\* own when it is done.
LEMMA WorkersKeepLocks ==
  ASSUME TypeOK, LInv, NEW w \in Workers, WorkerStep(w) \/ WorkerThrows(w)
  PROVE  LInv'
  <1> USE ActorsAssumption
  <1>1. WorkerLock(w)
    BY DEF LInv
  <1>2. ASSUME NEW from, Respond(w, from)
        PROVE  /\ worker'[w] = "idle" /\ worker[w] = from
               /\ \A v \in Workers \ {w} : worker'[v] = worker[v]
    BY <1>2 DEF Respond, WorkerGoto, TypeOK
  <1>3. ASSUME NEW from, NEW to, WorkerGoto(w, from, to)
        PROVE  /\ worker'[w] = to /\ worker[w] = from
               /\ \A v \in Workers \ {w} : worker'[v] = worker[v]
    BY <1>3 DEF WorkerGoto, TypeOK
  <1>4. ASSUME lockVars' = lockVars,
               \A v \in Workers \ {w} : worker'[v] = worker[v],
               worker'[w] \in Holding <=> worker[w] \in Holding
        PROVE  LInv'
    BY <1>1, <1>4, LocksKept DEF WorkerLock, lockVars
  <1>5. CASE CreateBucket(w) \/ DiscardRawOnly(w)
    BY <1>2, <1>3, <1>4, <1>5 DEF CreateBucket, DiscardRawOnly, Holding
  <1>6. CASE OpenLockOfJob(w)
    <2>1. /\ mode' = mode
          /\ \A v \in Workers \ {w} : opened'[v] = opened[v]
      BY <1>6 DEF OpenLockOfJob, OpenLockFile, TypeOK, LocksTypeOK
    <2>2. worker[w] = "open" /\ worker'[w] = "lock"
          /\ \A v \in Workers \ {w} : worker'[v] = worker[v]
      BY <1>3, <1>6 DEF OpenLockOfJob
    <2> QED BY <1>1, <2>1, <2>2, LocksKept DEF WorkerLock, Holding
  <1>7. CASE LockJob(w)
    <2>1. CASE /\ WorkerGoto(w, "lock", "configure")
               /\ Lockable(w, "shared") /\ Lock(w, "shared")
      <3>1. /\ opened' = opened /\ mode'[w] = "shared"
            /\ \A v \in Workers \ {w} : mode'[v] = mode[v]
        BY <2>1 DEF Lock, TypeOK, LocksTypeOK
      <3>2. \A v \in Workers \ {w} : mode[v] # "none" => opened[v] # opened'[w]
        BY <2>1, <3>1 DEF Lockable
      <3> QED BY <1>3, <2>1, <3>1, <3>2, LocksKept DEF WorkerLock, Holding
    <2>2. CASE Respond(w, "lock") /\ CloseLock(w)
      BY <1>2, <2>2, LocksKept
      DEF CloseLock, WorkerLock, Holding, TypeOK, LocksTypeOK
    <2> QED BY <1>7, <2>1, <2>2 DEF LockJob
  <1>8. CASE ConfigureThrows(w)
    BY <1>2, <1>8, LocksKept
    DEF ConfigureThrows, LeakLock, WorkerLock, Holding, TypeOK, LocksTypeOK
  <1>9. CASE CloseLockOfJob(w)
    BY <1>2, <1>9, LocksKept
    DEF CloseLockOfJob, CloseLock, WorkerLock, Holding, TypeOK, LocksTypeOK
  <1>10. CASE DeleteLockOfJob(w)
    BY <1>1, <1>3, <1>10, LocksKept
    DEF DeleteLockOfJob, DeleteLockFile, WorkerLock, Holding
  <1>11. CASE TransferThrows(w)
    <2>1. /\ worker[w] \in {"transfer", "size"} /\ worker'[w] = "copy"
          /\ \A v \in Workers \ {w} : worker'[v] = worker[v]
      BY <1>11 DEF TransferThrows, TypeOK
    <2> QED BY <1>4, <1>11, <2>1 DEF TransferThrows, Holding
  <1>12. CASE \/ Configure(w) \/ Transfer(w) \/ PersistSize(w)
              \/ EndCopy(w) \/ BeginDelete(w) \/ EndDelete(w)
              \/ CopyThrows(w)
              \/ \E f \in Formats : SkipArchived(w, f) \/ Export(w, f)
    BY <1>3, <1>4, <1>12 DEF Configure, Transfer, PersistSize, EndCopy,
       BeginDelete, EndDelete, CopyThrows, SkipArchived, Export, Holding
  <1> QED BY <1>5, <1>6, <1>7, <1>8, <1>9, <1>10, <1>11, <1>12
          DEF WorkerStep, WorkerThrows

\* However many freezers and workers race, whatever fails and whoever crashes:
\* two workers never shuttle with one lock file open.  So it takes the deletion
\* of a lock file that is in use for two workers to be at one bucket with its
\* lock.
THEOREM ShuttlersHaveOwnFiles == Spec => []OneShuttlerPerLockFile
  <1>1. Init => LInv
    BY ActorsAssumption
    DEF Init, LInv, LocksInit, WorkerLock, Apart, Holding
  <1>2. IInv /\ LInv /\ [Next]_vars => LInv'
    <2> SUFFICES ASSUME IInv, LInv, [Next]_vars
                 PROVE  LInv'
      OBVIOUS
    <2>1. TypeOK
      BY DEF IInv
    <2>2. CASE ServerCrashes
      BY <2>2, ActorsAssumption
      DEF ServerCrashes, ExitProcess, LInv, WorkerLock, Apart, Holding
    <2>3. CASE ServerStarts \/ UNCHANGED vars
      BY <2>3 DEF ServerStarts, vars, workerVars, lockVars, LInv, WorkerLock,
                  Apart
    <2> QED BY <2>1, <2>2, <2>3, FreezersKeepLocks, WorkersKeepLocks DEF Next
  <1>3. LInv => OneShuttlerPerLockFile
    BY DEF LInv, WorkerLock, Apart, Holding, OneShuttlerPerLockFile, Shuttling
  <1> QED BY <1>1, <1>2, <1>3, Invariance, PTL DEF Spec
=============================================================================
