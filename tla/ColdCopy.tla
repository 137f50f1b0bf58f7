------------------------------- MODULE ColdCopy -------------------------------
(***************************************************************************)
(* Copying cold buckets on one indexer, before they freeze.                *)
(*                                                                         *)
(* Splunk runs warmToColdScript.sh for each bucket that turns cold: it     *)
(* moves the bucket to the cold directory and runs ColdCopyEntryPoint, a   *)
(* JVM of its own, called a copier here.  The copier scans the whole cold  *)
(* directory and, for each original bucket without a copy receipt, takes   *)
(* the copy lock, posts the bucket to the Shuttl server and writes the     *)
(* receipt.  A worker thread of the server takes the copy lock too and     *)
(* transfers the bucket in each format that the archive does not have.     *)
(*                                                                         *)
(* Meanwhile buckets freeze: they leave the cold directory, and the        *)
(* archive gets their formats from elsewhere (module Archiving).           *)
(***************************************************************************)
EXTENDS Naturals, LockFiles

CONSTANTS Copiers,    \* JVMs that splunkd runs, again and again
          Workers,    \* threads of the Shuttl server
          Server,     \* the process of the Shuttl server
          Formats,    \* archiveFormats of archiver.xml
          Originals,  \* the buckets that are not replicated ones
          NoBucket,
          NoWorker,
          NoFormat,
          Faults,     \* the kinds of faults that may happen
          MaxFaults   \* bound: how many of them happen

ASSUME CopyActorsAssumption ==
  /\ Actors = Copiers \cup Workers
  /\ Copiers \cap Workers = {}
  /\ ProcessOf = [a \in Actors |-> IF a \in Workers THEN Server ELSE a]
  /\ Server \notin Actors
ASSUME OriginalsAssumption == Originals \subseteq Buckets
ASSUME CopyNoneAssumption ==
  NoBucket \notin Buckets /\ NoWorker \notin Workers /\ NoFormat \notin Formats
ASSUME CopyFaultsAssumption == MaxFaults \in Nat

VARIABLES
  place,     \* the directory that the local bucket is in
  stored,    \* the formats that the archive has of a bucket
  receipts,  \* the buckets with a copy receipt
  copier,    \* what each copier does next
  target,    \* the bucket that a copier is at
  todo,      \* the cold buckets that a copier has not come to yet
  server,    \* the worker that a copier waits for
  answer,    \* the status of the last response to a copier
  worker,    \* what each worker does next
  job,       \* the bucket that a worker was posted
  formats,   \* the formats that a worker has not dealt with yet
  format,    \* the format that a worker transfers now
  failed,    \* the job of the worker has met an exception
  up,        \* the Shuttl server runs
  faults     \* how many faults have happened

copierVars == <<copier, target, todo, server, answer>>
workerVars == <<worker, job, formats, format, failed>>
dataVars   == <<place, stored, receipts>>
vars == <<lockVars, copierVars, workerVars, dataVars, up, faults>>

CopierSteps ==
  {"idle", "list", "build", "next", "open", "lock", "convert", "reshare",
   "post", "wait", "receipt", "close"}
WorkerSteps ==
  {"idle", "create", "open", "lock", "configure", "copy", "transfer", "size",
   "unlink", "close"}

TypeOK ==
  /\ LocksTypeOK
  /\ place \in [Buckets -> {"warm", "cold", "frozen"}]
  /\ stored \in [Buckets -> SUBSET Formats]
  /\ receipts \subseteq Buckets
  /\ copier \in [Copiers -> CopierSteps]
  /\ target \in [Copiers -> Buckets \cup {NoBucket}]
  /\ todo \in [Copiers -> SUBSET Buckets]
  /\ server \in [Copiers -> Workers \cup {NoWorker}]
  /\ answer \in [Copiers -> {"none", "2xx", "error"}]
  /\ worker \in [Workers -> WorkerSteps]
  /\ job \in [Workers -> Buckets \cup {NoBucket}]
  /\ formats \in [Workers -> SUBSET Formats]
  /\ format \in [Workers -> Formats \cup {NoFormat}]
  /\ failed \in [Workers -> BOOLEAN]
  /\ up \in BOOLEAN
  /\ faults \in 0..MaxFaults

Init ==
  /\ LocksInit
  /\ place = [b \in Buckets |-> "warm"]
  /\ stored = [b \in Buckets |-> {}]
  /\ receipts = {}
  /\ copier = [c \in Copiers |-> "idle"]
  /\ target = [c \in Copiers |-> NoBucket]
  /\ todo = [c \in Copiers |-> {}]
  /\ server = [c \in Copiers |-> NoWorker]
  /\ answer = [c \in Copiers |-> "none"]
  /\ worker = [w \in Workers |-> "idle"]
  /\ job = [w \in Workers |-> NoBucket]
  /\ formats = [w \in Workers |-> {}]
  /\ format = [w \in Workers |-> NoFormat]
  /\ failed = [w \in Workers |-> FALSE]
  /\ up = TRUE
  /\ faults = 0

\* One of the exceptions and crashes that the code has to expect.
Fault(kind) ==
  /\ kind \in Faults
  /\ faults < MaxFaults
  /\ faults' = faults + 1

-----------------------------------------------------------------------------
(***************************************************************************)
(* Splunk and the archiving of frozen buckets                              *)
(***************************************************************************)

\* A cold bucket freezes: BucketFreezer moves it to the safe directory.
Freeze(b) ==
  /\ place[b] = "cold"
  /\ place' = [place EXCEPT ![b] = "frozen"]
  /\ UNCHANGED <<lockVars, copierVars, workerVars, stored, receipts, up,
                 faults>>

\* The archive endpoint archives a frozen bucket in a format.
ArchiveFrozen(b, f) ==
  /\ place[b] = "frozen"
  /\ f \notin stored[b]
  /\ stored' = [stored EXCEPT ![b] = @ \cup {f}]
  /\ UNCHANGED <<lockVars, copierVars, workerVars, place, receipts, up, faults>>

-----------------------------------------------------------------------------
(***************************************************************************)
(* The copier                                                              *)
(***************************************************************************)

CopierGoto(c, from, to) ==
  /\ copier[c] = from
  /\ copier' = [copier EXCEPT ![c] = to]

\* warmToColdScript.sh moves the bucket, then runs ColdCopyEntryPoint.
Launch(c, b) ==
  /\ place[b] = "warm"
  /\ CopierGoto(c, "idle", "list")
  /\ place' = [place EXCEPT ![b] = "cold"]
  /\ UNCHANGED <<lockVars, target, todo, server, answer, workerVars, stored,
                 receipts, up, faults>>

\* The same for a bucket of the index that is none of these.
LaunchForOther(c) ==
  /\ CopierGoto(c, "idle", "list")
  /\ UNCHANGED <<lockVars, target, todo, server, answer, workerVars, dataVars,
                 up, faults>>

\* Mutant: a regular file in the cold directory is listed as a bucket.
ListColdFilesToo(c) ==
  /\ CopierGoto(c, "list", "build")
  /\ todo' = [todo EXCEPT ![c] =
                 {NoBucket} \cup {b \in Buckets : place[b] = "cold"}]
  /\ UNCHANGED <<lockVars, target, server, answer, workerVars, dataVars, up,
                 faults>>

\* iteratorInDirectory: the bucket names in the cold directory ...
ListCold(c) ==
  /\ CopierGoto(c, "list", "build")
  /\ todo' = [todo EXCEPT ![c] = {b \in Buckets : place[b] = "cold"}]
  /\ UNCHANGED <<lockVars, target, server, answer, workerVars, dataVars, up,
                 faults>>

\* ... of which those that have gone since are left out, unless they go between
\* isDirectory and the bucket's constructor: its exception ends the copier.
BuildColdBuckets(c) ==
  LET gone == {b \in todo[c] : place[b] # "cold"}
  IN  /\ \/ /\ CopierGoto(c, "build", "next")
            /\ todo' = [todo EXCEPT ![c] = @ \ gone]
         \/ /\ gone # {}
            /\ CopierGoto(c, "build", "idle")
            /\ todo' = [todo EXCEPT ![c] = {}]
      /\ UNCHANGED <<lockVars, target, server, answer, workerVars, dataVars, up,
                     faults>>

\* copyColdBucket passes over replicated buckets and over those with a receipt.
NextBucket(c, b) ==
  /\ b \in todo[c]
  /\ todo' = [todo EXCEPT ![c] = @ \ {b}]
  /\ IF b \in Originals /\ b \notin receipts
     THEN CopierGoto(c, "next", "open") /\ target' = [target EXCEPT ![c] = b]
     ELSE CopierGoto(c, "next", "next") /\ UNCHANGED target
  /\ UNCHANGED <<lockVars, server, answer, workerVars, dataVars, up, faults>>

CopierExits(c) ==
  /\ todo[c] = {}
  /\ CopierGoto(c, "next", "idle")
  /\ UNCHANGED <<lockVars, target, todo, server, answer, workerVars, dataVars,
                 up, faults>>

OpenLockOfTarget(c) ==
  /\ CopierGoto(c, "open", "lock")
  /\ OpenLockFile(c, target[c])
  /\ UNCHANGED <<target, todo, server, answer, workerVars, dataVars, up, faults>>

\* BucketLocker: an exclusive lock, to be converted to a shared one.
TryLockExclusive(c) ==
  /\ \/ /\ CopierGoto(c, "lock", "convert")
        /\ Lockable(c, "exclusive")
        /\ Lock(c, "exclusive")
     \/ /\ CopierGoto(c, "lock", "close")
        /\ ~Lockable(c, "exclusive")
        /\ UNCHANGED lockVars
  /\ UNCHANGED <<target, todo, server, answer, workerVars, dataVars, up, faults>>

ConvertToShared(c) ==
  /\ CopierGoto(c, "convert", "reshare")
  /\ ReleaseLock(c)
  /\ UNCHANGED <<target, todo, server, answer, workerVars, dataVars, up, faults>>

TryLockShared(c) ==
  /\ \/ /\ CopierGoto(c, "reshare", "post")
        /\ Lockable(c, "shared")
        /\ Lock(c, "shared")
     \/ /\ CopierGoto(c, "reshare", "close")
        /\ ~Lockable(c, "shared")
        /\ UNCHANGED lockVars
  /\ UNCHANGED <<target, todo, server, answer, workerVars, dataVars, up, faults>>

\* CallCopyBucketEndpoint.call: the server takes the request ...
Post(c, w) ==
  /\ up
  /\ worker[w] = "idle"
  /\ CopierGoto(c, "post", "wait")
  /\ server' = [server EXCEPT ![c] = w]
  /\ answer' = [answer EXCEPT ![c] = "none"]
  /\ worker' = [worker EXCEPT ![w] = "create"]
  /\ job' = [job EXCEPT ![w] = target[c]]
  /\ UNCHANGED <<lockVars, target, todo, formats, format, failed, dataVars, up,
                 faults>>

\* ... or cannot be reached: an IOException, which ends the handler.
PostRefused(c) ==
  /\ ~up
  /\ CopierGoto(c, "post", "close")
  /\ UNCHANGED <<lockVars, target, todo, server, answer, workerVars, dataVars,
                 up, faults>>

\* Mutant: the status of the response is not looked at.
AnsweredUnchecked(c) ==
  /\ server[c] = NoWorker
  /\ CopierGoto(c, "wait", "receipt")
  /\ answer' = [answer EXCEPT ![c] = "none"]
  /\ UNCHANGED <<lockVars, target, todo, server, workerVars, dataVars, up,
                 faults>>

\* throwIfResponseWasNot2xx: anything but a 2xx ends the handler, too.
Answered(c) ==
  /\ server[c] = NoWorker
  /\ CopierGoto(c, "wait", IF answer[c] = "2xx" THEN "receipt" ELSE "close")
  /\ answer' = [answer EXCEPT ![c] = "none"]
  /\ UNCHANGED <<lockVars, target, todo, server, workerVars, dataVars, up,
                 faults>>

CreateReceipt(c) ==
  /\ CopierGoto(c, "receipt", "close")
  /\ receipts' = receipts \cup {target[c]}
  /\ UNCHANGED <<lockVars, target, todo, server, answer, workerVars, place,
                 stored, up, faults>>

\* The receipt cannot be written; the exception is logged.
CreateReceiptThrows(c) ==
  /\ CopierGoto(c, "receipt", "close")
  /\ Fault("receipt")
  /\ UNCHANGED <<lockVars, target, todo, server, answer, workerVars, dataVars,
                 up>>

CloseLockOfTarget(c) ==
  /\ CopierGoto(c, "close", "next")
  /\ CloseLock(c)
  /\ target' = [target EXCEPT ![c] = NoBucket]
  /\ UNCHANGED <<todo, server, answer, workerVars, dataVars, up, faults>>

\* The copier's JVM is killed; a worker that it waits for goes on.
CopierCrashes(c) ==
  /\ copier[c] # "idle"
  /\ Fault("copier_crash")
  /\ copier' = [copier EXCEPT ![c] = "idle"]
  /\ target' = [target EXCEPT ![c] = NoBucket]
  /\ todo' = [todo EXCEPT ![c] = {}]
  /\ server' = [server EXCEPT ![c] = NoWorker]
  /\ answer' = [answer EXCEPT ![c] = "none"]
  /\ ExitProcess(c)
  /\ UNCHANGED <<workerVars, dataVars, up>>

-----------------------------------------------------------------------------
(***************************************************************************)
(* The worker                                                              *)
(***************************************************************************)

WorkerGoto(w, from, to) ==
  /\ worker[w] = from
  /\ worker' = [worker EXCEPT ![w] = to]

KeepsJob == UNCHANGED <<server, answer, job, formats, format, failed>>

\* The request is over: a 2xx, or what the server makes of an exception.
Respond(w, from, status) ==
  /\ WorkerGoto(w, from, "idle")
  /\ server' = [c \in Copiers |-> IF server[c] = w THEN NoWorker ELSE server[c]]
  /\ answer' = [c \in Copiers |-> IF server[c] = w THEN status ELSE answer[c]]
  /\ job' = [job EXCEPT ![w] = NoBucket]
  /\ formats' = [formats EXCEPT ![w] = {}]
  /\ format' = [format EXCEPT ![w] = NoFormat]
  /\ failed' = [failed EXCEPT ![w] = FALSE]

\* copyBucket makes a bucket of the path, which throws when it has gone.
CreateBucket(w) ==
  /\ worker[w] = "create"
  /\ \/ /\ place[job[w]] = "cold"
        /\ WorkerGoto(w, "create", "open")
        /\ KeepsJob
     \/ /\ place[job[w]] # "cold"
        /\ Respond(w, "create", "error")
  /\ UNCHANGED <<lockVars, copier, target, todo, dataVars, up, faults>>

OpenLockOfJob(w) ==
  /\ WorkerGoto(w, "open", "lock")
  /\ OpenLockFile(w, job[w])
  /\ KeepsJob
  /\ UNCHANGED <<copier, target, todo, dataVars, up, faults>>

\* createBucketLock: no shared lock, no copy.
LockJob(w) ==
  /\ \/ /\ WorkerGoto(w, "lock", "configure")
        /\ Lockable(w, "shared")
        /\ Lock(w, "shared")
        /\ KeepsJob
     \/ /\ worker[w] = "lock" /\ ~Lockable(w, "shared")
        /\ Respond(w, "lock", "error")
        /\ CloseLock(w)
  /\ UNCHANGED <<copier, target, todo, dataVars, up, faults>>

\* createShuttler, with the configuration that all copies share.
Configure(w) ==
  /\ WorkerGoto(w, "configure", "copy")
  /\ formats' = [formats EXCEPT ![w] = Formats]
  /\ UNCHANGED <<lockVars, copierVars, job, format, failed, dataVars, up,
                 faults>>

\* It throws, before BucketShuttlerRunner's finally guards the lock.
ConfigureThrows(w) ==
  /\ Respond(w, "configure", "error")
  /\ LeakLock(w)
  /\ Fault("configure")
  /\ UNCHANGED <<copier, target, todo, dataVars, up>>

\* Mutant: a format that is archived already is a failure.
SkipArchivedThrows(w, f) ==
  /\ WorkerGoto(w, "copy", "copy")
  /\ f \in formats[w]
  /\ f \in stored[job[w]]
  /\ formats' = [formats EXCEPT ![w] = @ \ {f}]
  /\ failed' = [failed EXCEPT ![w] = TRUE]
  /\ UNCHANGED <<lockVars, copierVars, job, format, dataVars, up, faults>>

\* isArchived: nothing is to be done for the format.
SkipArchived(w, f) ==
  /\ WorkerGoto(w, "copy", "copy")
  /\ f \in formats[w]
  /\ f \in stored[job[w]]
  /\ formats' = [formats EXCEPT ![w] = @ \ {f}]
  /\ UNCHANGED <<lockVars, copierVars, job, format, failed, dataVars, up,
                 faults>>

\* exportBucketThenCopy: any other format is exported.
Export(w, f) ==
  /\ WorkerGoto(w, "copy", "transfer")
  /\ f \in formats[w]
  /\ f \notin stored[job[w]]
  /\ formats' = [formats EXCEPT ![w] = @ \ {f}]
  /\ format' = [format EXCEPT ![w] = f]
  /\ UNCHANGED <<lockVars, copierVars, job, failed, dataVars, up, faults>>

\* An exception, or the bucket's freezing.
Trouble(w) == Fault("copy") \/ (place[job[w]] = "frozen" /\ UNCHANGED faults)

\* isArchived or exportBucket throws: the loop over the formats is left.
CopyThrows(w) ==
  /\ worker[w] = "copy" /\ formats[w] # {}
  /\ worker' = [worker EXCEPT ![w] = "unlink"]
  /\ failed' = [failed EXCEPT ![w] = TRUE]
  /\ Trouble(w)
  /\ UNCHANGED <<lockVars, copierVars, job, formats, format, dataVars, up>>

\* The bucket's transaction publishes it, unless that was done meanwhile.
Transfer(w) ==
  /\ WorkerGoto(w, "transfer", "size")
  /\ place[job[w]] = "cold" \/ format[w] \in stored[job[w]]
  /\ stored' = [stored EXCEPT ![job[w]] = @ \cup {format[w]}]
  /\ KeepsJob
  /\ UNCHANGED <<lockVars, copier, target, todo, place, receipts, up, faults>>

\* The transaction of bucket.size, a second one.
PersistSize(w) ==
  /\ WorkerGoto(w, "size", "copy")
  /\ format' = [format EXCEPT ![w] = NoFormat]
  /\ UNCHANGED <<lockVars, copierVars, job, formats, failed, dataVars, up,
                 faults>>

\* Mutant: the exception of a format is logged, and no more.
TransferThrowsQuietly(w) ==
  /\ worker[w] \in {"transfer", "size"}
  /\ Trouble(w)
  /\ worker' = [worker EXCEPT ![w] = "copy"]
  /\ format' = [format EXCEPT ![w] = NoFormat]
  /\ UNCHANGED <<lockVars, copierVars, job, formats, failed, dataVars, up>>

\* Either throws: the exception is kept for the end of the loop.
TransferThrows(w) ==
  /\ worker[w] \in {"transfer", "size"}
  /\ Trouble(w)
  /\ worker' = [worker EXCEPT ![w] = "copy"]
  /\ failed' = [failed EXCEPT ![w] = TRUE]
  /\ format' = [format EXCEPT ![w] = NoFormat]
  /\ UNCHANGED <<lockVars, copierVars, job, formats, dataVars, up>>

\* The end of the loop, and BucketShuttlerRunner's finally.
DeleteLockOfJob(w) ==
  /\ \/ WorkerGoto(w, "copy", "close") /\ formats[w] = {}
     \/ WorkerGoto(w, "unlink", "close")
  /\ DeleteLockFile(job[w])
  /\ KeepsJob
  /\ UNCHANGED <<copier, target, todo, dataVars, up, faults>>

\* What copyBucket has thrown is answered with an error.
CloseLockOfJob(w) ==
  /\ Respond(w, "close", IF failed[w] THEN "error" ELSE "2xx")
  /\ CloseLock(w)
  /\ UNCHANGED <<copier, target, todo, dataVars, up, faults>>

-----------------------------------------------------------------------------

\* The server process dies, with its workers and its locks.
ServerCrashes ==
  /\ up
  /\ Fault("server_crash")
  /\ up' = FALSE
  /\ worker' = [w \in Workers |-> "idle"]
  /\ job' = [w \in Workers |-> NoBucket]
  /\ formats' = [w \in Workers |-> {}]
  /\ format' = [w \in Workers |-> NoFormat]
  /\ failed' = [w \in Workers |-> FALSE]
  /\ server' = [c \in Copiers |-> NoWorker]
  /\ ExitProcess(Server)
  /\ UNCHANGED <<copier, target, todo, answer, dataVars>>

ServerStarts ==
  /\ ~up
  /\ up' = TRUE
  /\ UNCHANGED <<lockVars, copierVars, workerVars, dataVars, faults>>

\* What a copier does by itself.
CopierStep(c) ==
  \/ ListCold(c)         \/ BuildColdBuckets(c) \/ CopierExits(c)
  \/ OpenLockOfTarget(c) \/ TryLockExclusive(c) \/ ConvertToShared(c)
  \/ TryLockShared(c)    \/ PostRefused(c)      \/ Answered(c)
  \/ CreateReceipt(c)    \/ CloseLockOfTarget(c)
  \/ \E w \in Workers : Post(c, w)
  \/ \E b \in Buckets : NextBucket(c, b)

\* What a worker does when nothing fails.
WorkerStep(w) ==
  \/ CreateBucket(w) \/ OpenLockOfJob(w) \/ LockJob(w)         \/ Configure(w)
  \/ Transfer(w)     \/ PersistSize(w)   \/ DeleteLockOfJob(w) \/ CloseLockOfJob(w)
  \/ \E f \in Formats : SkipArchived(w, f) \/ Export(w, f)

WorkerThrows(w) == ConfigureThrows(w) \/ CopyThrows(w) \/ TransferThrows(w)

Next ==
  \/ \E b \in Buckets : Freeze(b) \/ \E f \in Formats : ArchiveFrozen(b, f)
  \/ \E c \in Copiers, b \in Buckets : Launch(c, b)
  \/ \E c \in Copiers : LaunchForOther(c) \/ CopierStep(c)
                        \/ CreateReceiptThrows(c) \/ CopierCrashes(c)
  \/ \E w \in Workers : WorkerStep(w) \/ WorkerThrows(w)
  \/ ServerCrashes \/ ServerStarts

Spec == Init /\ [][Next]_vars

\* The server's threads and the copiers run on, the server is restarted, and
\* splunkd runs copiers as long as it has buckets that turn cold.  The two
\* system calls that convert a lock follow each other, so another copier does
\* not get between them every time.
Fairness ==
  /\ WF_vars(ServerStarts)
  /\ \A w \in Workers : WF_vars(WorkerStep(w))
  /\ \A w \in Workers :
       WF_vars((CopyThrows(w) \/ TransferThrows(w)) /\ faults' = faults)
  /\ \A c \in Copiers :
       /\ WF_vars(CopierStep(c))
       /\ SF_vars(TryLockShared(c) /\ mode'[c] = "shared")
       /\ WF_vars(LaunchForOther(c))
       /\ \A b \in Buckets : SF_vars(Launch(c, b))

FairSpec == Spec /\ Fairness

-----------------------------------------------------------------------------
(***************************************************************************)
(* Properties                                                              *)
(***************************************************************************)

\* A bucket with a copy receipt is in the archive in every format
\* (CopyBucketReceipts.java:38-39).
ReceiptMeansArchived == \A b \in receipts : stored[b] = Formats

\* The lock file of b is locked by a server that has lost track of it.
LockLeft(b) == link[b] # NoInode /\ leaked[link[b]] # {}

\* An original bucket that stays cold gets its receipt in the end, whatever
\* failed before (LockedBucketCopier.java:56-57), unless an error of the
\* configuration left it locked until the server is restarted.
EventuallyCopied ==
  \A b \in Originals :
    <>[](place[b] = "cold" /\ ~LockLeft(b)) => <>(b \in receipts)
=============================================================================
