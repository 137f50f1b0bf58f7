------------------------------ MODULE Archiving ------------------------------
(***************************************************************************)
(* Archiving frozen buckets on one indexer.                                *)
(*                                                                         *)
(* Splunk runs coldToFrozenScript.sh for each bucket that freezes: a JVM   *)
(* of its own, with BucketFreezer, called a freezer here.  It locks the    *)
(* bucket, moves it to the safe directory, posts it to the Shuttl server   *)
(* and then does the same for every other bucket that it finds in the safe *)
(* directory, which earlier attempts have left.  In the server a worker    *)
(* thread locks the bucket too, copies it to the archive in every          *)
(* configured format and deletes it.                                       *)
(*                                                                         *)
(* One format's transaction is one step here, Transfer: BucketTransfer     *)
(* shows what it is made of, and when that step may be taken for atomic.   *)
(***************************************************************************)
EXTENDS Naturals, LockFiles

CONSTANTS Freezers,   \* JVMs that splunkd runs, again and again
          Workers,    \* threads of the Shuttl server
          Server,     \* the process of the Shuttl server
          Formats,    \* archiveFormats of archiver.xml
          Replicated, \* the buckets that are copies of another indexer's
          RawOnly,    \* the replicated buckets that have only raw data
          NoBucket,
          NoWorker,
          NoFormat,
          Faults,     \* the kinds of faults that may happen
          MaxFaults,  \* bound: how many of them happen
          Bounds      \* bounds: the buckets and the faults of one behaviour

ASSUME ActorsAssumption ==
  /\ Actors = Freezers \cup Workers
  /\ Freezers \cap Workers = {}
  /\ ProcessOf = [a \in Actors |-> IF a \in Workers THEN Server ELSE a]
  /\ Server \notin Actors
ASSUME ReplicatedAssumption ==
  RawOnly \subseteq Replicated /\ Replicated \subseteq Buckets
ASSUME NoneAssumption ==
  NoBucket \notin Buckets /\ NoWorker \notin Workers /\ NoFormat \notin Formats
ASSUME MaxFaultsAssumption == MaxFaults \in Nat

VARIABLES
  place,     \* where the local bucket is, "torn" when deleted in part
  stored,    \* what the archive has of a bucket in a format
  sized,     \* the formats for which the archive has the bucket's size
  freezer,   \* what each freezer does next
  target,    \* the bucket that a freezer is at
  fresh,     \* the freezer is at the bucket it was run for
  todo,      \* the buckets that a freezer still has to recover
  server,    \* the worker that a freezer waits for
  worker,    \* what each worker does next
  job,       \* the bucket that a worker was posted
  formats,   \* the formats that a worker has not dealt with yet
  format,    \* the format that a worker transfers now
  failed,    \* a transfer of the worker's job threw an exception
  up,        \* the Shuttl server runs
  faults     \* how many faults have happened

freezerVars == <<freezer, target, fresh, todo, server>>
workerVars  == <<worker, job, formats, format, failed>>
dataVars    == <<place, stored, sized>>
vars == <<lockVars, freezerVars, workerVars, dataVars, up, faults>>

FreezerSteps ==
  {"idle", "open", "lock", "convert", "reshare", "move", "post", "wait",
   "close", "abort", "list", "build", "next"}
WorkerSteps ==
  {"idle", "create", "discard", "open", "lock", "configure", "copy",
   "transfer", "size", "delete", "tear", "unlink", "close"}

TypeOK ==
  /\ LocksTypeOK
  /\ place \in [Buckets -> {"cold", "safe", "torn", "gone"}]
  /\ stored \in [Buckets -> [Formats -> {"absent", "torn", "whole"}]]
  /\ sized \in [Buckets -> SUBSET Formats]
  /\ freezer \in [Freezers -> FreezerSteps]
  /\ target \in [Freezers -> Buckets \cup {NoBucket}]
  /\ fresh \in [Freezers -> BOOLEAN]
  /\ todo \in [Freezers -> SUBSET Buckets]
  /\ server \in [Freezers -> Workers \cup {NoWorker}]
  /\ worker \in [Workers -> WorkerSteps]
  /\ job \in [Workers -> Buckets \cup {NoBucket}]
  /\ formats \in [Workers -> SUBSET Formats]
  /\ format \in [Workers -> Formats \cup {NoFormat}]
  /\ failed \in [Workers -> BOOLEAN]
  /\ up \in BOOLEAN
  /\ faults \in 0..MaxFaults

Init ==
  /\ LocksInit
  /\ place = [b \in Buckets |-> "cold"]
  /\ stored = [b \in Buckets |-> [f \in Formats |-> "absent"]]
  /\ sized = [b \in Buckets |-> {}]
  /\ freezer = [c \in Freezers |-> "idle"]
  /\ target = [c \in Freezers |-> NoBucket]
  /\ fresh = [c \in Freezers |-> FALSE]
  /\ todo = [c \in Freezers |-> {}]
  /\ server = [c \in Freezers |-> NoWorker]
  /\ worker = [w \in Workers |-> "idle"]
  /\ job = [w \in Workers |-> NoBucket]
  /\ formats = [w \in Workers |-> {}]
  /\ format = [w \in Workers |-> NoFormat]
  /\ failed = [w \in Workers |-> FALSE]
  /\ up = TRUE
  /\ faults = 0

\* The buckets that freeze, or have frozen.
Frozen == {b \in Buckets : \/ place[b] # "cold"
                           \/ \E c \in Freezers : fresh[c] /\ target[c] = b}

\* So many buckets and so many faults meet in one behaviour.
Within(buckets, n) ==
  \E bound \in Bounds : buckets \subseteq bound.buckets /\ n <= bound.faults

\* One of the exceptions and crashes that the code has to expect.
Fault(kind) ==
  /\ kind \in Faults
  /\ faults < MaxFaults
  /\ Within(Frozen, faults + 1)
  /\ faults' = faults + 1

-----------------------------------------------------------------------------
(***************************************************************************)
(* The freezer                                                             *)
(***************************************************************************)

FreezerGoto(c, from, to) ==
  /\ freezer[c] = from
  /\ freezer' = [freezer EXCEPT ![c] = to]

\* main, LocalBucket's constructor: splunkd runs one script for a bucket at a
\* time, on a bucket that exists.
Launch(c, b) ==
  /\ place[b] = "cold"
  /\ \A d \in Freezers : fresh[d] => target[d] # b
  /\ Within(Frozen \cup {b}, faults)
  /\ FreezerGoto(c, "idle", "open")
  /\ target' = [target EXCEPT ![c] = b]
  /\ fresh' = [fresh EXCEPT ![c] = TRUE]
  /\ UNCHANGED <<lockVars, todo, server, workerVars, dataVars, up, faults>>

\* A freezer for a bucket that is none of these, as it starts to recover.
LaunchForOther(c) ==
  /\ FreezerGoto(c, "idle", "list")
  /\ UNCHANGED <<lockVars, target, fresh, todo, server, workerVars, dataVars,
                 up, faults>>

OpenLockOfTarget(c) ==
  /\ FreezerGoto(c, "open", "lock")
  /\ OpenLockFile(c, target[c])
  /\ UNCHANGED <<target, fresh, todo, server, workerVars, dataVars, up, faults>>

\* BucketLocker calls the handler only for who gets the exclusive lock ...
TryLockExclusive(c) ==
  /\ \/ /\ FreezerGoto(c, "lock", "convert")
        /\ Lockable(c, "exclusive")
        /\ Lock(c, "exclusive")
     \/ /\ FreezerGoto(c, "lock", "close")
        /\ ~Lockable(c, "exclusive")
        /\ UNCHANGED lockVars
  /\ UNCHANGED <<target, fresh, todo, server, workerVars, dataVars, up, faults>>

\* ... and converts it, which is a release ...
ConvertToShared(c) ==
  /\ FreezerGoto(c, "convert", "reshare")
  /\ ReleaseLock(c)
  /\ UNCHANGED <<target, fresh, todo, server, workerVars, dataVars, up, faults>>

\* ... and a shared lock.  MoveAndArchiveBucketUnderLock moves the bucket
\* first, ArchiveRestHandler as a handler of recovered buckets only posts it.
TryLockShared(c) ==
  /\ \/ /\ FreezerGoto(c, "reshare", IF fresh[c] THEN "move" ELSE "post")
        /\ Lockable(c, "shared")
        /\ Lock(c, "shared")
     \/ /\ FreezerGoto(c, "reshare", "close")
        /\ ~Lockable(c, "shared")
        /\ UNCHANGED lockVars
  /\ UNCHANGED <<target, fresh, todo, server, workerVars, dataVars, up, faults>>

MoveToSafe(c) ==
  /\ FreezerGoto(c, "move", "post")
  /\ place' = [place EXCEPT ![target[c]] = "safe"]
  /\ UNCHANGED <<lockVars, target, fresh, todo, server, workerVars, stored,
                 sized, up, faults>>

\* renameTo fails: the exception leaves freezeBucket, by way of closeLock.
MoveThrows(c) ==
  /\ FreezerGoto(c, "move", "abort")
  /\ Fault("move")
  /\ UNCHANGED <<lockVars, target, fresh, todo, server, workerVars, dataVars,
                 up>>

\* callRestToArchiveLocalBucket: the server takes the request ...
Post(c, w) ==
  /\ up
  /\ worker[w] = "idle"
  /\ FreezerGoto(c, "post", "wait")
  /\ server' = [server EXCEPT ![c] = w]
  /\ worker' = [worker EXCEPT ![w] = "create"]
  /\ job' = [job EXCEPT ![w] = target[c]]
  /\ UNCHANGED <<lockVars, target, fresh, todo, formats, format, failed,
                 dataVars, up, faults>>

\* ... or cannot be reached; the IOException is logged.
PostRefused(c) ==
  /\ ~up
  /\ FreezerGoto(c, "post", "close")
  /\ UNCHANGED <<lockVars, target, fresh, todo, server, workerVars, dataVars,
                 up, faults>>

\* The response, of whatever status, or the end of the connection.
Answered(c) ==
  /\ server[c] = NoWorker
  /\ FreezerGoto(c, "wait", "close")
  /\ UNCHANGED <<lockVars, target, fresh, todo, server, workerVars, dataVars,
                 up, faults>>

\* callBucketHandlerWithBucketSharedLock's finally.
CloseLockOfTarget(c) ==
  /\ \/ FreezerGoto(c, "close", IF fresh[c] THEN "list" ELSE "next")
     \/ FreezerGoto(c, "abort", "idle")
  /\ CloseLock(c)
  /\ target' = [target EXCEPT ![c] = NoBucket]
  /\ fresh' = [fresh EXCEPT ![c] = FALSE]
  /\ UNCHANGED <<todo, server, workerVars, dataVars, up, faults>>

\* Mutant: a regular file in the safe directory is listed as a bucket.
ListMovedFilesToo(c) ==
  /\ FreezerGoto(c, "list", "build")
  /\ todo' = [todo EXCEPT ![c] =
                 {NoBucket} \cup {b \in Buckets : place[b] \in {"safe", "torn"}}]
  /\ UNCHANGED <<lockVars, target, fresh, server, workerVars, dataVars, up,
                 faults>>

\* Mutant: what a failed deletion has left is not listed.
ListWholeBuckets(c) ==
  /\ FreezerGoto(c, "list", "build")
  /\ todo' = [todo EXCEPT ![c] = {b \in Buckets : place[b] = "safe"}]
  /\ UNCHANGED <<lockVars, target, fresh, server, workerVars, dataVars, up,
                 faults>>

\* archiveFailedBuckets: getMovedBuckets lists the safe directory ...
ListMovedBuckets(c) ==
  /\ FreezerGoto(c, "list", "build")
  /\ todo' = [todo EXCEPT ![c] = {b \in Buckets : place[b] \in {"safe", "torn"}}]
  /\ UNCHANGED <<lockVars, target, fresh, server, workerVars, dataVars, up,
                 faults>>

\* ... and makes a bucket of every name, which throws for one that has been
\* deleted meanwhile and ends the freezer.
BuildMovedBuckets(c) ==
  /\ IF \E b \in todo[c] : place[b] = "gone"
     THEN FreezerGoto(c, "build", "idle") /\ todo' = [todo EXCEPT ![c] = {}]
     ELSE FreezerGoto(c, "build", "next") /\ UNCHANGED todo
  /\ UNCHANGED <<lockVars, target, fresh, server, workerVars, dataVars, up,
                 faults>>

RecoverNext(c, b) ==
  /\ b \in todo[c]
  /\ FreezerGoto(c, "next", "open")
  /\ todo' = [todo EXCEPT ![c] = @ \ {b}]
  /\ target' = [target EXCEPT ![c] = b]
  /\ UNCHANGED <<lockVars, fresh, server, workerVars, dataVars, up, faults>>

FreezerExits(c) ==
  /\ todo[c] = {}
  /\ FreezerGoto(c, "next", "idle")
  /\ UNCHANGED <<lockVars, target, fresh, todo, server, workerVars, dataVars,
                 up, faults>>

\* The freezer's JVM is killed; a worker that it waits for goes on.
FreezerCrashes(c) ==
  /\ freezer[c] # "idle"
  /\ Fault("freezer_crash")
  /\ freezer' = [freezer EXCEPT ![c] = "idle"]
  /\ target' = [target EXCEPT ![c] = NoBucket]
  /\ fresh' = [fresh EXCEPT ![c] = FALSE]
  /\ todo' = [todo EXCEPT ![c] = {}]
  /\ server' = [server EXCEPT ![c] = NoWorker]
  /\ ExitProcess(c)
  /\ UNCHANGED <<workerVars, dataVars, up>>

-----------------------------------------------------------------------------
(***************************************************************************)
(* The worker                                                              *)
(***************************************************************************)

WorkerGoto(w, from, to) ==
  /\ worker[w] = from
  /\ worker' = [worker EXCEPT ![w] = to]

KeepsJob == UNCHANGED <<server, job, formats, format, failed>>

\* The request is over, with a response; whoever waits for it sees that.
Respond(w, from) ==
  /\ WorkerGoto(w, from, "idle")
  /\ server' = [c \in Freezers |-> IF server[c] = w THEN NoWorker ELSE server[c]]
  /\ job' = [job EXCEPT ![w] = NoBucket]
  /\ formats' = [formats EXCEPT ![w] = {}]
  /\ format' = [format EXCEPT ![w] = NoFormat]
  /\ failed' = [failed EXCEPT ![w] = FALSE]

\* ArchiveBucketEndpoint.archiveBucket makes a bucket of the path, which throws
\* when the bucket is gone, and does not shuttl raw data.  Of a replicated
\* bucket that was deleted in part, only raw data may be left.
CreateBucket(w) ==
  /\ worker[w] = "create"
  /\ \/ /\ place[job[w]] = "gone"
        /\ Respond(w, "create")
     \/ /\ place[job[w]] # "gone"
        /\ \/ job[w] \notin RawOnly /\ WorkerGoto(w, "create", "open")
           \/ /\ job[w] \in RawOnly \/ (job[w] \in Replicated /\ place[job[w]] = "torn")
              /\ WorkerGoto(w, "create", "discard")
        /\ KeepsJob
  /\ UNCHANGED <<lockVars, freezer, target, fresh, todo, dataVars, up, faults>>

\* deletePath, without a lock; an IOException is logged.
DiscardRawOnly(w) ==
  /\ Respond(w, "discard")
  /\ \/ place' = [place EXCEPT ![job[w]] = "gone"] /\ UNCHANGED faults
     \/ /\ place[job[w]] # "gone"
        /\ place' = [place EXCEPT ![job[w]] = "torn"]
        /\ Fault("delete")
  /\ UNCHANGED <<lockVars, freezer, target, fresh, todo, stored, sized, up>>

OpenLockOfJob(w) ==
  /\ WorkerGoto(w, "open", "lock")
  /\ OpenLockFile(w, job[w])
  /\ KeepsJob
  /\ UNCHANGED <<freezer, target, fresh, todo, dataVars, up, faults>>

\* Mutant: the worker goes on without the lock.
IgnoreLockOfJob(w) ==
  /\ WorkerGoto(w, "lock", "configure")
  /\ IF Lockable(w, "shared") THEN Lock(w, "shared") ELSE UNCHANGED lockVars
  /\ KeepsJob
  /\ UNCHANGED <<freezer, target, fresh, todo, dataVars, up, faults>>

\* createBucketLock: no shared lock, no shuttling.  The channel is not closed,
\* but it holds nothing.
LockJob(w) ==
  /\ \/ /\ WorkerGoto(w, "lock", "configure")
        /\ Lockable(w, "shared")
        /\ Lock(w, "shared")
        /\ KeepsJob
     \/ /\ Respond(w, "lock")
        /\ ~Lockable(w, "shared")
        /\ CloseLock(w)
  /\ UNCHANGED <<freezer, target, fresh, todo, dataVars, up, faults>>

\* createShuttler and modifyLocalBucket, which makes a bucket of the path again
\* to rename a replicated one.
Configure(w) ==
  /\ WorkerGoto(w, "configure", "copy")
  /\ job[w] \in Replicated => place[job[w]] # "gone"
  /\ formats' = [formats EXCEPT ![w] = Formats]
  /\ UNCHANGED <<lockVars, freezerVars, job, format, failed, dataVars, up,
                 faults>>

\* Either throws, before BucketShuttlerRunner's finally guards the lock.  If it
\* is the server name of a replicated bucket that cannot be had, the bucket is
\* deleted first, as well as that goes.
ConfigureThrows(w) ==
  /\ Respond(w, "configure")
  /\ LeakLock(w)
  /\ \/ Fault("configure") /\ UNCHANGED place
     \/ /\ job[w] \in Replicated /\ place[job[w]] = "gone"
        /\ UNCHANGED <<place, faults>>
     \/ /\ job[w] \in Replicated /\ place[job[w]] # "gone"
        /\ Fault("server_name")
        /\ \E rest \in {"torn", "gone"} :
             place' = [place EXCEPT ![job[w]] = rest]
  /\ UNCHANGED <<freezer, target, fresh, todo, stored, sized, up>>

Dealt(w, f) == formats' = [formats EXCEPT ![w] = @ \ {f}]

\* BucketCopier.copyBucket: a format that is archived is skipped, whether or
\* not its size is.
SkipArchived(w, f) ==
  /\ WorkerGoto(w, "copy", "copy")
  /\ f \in formats[w]
  /\ stored[job[w]][f] # "absent"
  /\ Dealt(w, f)
  /\ UNCHANGED <<lockVars, freezerVars, job, format, failed, dataVars, up,
                 faults>>

\* exportBucketThenCopy: any other format is exported.
Export(w, f) ==
  /\ WorkerGoto(w, "copy", "transfer")
  /\ f \in formats[w]
  /\ stored[job[w]][f] = "absent"
  /\ Dealt(w, f)
  /\ format' = [format EXCEPT ![w] = f]
  /\ UNCHANGED <<lockVars, freezerVars, job, failed, dataVars, up, faults>>

\* isArchived or exportBucket throws: the loop over the formats is left, as
\* it is when the bucket's directory has gone.
CopyThrows(w) ==
  /\ WorkerGoto(w, "copy", "unlink")
  /\ formats[w] # {}
  /\ Fault("copy") \/ (place[job[w]] = "gone" /\ UNCHANGED faults)
  /\ KeepsJob
  /\ UNCHANGED <<lockVars, freezer, target, fresh, todo, dataVars, up>>

\* The bucket's transaction: what the local bucket has is published, unless
\* the format has been published meanwhile.
Transfer(w) ==
  LET b == job[w]
      f == format[w]
  IN  /\ WorkerGoto(w, "transfer", "size")
      /\ place[b] \in {"safe", "torn"} \/ stored[b][f] # "absent"
      /\ stored' =
           IF stored[b][f] # "absent" THEN stored
           ELSE [stored EXCEPT ![b][f] = IF place[b] = "safe" THEN "whole" ELSE "torn"]
      /\ KeepsJob
      /\ UNCHANGED <<lockVars, freezer, target, fresh, todo, place, sized, up,
                     faults>>

\* The transaction of bucket.size, a second one.
PersistSize(w) ==
  /\ WorkerGoto(w, "size", "copy")
  /\ sized' = [sized EXCEPT ![job[w]] = @ \cup {format[w]}]
  /\ format' = [format EXCEPT ![w] = NoFormat]
  /\ UNCHANGED <<lockVars, freezerVars, job, formats, failed, place, stored,
                 up, faults>>

\* Mutant: what is cleaned after a failed transaction is the bucket's archive path.
TransferThrowsCleaningArchive(w) ==
  /\ worker[w] \in {"transfer", "size"}
  /\ Fault("copy")
  /\ stored' = [stored EXCEPT ![job[w]][format[w]] = "absent"]
  /\ worker' = [worker EXCEPT ![w] = "copy"]
  /\ failed' = [failed EXCEPT ![w] = TRUE]
  /\ format' = [format EXCEPT ![w] = NoFormat]
  /\ UNCHANGED <<lockVars, freezerVars, job, formats, place, sized, up>>

\* Either transaction throws: the exception is kept for the end of the loop.
TransferThrows(w) ==
  /\ worker[w] \in {"transfer", "size"}
  /\ Fault("copy") \/ (place[job[w]] = "gone" /\ UNCHANGED faults)
  /\ worker' = [worker EXCEPT ![w] = "copy"]
  /\ failed' = [failed EXCEPT ![w] = TRUE]
  /\ format' = [format EXCEPT ![w] = NoFormat]
  /\ UNCHANGED <<lockVars, freezerVars, job, formats, dataVars, up>>

\* Mutant: copyBucket does not throw the exceptions that it has kept.
EndCopyForgetful(w) ==
  /\ WorkerGoto(w, "copy", "delete")
  /\ formats[w] = {}
  /\ KeepsJob
  /\ UNCHANGED <<lockVars, freezer, target, fresh, todo, dataVars, up, faults>>

\* copyBucket throws what it has kept; else BucketArchiver goes on to delete.
EndCopy(w) ==
  /\ WorkerGoto(w, "copy", IF failed[w] THEN "unlink" ELSE "delete")
  /\ formats[w] = {}
  /\ KeepsJob
  /\ UNCHANGED <<lockVars, freezer, target, fresh, todo, dataVars, up, faults>>

\* LocalBucket.deleteBucket: file by file ...
BeginDelete(w) ==
  /\ WorkerGoto(w, "delete", "tear")
  /\ place' = [place EXCEPT ![job[w]] = IF @ = "gone" THEN @ ELSE "torn"]
  /\ KeepsJob
  /\ UNCHANGED <<lockVars, freezer, target, fresh, todo, stored, sized, up,
                 faults>>

\* ... to the end, or to an IOException that BucketDeleter ignores.
EndDelete(w) ==
  /\ WorkerGoto(w, "tear", "unlink")
  /\ \/ place' = [place EXCEPT ![job[w]] = "gone"] /\ UNCHANGED faults
     \/ UNCHANGED place /\ Fault("delete")
  /\ KeepsJob
  /\ UNCHANGED <<lockVars, freezer, target, fresh, todo, stored, sized, up>>

\* BucketShuttlerRunner's finally: delete the lock file, close the lock.
DeleteLockOfJob(w) ==
  /\ WorkerGoto(w, "unlink", "close")
  /\ DeleteLockFile(job[w])
  /\ KeepsJob
  /\ UNCHANGED <<freezer, target, fresh, todo, dataVars, up, faults>>

CloseLockOfJob(w) ==
  /\ Respond(w, "close")
  /\ CloseLock(w)
  /\ UNCHANGED <<freezer, target, fresh, todo, dataVars, up, faults>>

-----------------------------------------------------------------------------

\* The server process dies, with its workers and its locks.
ServerCrashes ==
  /\ up
  /\ Fault("server_crash")
  /\ up' = FALSE
  /\ worker' = [w \in Workers |-> "idle"]
  /\ job' = [w \in Workers |-> NoBucket]
  /\ formats' = [w \in Workers |-> {}]
  /\ format' = [w \in Workers |-> NoFormat]
  /\ failed' = [w \in Workers |-> FALSE]
  /\ server' = [c \in Freezers |-> NoWorker]
  /\ ExitProcess(Server)
  /\ UNCHANGED <<freezer, target, fresh, todo, dataVars>>

ServerStarts ==
  /\ ~up
  /\ up' = TRUE
  /\ UNCHANGED <<lockVars, freezerVars, workerVars, dataVars, faults>>

\* What a freezer does by itself.
FreezerStep(c) ==
  \/ OpenLockOfTarget(c) \/ TryLockExclusive(c) \/ ConvertToShared(c)
  \/ TryLockShared(c)    \/ MoveToSafe(c)       \/ PostRefused(c)
  \/ Answered(c)         \/ CloseLockOfTarget(c)
  \/ ListMovedBuckets(c) \/ BuildMovedBuckets(c) \/ FreezerExits(c)
  \/ \E w \in Workers : Post(c, w)
  \/ \E b \in Buckets : RecoverNext(c, b)

\* What a worker does when nothing fails.
WorkerStep(w) ==
  \/ CreateBucket(w)   \/ DiscardRawOnly(w)  \/ OpenLockOfJob(w)
  \/ LockJob(w)        \/ Configure(w)       \/ Transfer(w)
  \/ PersistSize(w)    \/ EndCopy(w)         \/ BeginDelete(w)
  \/ EndDelete(w)      \/ DeleteLockOfJob(w) \/ CloseLockOfJob(w)
  \/ \E f \in Formats : SkipArchived(w, f) \/ Export(w, f)

WorkerThrows(w) == ConfigureThrows(w) \/ CopyThrows(w) \/ TransferThrows(w)

Next ==
  \/ \E c \in Freezers, b \in Buckets : Launch(c, b)
  \/ \E c \in Freezers : LaunchForOther(c) \/ FreezerStep(c)
                         \/ MoveThrows(c) \/ FreezerCrashes(c)
  \/ \E w \in Workers : WorkerStep(w) \/ WorkerThrows(w)
  \/ ServerCrashes \/ ServerStarts

Spec == Init /\ [][Next]_vars

\* The server's threads and the freezers run on, the server is restarted, and
\* splunkd runs freezers again and again, for other buckets of the index.  Nothing orders
\* two freezers that try to lock one bucket again and again; but the two system
\* calls that convert a lock follow each other, so another freezer does not get
\* between them every time.
Fairness ==
  /\ WF_vars(ServerStarts)
  /\ \A w \in Workers : WF_vars(WorkerStep(w))
  /\ \A c \in Freezers :
       /\ WF_vars(FreezerStep(c))
       /\ SF_vars(TryLockShared(c) /\ mode'[c] = "shared")
       /\ WF_vars(LaunchForOther(c))

FairSpec == Spec /\ Fairness

-----------------------------------------------------------------------------
(***************************************************************************)
(* Properties                                                              *)
(***************************************************************************)

Archived(b) == \A f \in Formats : stored[b][f] = "whole"

\* The files of an original bucket are deleted only when the archive has the
\* bucket in every format (BucketArchiver.archiveBucket; BucketCopier keeps the
\* exceptions of the formats and throws them before the deletion).
NoDataLoss ==
  \A b \in Buckets \ Replicated : place[b] \in {"torn", "gone"} => Archived(b)

\* The worker has the bucket's lock and reads or deletes the bucket.
Shuttling(w) ==
  worker[w] \in {"configure", "copy", "transfer", "size", "delete", "tear"}

\* Nobody else is at a bucket that is being transferred (the message of
\* BucketShuttlerRunner.java:68: "without any other modification").  The code
\* does not keep that: a worker deletes the lock file at the end of a transfer
\* that failed, and a freezer that crashed no longer keeps others away.
OneShuttlerAtATime ==
  \A v, w \in Workers :
    Shuttling(v) /\ Shuttling(w) /\ job[v] = job[w] => v = w

\* What the locks do keep, through all faults: no two workers are at work with
\* one lock file open, so of two at one bucket, one has a file that somebody
\* deleted (ShuttlBucketEndpoint.java:113-119).
OneShuttlerPerLockFile ==
  \A v, w \in Workers :
    Shuttling(v) /\ Shuttling(w) /\ opened[v] = opened[w] => v = w

\* What is in the archive is a whole bucket, and not the rest of a replicated
\* bucket, in whose place the original bucket would be taken for archived.
OnlyWholeBuckets ==
  \A b \in Buckets, f \in Formats : stored[b][f] # "torn"

\* Archiving keeps the promise of ArchivePromise for each original bucket: the
\* archive has it in every format from one step on and for good, its local files
\* are given up only then, and they are not there again later
\* (BucketArchiver.java:33-36, Transaction.java).
Promise(b) ==
  INSTANCE ArchivePromise WITH
    Executors <- {},
    Servers   <- {Server},
    data   <- IF Archived(b) THEN "complete" ELSE "absent",
    report <- [e \in {} |-> "none"],
    kept   <- IF place[b] \in {"cold", "safe"} THEN {Server} ELSE {}

KeepsThePromise ==
  /\ \A b \in Buckets \ Replicated : Promise(b)!Init
  /\ [][\A b \in Buckets \ Replicated :
          [Promise(b)!Next]_(Promise(b)!promiseVars)]_vars

\* The lock file of b is locked by a server that has lost track of it.
LockLeft(b) == link[b] # NoInode /\ Server \in leaked[link[b]]

\* A bucket that was moved to the safe directory is archived and deleted in the
\* end, by later freezers when its own failed (BucketFreezer.java:35-37), unless
\* an error of the configuration has left it locked.
EventuallyArchived ==
  \A b \in Buckets : place[b] # "cold" ~> place[b] = "gone" \/ LockLeft(b)
=============================================================================
