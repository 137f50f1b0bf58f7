------------------------------- MODULE Thawing -------------------------------
(***************************************************************************)
(* Thawing archived buckets of one index, and flushing them again.         *)
(*                                                                         *)
(* Both are requests to the Shuttl server, each in a thread.  A thawer     *)
(* lists what is archived, one format per bucket, and gets the buckets one *)
(* after the other: skip it if the index has it, lock it, transfer it to a *)
(* temporary directory, rename that into the thaw directory, import it if  *)
(* its format is not Splunk's, read its size.  A flusher lists the thaw    *)
(* directory and deletes buckets in it, without any lock.                  *)
(*                                                                         *)
(* The archive is not on the local file system: the transaction's cleaner, *)
(* which deletes the temporary path in the archive, leaves the local one.  *)
(***************************************************************************)
EXTENDS Naturals

CONSTANTS Thawers,    \* request threads that run a BucketThawer
          Flushers,   \* request threads that run a Flusher
          Server,     \* the process of the Shuttl server
          Buckets,    \* names of buckets
          Formats,    \* bucket formats
          Preferred,  \* the first of bucketFormatPriority, or Splunk's format
          Packed,     \* the formats that have to be imported
          FormatsOf,  \* the formats that a bucket is archived in
          NoKey,      \* no bucket
          Inodes,     \* bound: the inodes that lock files are made of
          NoInode,
          Faults,     \* the kinds of faults that may happen
          MaxFaults,  \* bound: how many of them happen
          Batches     \* bound: which buckets are archived in one behaviour

\* The archive's buckets.  The thaw lock and the temporary directory belong to
\* one of these; the place in the thaw directory is that of the bucket's name.
Keys == {k \in Buckets \X Formats : k[2] \in FormatsOf[k[1]]}

ASSUME ThawFormatsAssumption ==
  Packed \subseteq Formats /\ FormatsOf \in [Buckets -> SUBSET Formats]
ASSUME ThawNoneAssumption == NoKey \notin Keys /\ NoInode \notin Inodes
ASSUME ThawFaultsAssumption == MaxFaults \in Nat

VARIABLES
  archived,  \* the formats of a bucket that the archive has
  local,     \* the buckets that the index has as warm or cold ones
  thaw,      \* what the thaw directory has under the name of a bucket
  temp,      \* the temporary directory of each archived bucket
  link, opened, mode, leaked,  \* the thaw locks, see LockFiles
  thawer,    \* what each thawer does next
  todo,      \* the listed buckets that a thawer has not come to yet
  at,        \* the listed bucket that a thawer is at
  outcome,   \* the list that BucketThawer has put that bucket on
  flusher,   \* what each flusher does next
  flushing,  \* the buckets that a flusher has not deleted yet
  deleting,  \* the bucket that a flusher deletes now
  up,        \* the Shuttl server runs
  faults     \* how many faults have happened

Locks == INSTANCE LockFiles WITH
  Buckets <- Keys, Actors <- Thawers,
  ProcessOf <- [t \in Thawers |-> Server]

lockVars  == <<link, opened, mode, leaked>>
thawVars  == <<thawer, todo, at, outcome>>
flushVars == <<flusher, flushing, deleting>>
vars == <<archived, local, thaw, temp, lockVars, thawVars, flushVars, up,
          faults>>

\* A directory of a bucket: it holds the archived file only, that and part of
\* the imported bucket, all of a searchable bucket, or part of one.
Contents == {"absent", "packed", "half", "whole", "torn"}

ThawerSteps ==
  {"idle", "next", "open", "lock", "convert", "reshare", "prepare", "get",
   "copy", "commit", "rename", "clean", "abort", "import", "unpack", "size",
   "close"}

TypeOK ==
  /\ Locks!LocksTypeOK
  /\ archived \in [Buckets -> SUBSET Formats]
  /\ local \subseteq Buckets
  /\ thaw \in [Buckets -> Contents]
  /\ temp \in [Keys -> {"absent", "part", "whole"}]
  /\ thawer \in [Thawers -> ThawerSteps]
  /\ todo \in [Thawers -> SUBSET Keys]
  /\ at \in [Thawers -> Keys \cup {NoKey}]
  /\ outcome \in [Thawers -> {"none", "thawed", "failed", "skipped"}]
  /\ flusher \in [Flushers -> {"idle", "build", "delete", "tear"}]
  /\ flushing \in [Flushers -> SUBSET Buckets]
  /\ deleting \in [Flushers -> Buckets \cup {NoKey}]
  /\ up \in BOOLEAN
  /\ faults \in 0..MaxFaults

Init ==
  /\ Locks!LocksInit
  /\ archived = [b \in Buckets |-> {}]
  /\ local = Buckets
  /\ thaw = [b \in Buckets |-> "absent"]
  /\ temp = [k \in Keys |-> "absent"]
  /\ thawer = [t \in Thawers |-> "idle"]
  /\ todo = [t \in Thawers |-> {}]
  /\ at = [t \in Thawers |-> NoKey]
  /\ outcome = [t \in Thawers |-> "none"]
  /\ flusher = [g \in Flushers |-> "idle"]
  /\ flushing = [g \in Flushers |-> {}]
  /\ deleting = [g \in Flushers |-> NoKey]
  /\ up = TRUE
  /\ faults = 0

Fault(kind) ==
  /\ kind \in Faults
  /\ faults < MaxFaults
  /\ faults' = faults + 1

-----------------------------------------------------------------------------
(***************************************************************************)
(* Archiving: the modules Archiving and ColdCopy in short                  *)
(***************************************************************************)

Archived == {b \in Buckets : archived[b] # {}}

Archive(b, f) ==
  /\ f \in FormatsOf[b] \ archived[b]
  /\ \E batch \in Batches : Archived \cup {b} \subseteq batch
  /\ archived' = [archived EXCEPT ![b] = @ \cup {f}]
  /\ UNCHANGED <<local, thaw, temp, lockVars, thawVars, flushVars, up, faults>>

\* The local bucket is deleted when all of its formats are archived.
LeaveIndex(b) ==
  /\ b \in local
  /\ archived[b] = FormatsOf[b]
  /\ local' = local \ {b}
  /\ UNCHANGED <<archived, thaw, temp, lockVars, thawVars, flushVars, up,
                 faults>>

-----------------------------------------------------------------------------
(***************************************************************************)
(* The thawer                                                              *)
(***************************************************************************)

ThawerGoto(t, from, to) ==
  /\ thawer[t] = from
  /\ thawer' = [thawer EXCEPT ![t] = to]

NameAt(t)   == at[t][1]
FormatAt(t) == at[t][2]
TempAt(t)   == temp[at[t]]
ThawAt(t)   == thaw[NameAt(t)]

SetTemp(t, content) == temp' = [temp EXCEPT ![at[t]] = content]
SetThaw(b, content) == thaw' = [thaw EXCEPT ![b] = content]

\* LocalBucketStorage.hasBucket: a directory of that name, whatever is in it.
HasBucket(b) == b \in local \/ thaw[b] # "absent"

\* BucketFormatChooser.chooseBucketFormat, of the formats that are listed.
Chosen(b) ==
  IF Preferred \in archived[b] THEN Preferred ELSE CHOOSE f \in archived[b] : TRUE

\* The request: list the buckets in a time range, each in one format.
ListFiltered(t, range) ==
  /\ up
  /\ ThawerGoto(t, "idle", "next")
  /\ todo' = [todo EXCEPT ![t] =
                {<<b, Chosen(b)>> : b \in {n \in range : archived[n] # {}}}]
  /\ UNCHANGED <<archived, local, thaw, temp, lockVars, at, outcome, flushVars,
                 up, faults>>

\* A bucket that the index has is skipped, before any lock is taken.
NextBucket(t, k) ==
  /\ k \in todo[t]
  /\ todo' = [todo EXCEPT ![t] = @ \ {k}]
  /\ at' = [at EXCEPT ![t] = k]
  /\ \/ /\ HasBucket(k[1])
        /\ ThawerGoto(t, "next", "next")
        /\ outcome' = [outcome EXCEPT ![t] = "skipped"]
     \/ /\ ~HasBucket(k[1])
        /\ ThawerGoto(t, "next", "open")
        /\ outcome' = [outcome EXCEPT ![t] = "none"]
  /\ UNCHANGED <<archived, local, thaw, temp, lockVars, flushVars, up, faults>>

\* The response lists the thawed and the failed buckets.
RespondThawed(t) ==
  /\ todo[t] = {}
  /\ ThawerGoto(t, "next", "idle")
  /\ at' = [at EXCEPT ![t] = NoKey]
  /\ outcome' = [outcome EXCEPT ![t] = "none"]
  /\ UNCHANGED <<archived, local, thaw, temp, lockVars, todo, flushVars, up,
                 faults>>

\* The bucket is put on one of BucketThawer's lists.
PutOn(t, list) == outcome' = [outcome EXCEPT ![t] = list]

Fail(t, from) ==
  /\ ThawerGoto(t, from, "close")
  /\ PutOn(t, "failed")
  /\ UNCHANGED <<todo, at>>

OpenThawLock(t) ==
  /\ ThawerGoto(t, "open", "lock")
  /\ Locks!OpenLockFile(t, at[t])
  /\ UNCHANGED <<archived, local, thaw, temp, todo, at, outcome, flushVars, up,
                 faults>>

\* bucketWasLocked: the bucket is skipped.
BucketWasLocked(t, from) ==
  /\ ThawerGoto(t, from, "close")
  /\ PutOn(t, "skipped")
  /\ UNCHANGED lockVars

\* BucketLocker: an exclusive lock, which is released for a shared one.
TryLockExclusive(t) ==
  /\ \/ /\ ThawerGoto(t, "lock", "convert")
        /\ Locks!Lockable(t, "exclusive")
        /\ Locks!Lock(t, "exclusive")
        /\ UNCHANGED outcome
     \/ /\ BucketWasLocked(t, "lock")
        /\ ~Locks!Lockable(t, "exclusive")
  /\ UNCHANGED <<archived, local, thaw, temp, todo, at, flushVars, up, faults>>

ConvertToShared(t) ==
  /\ ThawerGoto(t, "convert", "reshare")
  /\ Locks!ReleaseLock(t)
  /\ UNCHANGED <<archived, local, thaw, temp, todo, at, outcome, flushVars, up,
                 faults>>

\* Mutant: who does not get the shared lock goes on.
TryLockSharedOrNot(t) ==
  /\ ThawerGoto(t, "reshare", "prepare")
  /\ IF Locks!Lockable(t, "shared") THEN Locks!Lock(t, "shared")
                                    ELSE UNCHANGED lockVars
  /\ UNCHANGED <<archived, local, thaw, temp, todo, at, outcome, flushVars, up,
                 faults>>

TryLockShared(t) ==
  /\ \/ /\ ThawerGoto(t, "reshare", "prepare")
        /\ Locks!Lockable(t, "shared")
        /\ Locks!Lock(t, "shared")
        /\ UNCHANGED outcome
     \/ /\ BucketWasLocked(t, "reshare")
        /\ ~Locks!Lockable(t, "shared")
  /\ UNCHANGED <<archived, local, thaw, temp, todo, at, flushVars, up, faults>>

\* ThawLocationProvider deletes what it can at the temporary path, and
\* AbstractTransaction.prepare transfers only when the destination is absent.
Prepare(t) ==
  /\ ThawerGoto(t, "prepare", IF ThawAt(t) = "absent" THEN "get" ELSE "commit")
  /\ UNCHANGED <<archived, local, thaw, temp, lockVars, todo, at, outcome,
                 flushVars, up, faults>>

\* Mutant: what an earlier copy has left is taken for this one's.
GetFileAgain(t) ==
  /\ ThawerGoto(t, "get", IF ThawAt(t) # "absent" THEN "abort"
                          ELSE IF TempAt(t) = "absent" THEN "copy" ELSE "commit")
  /\ SetTemp(t, IF ThawAt(t) = "absent" /\ TempAt(t) = "absent" THEN "part"
                                                               ELSE TempAt(t))
  /\ UNCHANGED <<archived, local, thaw, lockVars, todo, at, outcome, flushVars,
                 up, faults>>

\* getFile looks at the destination again and refuses to overwrite it; else it
\* deletes what is at the temporary path and starts to copy.
GetFile(t) ==
  /\ ThawerGoto(t, "get", IF ThawAt(t) = "absent" THEN "copy" ELSE "abort")
  /\ SetTemp(t, IF ThawAt(t) = "absent" THEN "part" ELSE TempAt(t))
  /\ UNCHANGED <<archived, local, thaw, lockVars, todo, at, outcome, flushVars,
                 up, faults>>

EndCopyToLocal(t) ==
  /\ ThawerGoto(t, "copy", "commit")
  /\ SetTemp(t, "whole")
  /\ UNCHANGED <<archived, local, thaw, lockVars, todo, at, outcome, flushVars,
                 up, faults>>

\* AbstractTransaction.commit renames only when the destination is absent.
Commit(t) ==
  /\ ThawerGoto(t, "commit", IF ThawAt(t) = "absent" THEN "rename" ELSE "clean")
  /\ UNCHANGED <<archived, local, thaw, temp, lockVars, todo, at, outcome,
                 flushVars, up, faults>>

\* What a transferred bucket is in the thaw directory.
Transferred(t) ==
  CASE TempAt(t) = "part" -> "torn"
    [] TempAt(t) = "whole" -> IF FormatAt(t) \in Packed THEN "packed" ELSE "whole"

\* A rename on the local file system.  It puts the bucket inside a directory
\* that has appeared at the destination, whose own files stay what they are.
\* It throws when there is nothing to rename.
Rename(t) ==
  /\ \/ /\ ThawerGoto(t, "rename", "clean")
        /\ TempAt(t) # "absent"
        /\ IF ThawAt(t) = "absent" THEN SetThaw(NameAt(t), Transferred(t))
                                   ELSE UNCHANGED thaw
        /\ SetTemp(t, "absent")
     \/ /\ ThawerGoto(t, "rename", "abort")
        /\ TempAt(t) = "absent"
        /\ UNCHANGED <<thaw, temp>>
  /\ UNCHANGED <<archived, local, lockVars, todo, at, outcome, flushVars, up,
                 faults>>

\* A call on a file system throws.
TransferThrows(t) ==
  /\ thawer[t] \in {"prepare", "get", "copy", "commit", "rename"}
  /\ Fault("get")
  /\ thawer' = [thawer EXCEPT ![t] = "abort"]
  /\ UNCHANGED <<archived, local, thaw, temp, lockVars, todo, at, outcome,
                 flushVars, up>>

\* The transaction is cleaned, in the archive, and the thaw directory's bucket
\* is made, which throws when it is not there.
CleanTransaction(t) ==
  /\ \/ /\ ThawerGoto(t, "clean", "import")
        /\ ThawAt(t) # "absent"
        /\ UNCHANGED <<todo, at, outcome>>
     \/ Fail(t, "clean") /\ ThawAt(t) = "absent"
  /\ UNCHANGED <<archived, local, thaw, temp, lockVars, flushVars, up, faults>>

\* So does the cleaner, when the archive cannot be reached.
CleanThrows(t) ==
  /\ Fail(t, "clean")
  /\ Fault("clean")
  /\ UNCHANGED <<archived, local, thaw, temp, lockVars, flushVars, up>>

\* Mutant: an exception that is thrown under the lock leaves it locked.
AbortUnguarded(t) ==
  /\ ThawerGoto(t, "abort", "next")
  /\ PutOn(t, "failed")
  /\ Locks!LeakLock(t)
  /\ UNCHANGED <<archived, local, thaw, temp, todo, at, flushVars, up, faults>>

\* The exception is seen after the transaction was cleaned: a failed bucket.
Abort(t) ==
  /\ Fail(t, "abort")
  /\ UNCHANGED <<archived, local, thaw, temp, lockVars, flushVars, up, faults>>

\* restoreToSplunkBucketFormat: nothing to do for Splunk's format.  An importer
\* needs the archived file; in a bucket that is being deleted it may be left.
Import(t) ==
  /\ \/ /\ ThawerGoto(t, "import", "size")
        /\ FormatAt(t) \notin Packed
        /\ UNCHANGED <<thaw, todo, at, outcome>>
     \/ /\ ThawerGoto(t, "import", "unpack")
        /\ FormatAt(t) \in Packed
        /\ ThawAt(t) \in {"packed", "half", "torn"}
        /\ SetThaw(NameAt(t), IF ThawAt(t) = "torn" THEN "torn" ELSE "half")
        /\ UNCHANGED <<todo, at, outcome>>
     \/ /\ Fail(t, "import")
        /\ FormatAt(t) \in Packed
        /\ ThawAt(t) \in {"whole", "absent", "torn"}
        /\ UNCHANGED thaw
  /\ UNCHANGED <<archived, local, temp, lockVars, flushVars, up, faults>>

\* tar has unpacked the bucket, and the archived file is deleted.  Of what was
\* deleted meanwhile, some is unpacked again.
Unpack(t) ==
  /\ ThawerGoto(t, "unpack", "size")
  /\ SetThaw(NameAt(t), IF ThawAt(t) = "half" THEN "whole" ELSE "torn")
  /\ UNCHANGED <<archived, local, temp, lockVars, todo, at, outcome, flushVars,
                 up, faults>>

\* Mutant: the exit code of tar is ignored.
UnpackFailsUnseen(t) ==
  /\ ThawerGoto(t, "unpack", "size")
  /\ Fault("import")
  /\ UNCHANGED <<archived, local, thaw, temp, lockVars, todo, at, outcome,
                 flushVars, up>>

\* tar exits with an error: TgzImportFailedException.
UnpackFails(t) ==
  /\ Fail(t, "unpack")
  /\ Fault("import") \/ (ThawAt(t) \in {"absent", "torn"} /\ UNCHANGED faults)
  /\ UNCHANGED <<archived, local, thaw, temp, lockVars, flushVars, up>>

\* The size is read, or null, and the thawed bucket is made.
ResolveSize(t) ==
  /\ ThawerGoto(t, "size", "close")
  /\ ThawAt(t) # "absent"
  /\ PutOn(t, "thawed")
  /\ UNCHANGED <<archived, local, thaw, temp, lockVars, todo, at, flushVars, up,
                 faults>>

\* Either throws: the exception passes the lock and is caught in the loop.
ResolveSizeThrows(t) ==
  /\ Fail(t, "size")
  /\ Fault("size") \/ (ThawAt(t) = "absent" /\ UNCHANGED faults)
  /\ UNCHANGED <<archived, local, thaw, temp, lockVars, flushVars, up>>

CloseThawLock(t) ==
  /\ ThawerGoto(t, "close", "next")
  /\ Locks!CloseLock(t)
  /\ UNCHANGED <<archived, local, thaw, temp, todo, at, outcome, flushVars, up,
                 faults>>

-----------------------------------------------------------------------------
(***************************************************************************)
(* The flusher                                                             *)
(***************************************************************************)

FlusherGoto(g, from, to) ==
  /\ flusher[g] = from
  /\ flusher' = [flusher EXCEPT ![g] = to]

\* Mutant: the files in the thaw directory are listed, too.
ListThawedFilesToo(g) ==
  /\ up
  /\ FlusherGoto(g, "idle", "build")
  /\ flushing' = [flushing EXCEPT ![g] =
                    {b \in Buckets : thaw[b] # "absent"} \cup {"file"}]
  /\ UNCHANGED <<archived, local, thaw, temp, lockVars, thawVars, deleting, up,
                 faults>>

\* ThawedBuckets: list the directories in the thaw directory ...
ListThawed(g) ==
  /\ up
  /\ FlusherGoto(g, "idle", "build")
  /\ flushing' = [flushing EXCEPT ![g] = {b \in Buckets : thaw[b] # "absent"}]
  /\ UNCHANGED <<archived, local, thaw, temp, lockVars, thawVars, deleting, up,
                 faults>>

\* ... and make buckets of them, which throws when one is gone.  The time range
\* leaves some of them.
BuildThawed(g, range) ==
  /\ IF \A b \in flushing[g] : thaw[b] # "absent"
     THEN /\ FlusherGoto(g, "build", "delete")
          /\ flushing' = [flushing EXCEPT ![g] = @ \cap range]
     ELSE /\ FlusherGoto(g, "build", "idle")
          /\ flushing' = [flushing EXCEPT ![g] = {}]
  /\ UNCHANGED <<archived, local, thaw, temp, lockVars, thawVars, deleting, up,
                 faults>>

\* LocalBucket.deleteBucket, file by file ...
BeginFlush(g, b) ==
  /\ b \in flushing[g]
  /\ FlusherGoto(g, "delete", "tear")
  /\ SetThaw(b, IF thaw[b] = "absent" THEN "absent" ELSE "torn")
  /\ flushing' = [flushing EXCEPT ![g] = @ \ {b}]
  /\ deleting' = [deleting EXCEPT ![g] = b]
  /\ UNCHANGED <<archived, local, temp, lockVars, thawVars, up, faults>>

\* ... to the end, or to an IOException that ends the request.
EndFlush(g) ==
  /\ \/ /\ FlusherGoto(g, "tear", "delete")
        /\ SetThaw(deleting[g], "absent")
        /\ UNCHANGED <<flushing, faults>>
     \/ /\ FlusherGoto(g, "tear", "idle")
        /\ flushing' = [flushing EXCEPT ![g] = {}]
        /\ Fault("delete")
        /\ UNCHANGED thaw
  /\ deleting' = [deleting EXCEPT ![g] = NoKey]
  /\ UNCHANGED <<archived, local, temp, lockVars, thawVars, up>>

RespondFlushed(g) ==
  /\ flushing[g] = {}
  /\ FlusherGoto(g, "delete", "idle")
  /\ UNCHANGED <<archived, local, thaw, temp, lockVars, thawVars, flushing,
                 deleting, up, faults>>

-----------------------------------------------------------------------------

\* The server process dies, with its threads and its locks.
ServerCrashes ==
  /\ up
  /\ Fault("server_crash")
  /\ up' = FALSE
  /\ thawer' = [t \in Thawers |-> "idle"]
  /\ todo' = [t \in Thawers |-> {}]
  /\ at' = [t \in Thawers |-> NoKey]
  /\ outcome' = [t \in Thawers |-> "none"]
  /\ flusher' = [g \in Flushers |-> "idle"]
  /\ flushing' = [g \in Flushers |-> {}]
  /\ deleting' = [g \in Flushers |-> NoKey]
  /\ Locks!ExitProcess(Server)
  /\ UNCHANGED <<archived, local, thaw, temp>>

\* StartUpCleaner deletes the thaw locks and the thaw transfers before the
\* server takes requests.
ServerStarts ==
  /\ ~up
  /\ up' = TRUE
  /\ temp' = [k \in Keys |-> "absent"]
  /\ link' = [k \in Keys |-> NoInode]
  /\ UNCHANGED <<archived, local, thaw, opened, mode, leaked, thawVars,
                 flushVars, faults>>

\* What a thread does by itself, once it has its request.
ThawerStep(t) ==
  \/ RespondThawed(t)    \/ OpenThawLock(t)     \/ TryLockExclusive(t)
  \/ ConvertToShared(t)  \/ TryLockShared(t)    \/ Prepare(t)
  \/ GetFile(t)          \/ EndCopyToLocal(t)   \/ Commit(t)
  \/ Rename(t)           \/ CleanTransaction(t) \/ Abort(t)
  \/ Import(t)           \/ Unpack(t)           \/ ResolveSize(t)
  \/ ResolveSizeThrows(t) /\ UNCHANGED faults
  \/ CloseThawLock(t)
  \/ \E k \in Keys : NextBucket(t, k)

ThawerThrows(t) ==
  TransferThrows(t) \/ CleanThrows(t) \/ UnpackFails(t) \/ ResolveSizeThrows(t)

FlusherStep(g) ==
  \/ EndFlush(g) \/ RespondFlushed(g)
  \/ \E range \in SUBSET Buckets : BuildThawed(g, range)
  \/ \E b \in Buckets : BeginFlush(g, b)

Next ==
  \/ \E b \in Buckets : LeaveIndex(b) \/ \E f \in Formats : Archive(b, f)
  \/ \E t \in Thawers, range \in SUBSET Buckets : ListFiltered(t, range)
  \/ \E t \in Thawers : ThawerStep(t) \/ ThawerThrows(t)
  \/ \E g \in Flushers : ListThawed(g) \/ FlusherStep(g)
  \/ ServerCrashes \/ ServerStarts

Spec == Init /\ [][Next]_vars

\* The server's threads run on, the server is restarted, and whoever wants the
\* buckets asks for all of them again and again.  The two system calls that
\* convert a lock follow each other, so another thread does not get between
\* them every time, whichever bucket it is.
Fairness ==
  /\ WF_vars(ServerStarts)
  /\ \A t \in Thawers :
       /\ WF_vars(ThawerStep(t))
       /\ \A k \in Keys :
            SF_vars(at[t] = k /\ TryLockShared(t) /\ mode'[t] = "shared")
       /\ SF_vars(ListFiltered(t, Buckets))

FairSpec == Spec /\ Fairness

-----------------------------------------------------------------------------
(***************************************************************************)
(* Properties                                                              *)
(***************************************************************************)

\* The thawer is between the lock and the end of the import.
AtBucket(t) ==
  thawer[t] \in {"prepare", "get", "copy", "commit", "rename", "clean", "abort",
                 "import", "unpack", "size"}

\* The thaw lock keeps the threads of the server from getting one archived
\* bucket at the same time (ThawBucketLocker; BucketThawer.java:67-68).
OneThawerPerBucket ==
  \A s, t \in Thawers :
    AtBucket(s) /\ AtBucket(t) /\ at[s] = at[t] => s = t

\* The rename of a transfer never puts a part of a bucket into the thaw
\* directory, whatever earlier transfers have left at the temporary path
\* (HadoopArchiveFileSystem.getFile deletes it; Transaction.java:28-31).
PublishedWhole ==
  [][\A t \in Thawers :
       thawer[t] = "rename" /\ thawer'[t] = "clean" /\ ThawAt(t) = "absent"
         => thaw'[NameAt(t)] # "torn"]_vars

\* What goes on the list of thawed buckets has been imported, unless a flusher
\* got at it (BucketThawer.java:171; TgzImporter throws on an error of tar).
ThawedMeansImported ==
  [][\A t \in Thawers :
       thawer[t] = "size" /\ outcome'[t] = "thawed"
         => ThawAt(t) \notin {"packed", "half"}]_vars

\* An import that failed, or a crash, has left what is not a searchable bucket
\* in the thaw directory, where hasBucket finds it (LocalBucketStorage.java:30).
LeftInPart(b) ==
  /\ thaw[b] \in {"packed", "half", "torn"}
  /\ \A t \in Thawers : AtBucket(t) => NameAt(t) # b

\* A bucket that was archived and has left its index is thawed in the end,
\* whatever failed, unless it was left in part or somebody flushes it
\* (a failed bucket may be asked for again, BucketThawer.java:145-157).
EventuallyThawed ==
  \A b \in Buckets :
    archived[b] # {} /\ b \notin local ~>
      thaw[b] = "whole" \/ LeftInPart(b) \/ \E g \in Flushers : deleting[g] = b
=============================================================================
