--------------------------- MODULE BucketTransfer ---------------------------
(***************************************************************************)
(* Shuttling one bucket, in one format, to the archive file system.        *)
(*                                                                         *)
(* An executor is a thread of a Shuttl server that runs a BucketShuttler   *)
(* for the bucket: an archiver (BucketArchiver: copy, then delete the      *)
(* local bucket) or a copier (BucketCopier: copy only, for cold buckets).  *)
(* The copy is a PutBucketTransaction run by TransactionExecuter over the  *)
(* HadoopArchiveFileSystem: prepare, commit, clean.  Every call on a file  *)
(* system is a step of its own, since another thread, or another indexer,  *)
(* may take one between any two of them.                                   *)
(*                                                                         *)
(* The archive path is the same for all of them.  The temporary path is    *)
(* made of the server's name and the archive path                          *)
(* (PathResolver.resolveTempPathForBucket), so it belongs to a server:     *)
(* the threads of one server share it.                                     *)
(***************************************************************************)
CONSTANTS Archivers,  \* threads that archive: POST archiver/bucket/archive
          Copiers,    \* threads that copy: POST archiver/bucket/copy
          Servers,    \* indexers, each with a server name of its own
          ServerOf,   \* the server that an executor is a thread of
          Parts       \* the files of the bucket

Executors == Archivers \cup Copiers

ASSUME RolesDisjoint == Archivers \cap Copiers = {}
ASSUME ServerOfType  == ServerOf \in [Executors -> Servers]

VARIABLES
  dst,      \* the tree at the archive path of the bucket and format
  temp,     \* the tree at each server's temporary path
  local,    \* where each server has its local bucket
  pc,       \* what each executor does next
  left,     \* the files that an executor's copy has not transferred yet
  nested,   \* the executor's copy goes below the temporary path, not at it
  thrown,   \* the running transaction of the executor threw
  outcome   \* what the last attempt of the executor reported

vars == <<dst, temp, local, pc, left, nested, thrown, outcome>>

(***************************************************************************)
(* A tree: the bucket's files it has at their places, and whether it also  *)
(* has a misplaced directory, left by a copy or a rename onto a directory  *)
(* that was already there.                                                 *)
(***************************************************************************)
Tree == [exists : BOOLEAN, files : SUBSET Parts, stray : BOOLEAN]

NoTree    == [exists |-> FALSE, files |-> {}, stray |-> FALSE]
EmptyTree == [exists |-> TRUE, files |-> {}, stray |-> FALSE]

TransactionSteps ==
  {"prepare", "mkdirs", "overwrite", "purge", "open", "copy", "commit",
   "rename"}

Steps == {"idle", "check", "clean", "delete"} \cup TransactionSteps

TypeOK ==
  /\ dst \in Tree
  /\ temp \in [Servers -> Tree]
  /\ local \in [Servers -> {"cold", "safe", "deleted"}]
  /\ pc \in [Executors -> Steps]
  /\ left \in [Executors -> SUBSET Parts]
  /\ nested \in [Executors -> BOOLEAN]
  /\ thrown \in [Executors -> BOOLEAN]
  /\ outcome \in [Executors -> {"none", "ok", "failed"}]

Init ==
  /\ dst = NoTree
  /\ temp = [s \in Servers |-> NoTree]
  /\ local = [s \in Servers |-> "cold"]
  /\ pc = [e \in Executors |-> "idle"]
  /\ left = [e \in Executors |-> {}]
  /\ nested = [e \in Executors |-> FALSE]
  /\ thrown = [e \in Executors |-> FALSE]
  /\ outcome = [e \in Executors |-> "none"]

-----------------------------------------------------------------------------

Goto(e, from, to) ==
  /\ pc[e] = from
  /\ pc' = [pc EXCEPT ![e] = to]

\* The path that the executor was given still leads to the bucket: copiers
\* are given the cold path, archivers the path in the safe directory.
Readable(e) ==
  local[ServerOf[e]] = IF e \in Archivers THEN "safe" ELSE "cold"

TempOf(e) == temp[ServerOf[e]]

SetTemp(e, tree) == temp' = [temp EXCEPT ![ServerOf[e]] = tree]

-----------------------------------------------------------------------------

\* Splunk rolls the bucket from cold to frozen and BucketFreezer moves it to
\* the safe directory with one rename; a copier may be reading it.
Freeze(s) ==
  /\ local[s] = "cold"
  /\ local' = [local EXCEPT ![s] = "safe"]
  /\ UNCHANGED <<dst, temp, pc, left, nested, thrown, outcome>>

\* The endpoint runs the shuttler on the bucket it was posted.
Start(e) ==
  /\ Readable(e)
  /\ Goto(e, "idle", "check")
  /\ outcome' = [outcome EXCEPT ![e] = "none"]
  /\ UNCHANGED <<dst, temp, local, left, nested, thrown>>

\* ArchiveBucketTransferer.isArchived: anything listed at the archive path.
IsArchived == dst.exists /\ (dst.files # {} \/ dst.stray)

\* The copy is done, without an exception: a copier has reported success, an
\* archiver goes on to delete the local bucket.
AfterCopy(e) == IF e \in Archivers THEN "delete" ELSE "idle"

\* BucketCopier.copyBucket skips a format that is archived already.
SkipArchived(e) ==
  /\ IsArchived
  /\ Goto(e, "check", AfterCopy(e))
  /\ outcome' = [outcome EXCEPT ![e] = "ok"]
  /\ UNCHANGED <<dst, temp, local, left, nested, thrown>>

TransferNotArchived(e) ==
  /\ ~IsArchived
  /\ Goto(e, "check", "prepare")
  /\ UNCHANGED <<dst, temp, local, left, nested, thrown, outcome>>

\* AbstractTransaction.prepare transfers only when the destination is absent.
Prepare(e) ==
  /\ Goto(e, "prepare", IF dst.exists THEN "commit" ELSE "mkdirs")
  /\ UNCHANGED <<dst, temp, local, left, nested, thrown, outcome>>

\* Mutant: the directories of the destination are made, not those of the
\* temporary path.
MakeDestination(e) ==
  /\ Goto(e, "mkdirs", "overwrite")
  /\ dst' = [dst EXCEPT !.exists = TRUE]
  /\ UNCHANGED <<temp, local, left, nested, thrown, outcome>>

MakeDirectories(e) ==
  /\ Goto(e, "mkdirs", "overwrite")
  /\ SetTemp(e, [TempOf(e) EXCEPT !.exists = TRUE])
  /\ UNCHANGED <<dst, local, left, nested, thrown, outcome>>

\* putFile looks at the destination again, and refuses to overwrite it.
PutFile(e) ==
  /\ Goto(e, "overwrite", IF dst.exists THEN "clean" ELSE "purge")
  /\ thrown' = [thrown EXCEPT ![e] = dst.exists]
  /\ UNCHANGED <<dst, temp, local, left, nested, outcome>>

\* Mutant: what is at the temporary path stays.
PurgeNothing(e) ==
  /\ Goto(e, "purge", "open")
  /\ UNCHANGED <<dst, temp, local, left, nested, thrown, outcome>>

\* putFile deletes the temporary path, which mkdirs and crashes leave behind.
PurgeTemp(e) ==
  /\ Goto(e, "purge", "open")
  /\ SetTemp(e, NoTree)
  /\ UNCHANGED <<dst, local, left, nested, thrown, outcome>>

\* copyFromLocalFile lists the local bucket and makes the target directory:
\* the temporary path, or, when that is a directory already, a directory in it.
OpenCopy(e) ==
  /\ Readable(e)
  /\ Goto(e, "open", "copy")
  /\ left' = [left EXCEPT ![e] = Parts]
  /\ nested' = [nested EXCEPT ![e] = TempOf(e).exists]
  /\ SetTemp(e, IF TempOf(e).exists THEN [TempOf(e) EXCEPT !.stray = TRUE]
                                    ELSE EmptyTree)
  /\ UNCHANGED <<dst, local, thrown, outcome>>

\* Mutant: a checksum file is copied with each file.
CopyPartAndChecksum(e, p) ==
  /\ Readable(e)
  /\ pc[e] = "copy"
  /\ p \in left[e]
  /\ left' = [left EXCEPT ![e] = @ \ {p}]
  /\ SetTemp(e, [TempOf(e) EXCEPT !.exists = TRUE, !.files = @ \cup {p, "crc"}])
  /\ UNCHANGED <<dst, local, pc, nested, thrown, outcome>>

\* One file is written; creating a file also creates the directories above it.
CopyPart(e, p) ==
  /\ Readable(e)
  /\ pc[e] = "copy"
  /\ p \in left[e]
  /\ left' = [left EXCEPT ![e] = @ \ {p}]
  /\ SetTemp(e, IF nested[e]
                THEN [TempOf(e) EXCEPT !.exists = TRUE, !.stray = TRUE]
                ELSE [TempOf(e) EXCEPT !.exists = TRUE, !.files = @ \cup {p}])
  /\ UNCHANGED <<dst, local, pc, nested, thrown, outcome>>

EndCopy(e) ==
  /\ left[e] = {}
  /\ Goto(e, "copy", "commit")
  /\ nested' = [nested EXCEPT ![e] = FALSE]
  /\ UNCHANGED <<dst, temp, local, left, thrown, outcome>>

\* AbstractTransaction.commit renames only when the destination is absent.
Commit(e) ==
  /\ Goto(e, "commit", IF dst.exists THEN "clean" ELSE "rename")
  /\ UNCHANGED <<dst, temp, local, left, nested, thrown, outcome>>

\* Hadoop moves the temporary path to the destination, or into it when a
\* destination directory has appeared since the check.
Rename(e) ==
  /\ TempOf(e).exists
  /\ Goto(e, "rename", "clean")
  /\ dst' = IF dst.exists THEN [dst EXCEPT !.stray = TRUE] ELSE TempOf(e)
  /\ SetTemp(e, NoTree)
  /\ UNCHANGED <<local, left, nested, thrown, outcome>>

\* Hadoop refuses the rename, because its source is gone or because the place
\* in the destination directory is taken.  It answers false, and the answer is
\* dropped.
RenameRefused(e) ==
  /\ ~TempOf(e).exists \/ (dst.exists /\ dst.stray)
  /\ Goto(e, "rename", "clean")
  /\ UNCHANGED <<dst, temp, local, left, nested, thrown, outcome>>

\* A call on a file system throws: the transaction goes straight to clean, and
\* before the transaction the attempt ends.
Throw(e) ==
  \/ /\ pc[e] \in TransactionSteps
     /\ pc' = [pc EXCEPT ![e] = "clean"]
     /\ thrown' = [thrown EXCEPT ![e] = TRUE]
     /\ left' = [left EXCEPT ![e] = {}]
     /\ nested' = [nested EXCEPT ![e] = FALSE]
     /\ UNCHANGED <<dst, temp, local, outcome>>
  \/ /\ Goto(e, "check", "idle")
     /\ outcome' = [outcome EXCEPT ![e] = "failed"]
     /\ UNCHANGED <<dst, temp, local, left, nested, thrown>>

\* Mutant: the exception of the transaction is lost.
CleanForgetful(e) ==
  /\ Goto(e, "clean", AfterCopy(e))
  /\ SetTemp(e, NoTree)
  /\ outcome' = [outcome EXCEPT ![e] = "ok"]
  /\ thrown' = [thrown EXCEPT ![e] = FALSE]
  /\ UNCHANGED <<dst, local, left, nested>>

\* Mutant: a failed transaction is rolled back at the destination, too.
CleanDestination(e) ==
  /\ Goto(e, "clean", IF thrown[e] THEN "idle" ELSE AfterCopy(e))
  /\ SetTemp(e, NoTree)
  /\ dst' = IF thrown[e] THEN NoTree ELSE dst
  /\ outcome' = [outcome EXCEPT ![e] = IF thrown[e] THEN "failed" ELSE "ok"]
  /\ thrown' = [thrown EXCEPT ![e] = FALSE]
  /\ UNCHANGED <<local, left, nested>>

\* TransactionExecuter's finally: the temporary path is deleted whatever
\* happened, and only then is the exception, if any, seen by the caller.
Clean(e) ==
  /\ Goto(e, "clean", IF thrown[e] THEN "idle" ELSE AfterCopy(e))
  /\ SetTemp(e, NoTree)
  /\ outcome' = [outcome EXCEPT ![e] = IF thrown[e] THEN "failed" ELSE "ok"]
  /\ thrown' = [thrown EXCEPT ![e] = FALSE]
  /\ UNCHANGED <<dst, local, left, nested>>

\* The deletion itself throws; it litters, and it replaces a success.
CleanThrows(e) ==
  /\ Goto(e, "clean", "idle")
  /\ outcome' = [outcome EXCEPT ![e] = "failed"]
  /\ thrown' = [thrown EXCEPT ![e] = FALSE]
  /\ UNCHANGED <<dst, temp, local, left, nested>>

\* BucketArchiver deletes the local bucket; BucketDeleter ignores a failure.
DeleteLocal(e) ==
  /\ Goto(e, "delete", "idle")
  /\ local' \in {local, [local EXCEPT ![ServerOf[e]] = "deleted"]}
  /\ UNCHANGED <<dst, temp, left, nested, thrown, outcome>>

\* The server process dies with its threads; what it wrote stays.
Crash(s) ==
  LET dead == {e \in Executors : ServerOf[e] = s /\ pc[e] # "idle"}
      Reset(f, value) == [e \in Executors |-> IF e \in dead THEN value ELSE f[e]]
  IN  /\ dead # {}
      /\ pc' = Reset(pc, "idle")
      /\ left' = Reset(left, {})
      /\ nested' = Reset(nested, FALSE)
      /\ thrown' = Reset(thrown, FALSE)
      /\ outcome' = Reset(outcome, "none")
      /\ UNCHANGED <<dst, temp, local>>

-----------------------------------------------------------------------------

Execute(e) ==
  \/ SkipArchived(e)    \/ TransferNotArchived(e) \/ Prepare(e)
  \/ MakeDirectories(e) \/ PutFile(e)             \/ PurgeTemp(e)
  \/ OpenCopy(e)        \/ EndCopy(e)             \/ Commit(e)
  \/ Rename(e)          \/ RenameRefused(e)       \/ Throw(e)
  \/ Clean(e)           \/ CleanThrows(e)         \/ DeleteLocal(e)
  \/ \E p \in Parts : CopyPart(e, p)

Next ==
  \/ \E e \in Executors : Start(e) \/ Execute(e)
  \/ \E s \in Servers : Freeze(s) \/ Crash(s)

Spec == Init /\ [][Next]_vars

-----------------------------------------------------------------------------
(***************************************************************************)
(* Properties                                                              *)
(***************************************************************************)

Whole(tree) == tree.files = Parts

\* What can be read at the archive path is the whole bucket: no reader ever
\* finds a part of it (PutBucketTransaction publishes with one rename).
NeverPartial == dst.exists => Whole(dst)

\* A server that has deleted its local bucket has the bucket in the archive
\* (BucketArchiver deletes only after copyBucket returns).
NoDataLoss ==
  \A s \in Servers : local[s] = "deleted" => dst.exists /\ Whole(dst)

\* The bucket never leaves the archive again, nor does any file of it.
ArchiveOnlyGrows == [][dst.exists => dst'.exists /\ dst.files \subseteq dst'.files]_dst

\* The refinement: attempts on servers of their own keep the promise.
Promise ==
  INSTANCE ArchivePromise WITH
    data   <- IF ~dst.exists THEN "absent"
              ELSE IF Whole(dst) THEN "complete" ELSE "partial",
    report <- outcome,
    kept   <- {s \in Servers : local[s] # "deleted"}

KeepsThePromise == Promise!Spec
=============================================================================
