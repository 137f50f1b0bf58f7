------------------------------ MODULE Glacier -------------------------------
(***************************************************************************)
(* Archiving one bucket in Glacier, and finding it there again.            *)
(*                                                                         *)
(* GlacierArchiveFileSystem uploads the only file of a bucket to a vault.  *)
(* What Glacier calls it, the archive id, is kept in the memory of the     *)
(* server, in a flat file of the server and, below the bucket's archive    *)
(* path, on another file system (S3), which also has the directories and   *)
(* sizes.  A bucket in Splunk's format is exported to a tgz file first.    *)
(*                                                                         *)
(* The workers of this module are the threads of BucketCopier.copyBucket   *)
(* and BucketArchiver.archiveBucket; the servers that have one have        *)
(* replicas of the bucket, and share its archive paths.  Puts of metadata  *)
(* are three steps here: see Metadata for all of them.                     *)
(***************************************************************************)
EXTENDS Exports, Naturals, Sequences

CONSTANTS Thawers,   \* the servers that thaw the bucket, at any time
          Orders,    \* what archiveFormats of archiver.xml may be
          Faults,    \* the kinds of faults that may happen
          MaxFaults  \* bound: how many of them happen

\* The formats in which a bucket can be archived.
Archivable == {"splunk", "tgz", "csv"}

ASSUME FormatsAssumption ==
  /\ Formats = {"tgz", "csv"}
  /\ Orders \subseteq Seq(Archivable)
ASSUME GlacierFaultsAssumption == Thawers \subseteq Servers /\ MaxFaults \in Nat

VARIABLES
  order,    \* archiveFormats of archiver.xml
  vault,    \* what was uploaded, the archive id being the position
  tree,     \* the archive path of each format: absent, empty, or filled
  stored,   \* the archive id below the archive path of each format, or 0
  flat,     \* the archive id in each server's flat file of each format, or 0
  cache,    \* the archive id in each server's memory for each path, or 0
  local,    \* the servers that still have the bucket
  worker,   \* what each worker does next
  todo,     \* the formats that a worker has not dealt with yet
  failed,   \* a transfer of the worker threw an exception
  value,    \* the archive id that it puts
  faults    \* how many faults have happened

workerVars == <<worker, todo, failed, value>>
idVars     == <<stored, flat, cache>>
vars == <<exportVars, order, vault, tree, idVars, local, workerVars,
          faults>>

WorkerSteps ==
  {"idle", "next", "export", "tool", "create", "prepare", "upload", "flat",
   "mkdirs", "store", "discard", "commit", "size", "throw", "clean", "delete"}

Ids == 0..Len(vault)

TypeOK ==
  /\ ExportsTypeOK
  /\ order \in Orders
  /\ vault \in Seq([format : Formats, content : {"part", "torn", "whole"}])
  /\ tree \in [Archivable -> {"absent", "empty", "filled"}]
  /\ stored \in [Archivable -> Ids]
  /\ flat \in [Servers -> [Archivable -> Ids]]
  /\ cache \in [Servers -> [Archivable -> Ids]]
  /\ local \subseteq Servers
  /\ worker \in [Workers -> WorkerSteps]
  /\ todo \in [Workers -> Seq(Archivable)]
  /\ failed \in [Workers -> BOOLEAN]
  /\ value \in [Workers -> Ids]
  /\ faults \in 0..MaxFaults

Init ==
  /\ ExportsInit
  /\ order \in Orders
  /\ vault = <<>>
  /\ tree = [f \in Archivable |-> "absent"]
  /\ stored = [f \in Archivable |-> 0]
  /\ flat = [s \in Servers |-> stored]
  /\ cache = flat
  /\ local = {ServerOf[w] : w \in Workers}
  /\ worker = [w \in Workers |-> "idle"]
  /\ todo = [w \in Workers |-> <<>>]
  /\ failed = [w \in Workers |-> FALSE]
  /\ value = [w \in Workers |-> 0]
  /\ faults = 0

Fault(kind) ==
  /\ kind \in Faults
  /\ faults < MaxFaults
  /\ faults' = faults + 1

Goto(w, from, to) ==
  /\ worker[w] = from
  /\ worker' = [worker EXCEPT ![w] = to]

Format(w) == Head(todo[w])

\* The format of the bucket that is uploaded, under which its id is put.
Uploaded(f) == IF f = "splunk" THEN "tgz" ELSE f

-----------------------------------------------------------------------------
(***************************************************************************)
(* The loop over the formats                                               *)
(***************************************************************************)

Begins(w) ==
  /\ ServerOf[w] \in local
  /\ Goto(w, "idle", "next")
  /\ todo' = [todo EXCEPT ![w] = order]
  /\ UNCHANGED <<exportVars, order, vault, tree, idVars, local, value, faults>>

\* Mutant: the exceptions of the last attempt are collected still.
BeginWithExceptions(w) == Begins(w) /\ UNCHANGED failed

\* The bucket is posted, for the first time or by a freezer that recovers it.
Begin(w) == Begins(w) /\ failed' = [failed EXCEPT ![w] = FALSE]

\* isArchived: is anything below the archive path?  What is in another format
\* than Splunk's is exported before its transaction.
NextFormat(w) ==
  /\ todo[w] # <<>>
  /\ \/ /\ tree[Format(w)] = "filled"
        /\ Goto(w, "next", "next")
        /\ todo' = [todo EXCEPT ![w] = Tail(@)]
     \/ /\ tree[Format(w)] # "filled"
        /\ Goto(w, "next", IF Format(w) = "splunk" THEN "prepare" ELSE "export")
        /\ UNCHANGED todo
  /\ UNCHANGED <<exportVars, order, vault, tree, idVars, local, failed, value, faults>>

\* After the last format copyBucket throws what it has collected, or the bucket
\* is deleted.
EndFormats(w) ==
  /\ todo[w] = <<>>
  /\ Goto(w, "next", IF failed[w] THEN "idle" ELSE "delete")
  /\ UNCHANGED <<exportVars, order, vault, tree, idVars, local, todo, failed,
                 value, faults>>

DeleteBucket(w) ==
  /\ Goto(w, "delete", "idle")
  /\ local' = local \ {ServerOf[w]}
  /\ UNCHANGED <<exportVars, order, vault, tree, idVars, todo, failed, value, faults>>

-----------------------------------------------------------------------------
(***************************************************************************)
(* Exporting the bucket                                                    *)
(***************************************************************************)

\* The step changes the worker's counter and the exported files.
Exporting ==
  UNCHANGED <<order, vault, tree, idVars, local, todo, failed, value>>

StartExport(w) ==
  /\ Goto(w, "export", "tool")
  /\ StartTool(w, Uploaded(Format(w)))
  /\ Exporting
  /\ UNCHANGED faults

EndExport(w) ==
  /\ Goto(w, "tool", "create")
  /\ EndTool(w, "whole")
  /\ Exporting
  /\ UNCHANGED faults

\* The shell's exit code is that of gzip, whatever tar's is: nobody sees that
\* tar has failed (CreatesBucketTgz.java:70).
TarFails(w) ==
  /\ Goto(w, "tool", "create")
  /\ Uploaded(Format(w)) = "tgz"
  /\ Fault("tar")
  /\ EndTool(w, "torn")
  /\ Exporting

\* Where an exception takes the worker: out of the transaction in Splunk's
\* format, out of copyBucket in the others, whose export is outside of its try.
ExportThrows(w, from) ==
  worker[w] = from /\ Goto(w, from, IF Format(w) = "splunk" THEN "throw" ELSE "idle")

\* Mutant: the exit code is not looked at.
ToolFailsUnseen(w) ==
  /\ Goto(w, "tool", "create")
  /\ Fault("tool")
  /\ EndTool(w, "part")
  /\ Exporting

ToolFails(w) ==
  /\ ExportThrows(w, "tool")
  /\ Fault("tool")
  /\ FailTool(w, Uploaded(Format(w)))
  /\ Exporting

\* The file may be gone when another worker of the server exports, too.
CreateExported(w) ==
  LET f == Uploaded(Format(w))
  IN  /\ worker[w] = "create"
      /\ IF file[ServerOf[w]][f] = "none"
         THEN ExportThrows(w, "create") /\ UNCHANGED exportVars
         ELSE /\ Goto(w, "create",
                      IF Format(w) = "splunk" THEN "upload" ELSE "prepare")
              /\ CreateBucketWithFile(w, f)
      /\ Exporting
      /\ UNCHANGED faults

-----------------------------------------------------------------------------
(***************************************************************************)
(* The transaction                                                         *)
(***************************************************************************)

\* The step changes none of these.
Transferring == UNCHANGED <<order, local, todo, failed>>

\* prepare: nothing is transferred when the archive path exists.
Prepare(w) ==
  /\ worker[w] = "prepare"
  /\ Goto(w, "prepare",
          IF tree[Format(w)] # "absent" THEN "commit"
          ELSE IF Format(w) = "splunk" THEN "export" ELSE "upload")
  /\ Transferring
  /\ UNCHANGED <<exportVars, vault, tree, idVars, value, faults>>

\* What is read of a file that a tool still writes to is part of it.
Read(content) == IF content \in Workers THEN "part" ELSE content

Upload(w) ==
  LET f == CHOOSE f \in Formats : f \in FilesOf(ServerOf[w])
  IN  vault' = Append(vault, [format  |-> f,
                              content |-> Read(dir[ServerOf[w]][f])])

\* uploadBucket: the bucket has to be one file.  Glacier answers with the id,
\* which the client keeps in memory, and the caller puts.
UploadBucket(w) ==
  LET s == ServerOf[w]
  IN  /\ \/ /\ \E f \in Formats : FilesOf(s) = {f}
            /\ Goto(w, "upload", "flat")
            /\ Upload(w)
            /\ cache' = [cache EXCEPT ![s][Format(w)] = Len(vault')]
            /\ value' = [value EXCEPT ![w] = Len(vault')]
         \/ /\ \A f \in Formats : FilesOf(s) # {f}
            /\ Goto(w, "upload", "throw")
            /\ UNCHANGED <<vault, cache, value>>
      /\ Transferring
      /\ UNCHANGED <<exportVars, tree, stored, flat, faults>>

\* The upload throws, or its answer is lost.
UploadFaults(w) ==
  /\ \E f \in Formats : FilesOf(ServerOf[w]) = {f}
  /\ Goto(w, "upload", "throw")
  /\ Fault("upload")
  /\ Upload(w) \/ UNCHANGED vault
  /\ Transferring
  /\ UNCHANGED <<exportVars, tree, stored, flat, value>>

\* Mutant: the client keeps an id in memory before it has the answer.
UploadThrowsLate(w) ==
  /\ UploadFaults(w)
  /\ cache' = [cache EXCEPT ![ServerOf[w]][Format(w)] = Len(vault) + 1]

UploadThrows(w) == UploadFaults(w) /\ UNCHANGED cache

\* Mutant: the id is put in the archive first, and in no flat file.
MakeParentsAtOnce(w) ==
  /\ Goto(w, "flat", IF stored[Uploaded(Format(w))] = 0 THEN "store" ELSE "discard")
  /\ tree' = [tree EXCEPT ![Uploaded(Format(w))] = "filled"]
  /\ Transferring
  /\ UNCHANGED <<exportVars, vault, idVars, value, faults>>

\* putArchiveId writes the flat file, ...
WriteFlatFile(w) ==
  /\ Goto(w, "flat", IF stored[Uploaded(Format(w))] = 0 THEN "mkdirs" ELSE "discard")
  /\ flat' = [flat EXCEPT ![ServerOf[w]][Uploaded(Format(w))] = value[w]]
  /\ Transferring
  /\ UNCHANGED <<exportVars, vault, tree, stored, cache, value, faults>>

\* ... makes the parents of the path in the archive, the bucket's archive path
\* among them, which is then archived in the eyes of isArchived, ...
MakeParents(w) ==
  /\ Goto(w, "mkdirs", "store")
  /\ tree' = [tree EXCEPT ![Uploaded(Format(w))] = "filled"]
  /\ Transferring
  /\ UNCHANGED <<exportVars, vault, idVars, value, faults>>

\* ... and renames the file to it, when there is none.
StoreId(w) ==
  /\ Goto(w, "store", "discard")
  /\ stored' = [stored EXCEPT ![Uploaded(Format(w))] = IF @ = 0 THEN value[w] ELSE @]
  /\ Transferring
  /\ UNCHANGED <<exportVars, vault, tree, flat, cache, value, faults>>

\* putBucket deletes its own export of a bucket in Splunk's format.
DiscardExport(w) ==
  /\ Goto(w, "discard", "commit")
  /\ IF Format(w) = "splunk" THEN DeleteExported(w, {}) ELSE UNCHANGED exportVars
  /\ Transferring
  /\ UNCHANGED <<vault, tree, idVars, value, faults>>

\* commit renames the temporary path, which mkdirs made an empty directory.
Commit(w) ==
  /\ Goto(w, "commit", "size")
  /\ tree' = [tree EXCEPT ![Format(w)] = IF @ = "absent" THEN "empty" ELSE @]
  /\ Transferring
  /\ UNCHANGED <<exportVars, vault, idVars, value, faults>>

\* The size is put below the archive path.
PutSize(w) ==
  /\ Goto(w, "size", "clean")
  /\ tree' = [tree EXCEPT ![Format(w)] = "filled"]
  /\ Transferring
  /\ UNCHANGED <<exportVars, vault, idVars, value, faults>>

\* A call in the archive throws.
TransferThrows(w) ==
  /\ \E from \in {"prepare", "flat", "mkdirs", "store", "commit", "size"} :
       Goto(w, from, "throw")
  /\ Fault("put")
  /\ Transferring
  /\ UNCHANGED <<exportVars, vault, tree, idVars, value>>

\* copyBucket catches the exception of a transfer.
Catch(w) ==
  /\ Goto(w, "throw", "clean")
  /\ UNCHANGED <<exportVars, order, vault, tree, idVars, local, todo, value,
                 faults>>

\* Mutant: the exception is only logged.
LogException(w) == Catch(w) /\ UNCHANGED failed

\* The exception is collected.
CollectException(w) == Catch(w) /\ failed' = [failed EXCEPT ![w] = TRUE]

\* The export is deleted, if there was one for the transaction, or part of it.
Clean(w) ==
  /\ Goto(w, "clean", "next")
  /\ todo' = [todo EXCEPT ![w] = Tail(@)]
  /\ \/ /\ Format(w) = "splunk"
        /\ UNCHANGED <<exportVars, faults>>
     \/ /\ Format(w) # "splunk"
        /\ DeleteExported(w, {})
        /\ UNCHANGED faults
     \/ /\ Format(w) # "splunk"
        /\ \E rest \in SUBSET FilesOf(ServerOf[w]) \ {{}} : DeleteExported(w, rest)
        /\ Fault("delete")
  /\ UNCHANGED <<order, vault, tree, idVars, local, failed, value>>

-----------------------------------------------------------------------------
(***************************************************************************)
(* Thawing, and restarts                                                   *)
(***************************************************************************)

\* getBucket downloads the upload whose id the server has in memory.  Without
\* one it is read from the flat file, or the archive, or the bucket is not got.
FindArchiveId(s, f) ==
  LET id == IF flat[s][f] # 0 THEN flat[s][f] ELSE stored[f]
  IN  /\ tree[f] # "absent"
      /\ cache[s][f] = 0
      /\ id # 0
      /\ flat' = [flat EXCEPT ![s][f] = id]
      /\ cache' = [cache EXCEPT ![s][f] = id]
      /\ UNCHANGED <<exportVars, order, vault, tree, stored, local, workerVars,
                     faults>>

\* A server dies, its tools with it, and is started again.  Its memory is lost.
ServerRestarts(s) ==
  LET died == {w \in Workers : ServerOf[w] = s}
      Left(files) == [f \in Formats |-> IF files[f] \in died THEN "part" ELSE files[f]]
  IN  /\ Fault("crash")
      /\ worker' = [w \in Workers |-> IF w \in died THEN "idle" ELSE worker[w]]
      /\ cache' = [cache EXCEPT ![s] = [f \in Archivable |-> 0]]
      /\ file' = [file EXCEPT ![s] = Left(@)]
      /\ dir' = [dir EXCEPT ![s] = Left(@)]
      /\ UNCHANGED <<order, vault, tree, stored, flat, local, todo, failed,
                     value>>

-----------------------------------------------------------------------------

WorkerStep(w) ==
  \/ NextFormat(w)  \/ EndFormats(w)    \/ DeleteBucket(w)
  \/ StartExport(w) \/ EndExport(w)     \/ CreateExported(w)
  \/ Prepare(w)     \/ UploadBucket(w)  \/ WriteFlatFile(w)
  \/ MakeParents(w) \/ StoreId(w)       \/ DiscardExport(w)
  \/ Commit(w)      \/ PutSize(w)       \/ CollectException(w) \/ Clean(w)

WorkerFault(w) ==
  TarFails(w) \/ ToolFails(w) \/ UploadThrows(w) \/ TransferThrows(w)

Next ==
  \/ \E w \in Workers : Begin(w) \/ WorkerStep(w) \/ WorkerFault(w)
  \/ \E s \in Servers : ServerRestarts(s)
  \/ \E s \in Thawers, f \in Archivable : FindArchiveId(s, f)

Spec == Init /\ [][Next]_vars

\* Threads run on, and freezers post a bucket as long as it is there.
FairSpec ==
  Spec /\ \A w \in Workers : WF_vars(WorkerStep(w)) /\ WF_vars(Begin(w))

-----------------------------------------------------------------------------
(***************************************************************************)
(* Properties                                                              *)
(***************************************************************************)

\* The id is of an upload of the bucket in this format, exported to the end.
Names(id, f) == vault[id].format = Uploaded(f) /\ vault[id].content # "part"

\* Some server can still find an archive of the bucket in this format, when all
\* of them have been restarted.
Findable(f) ==
  \E id \in {stored[Uploaded(f)]} \cup {flat[s][Uploaded(f)] : s \in Servers} :
    id # 0 /\ Names(id, f)

\* Whoever gets the bucket in a format, gets a file of that format that has been
\* exported to the end (GetsBucketsExportFile.java:35: "not yet existing").
\* What tar leaves half done is not told apart (CreatesBucketTgz.java:70).
IdsNameExports ==
  \A f \in Archivable :
    /\ stored[f] # 0 => Names(stored[f], f)
    /\ \A s \in Servers :
         \A id \in {flat[s][f], cache[s][f]} \ {0} : Names(id, f)

\* What isArchived takes for archived can be found after a restart of every
\* server, under the format that was uploaded (GlacierArchiveIdStore.java:33-35).
ArchivedIsFindable ==
  \A f \in Archivable : tree[f] # "absent" => Findable(f)

\* In all the formats that are configured, archiving with Glacier keeps the
\* promise of ArchivePromise: the bucket does not leave the archive again, and
\* a server deletes its own only when it is there in every format.
Promise ==
  INSTANCE ArchivePromise WITH
    Executors <- {},
    Servers   <- {ServerOf[w] : w \in Workers},
    data   <- IF \A i \in DOMAIN order : Findable(order[i]) THEN "complete" ELSE "absent",
    report <- [e \in {} |-> "none"],
    kept   <- local
KeepsThePromise == Promise!Spec

\* A bucket is archived in every format in the end, and deleted, unless exports
\* of it in both other formats stay in its export directory: what is exported
\* there can never be uploaded again (GlacierArchiveFileSystem.java:93-98).
EventuallyArchived ==
  \A w \in Workers :
    \/ <>(ServerOf[w] \notin local)
    \/ <>[](FilesOf(ServerOf[w]) = Formats)
=============================================================================
