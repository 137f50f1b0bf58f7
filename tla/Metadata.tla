------------------------------ MODULE Metadata ------------------------------
(***************************************************************************)
(* One file of metadata of one archived bucket in one format: its size, or *)
(* its id in Glacier.                                                      *)
(*                                                                         *)
(* MetadataStore.put writes a flat file on the server, and puts it in the  *)
(* archive by a transaction.  MetadataStore.read reads the flat file, and  *)
(* gets it from the archive first when the server has none that can be     *)
(* read.  The archive's file is below the bucket's archive path, which the *)
(* servers that have replicas of the bucket share; the temporary path in   *)
(* the archive, the flat file and the local path of a get are a server's,  *)
(* and all of its threads use the same.                                    *)
(*                                                                         *)
(* The copy lock lets one thread put while it copies the bucket, and the   *)
(* archive lock one while it archives it (modules ColdCopy and Archiving). *)
(* These are two files, so that two threads of one server may put at once. *)
(* The thaw lock lets one thread read (module Thawing).                    *)
(***************************************************************************)
EXTENDS Naturals

CONSTANTS Servers,     \* indexers
          Putters,     \* threads that copy or archive the bucket
          Placements,  \* on which servers these may run
          Readers,     \* the servers that thaw it
          Data,        \* what may be written into the file
          DataOf,      \* what each thread may put: sizes, or ids
          Faults,      \* the kinds of faults that may happen
          MaxFaults    \* bound: how many of them happen

\* What is at a path besides data: nothing, a directory, a file without a line.
NoData == {"none", "dir", "blank"}

ASSUME MetadataServersAssumption ==
  Placements \subseteq [Putters -> Servers] /\ Readers \subseteq Servers
ASSUME MetadataDataAssumption ==
  Data \cap NoData = {} /\ DataOf \in [Putters -> SUBSET Data]
ASSUME MetadataFaultsAssumption == MaxFaults \in Nat

VARIABLES
  server,    \* the server of each putting thread
  stored,    \* the file below the archive path of the bucket
  temp,      \* each server's temporary path in the archive
  flat,      \* each server's flat file
  transfer,  \* each server's local path of a get
  putter,    \* what each putting thread does next
  value,     \* what it puts, or sends
  unlinked,  \* the threads whose open flat file was deleted or replaced
  put,       \* how its last put ended
  reader,    \* what each server's reading thread does next
  result,    \* what its last read returned
  up,        \* the servers that run
  overlapped,\* history: a thread has put while another of its server did
  faults     \* how many faults have happened

putVars  == <<putter, value, put, overlapped>>
readVars == <<reader, result>>
vars == <<server, stored, temp, flat, transfer, unlinked, putVars, readVars, up,
          faults>>

PutSteps ==
  {"idle", "create", "open", "write", "prepare", "mkdirs", "check", "purge",
   "copy", "send", "cut", "commit", "rename", "clean", "fail"}
ReadSteps ==
  {"idle", "look", "delete", "begin", "prepare", "check", "copy", "receive",
   "commit", "rename", "clean", "final", "throw"}

TypeOK ==
  /\ server \in [Putters -> Servers]
  /\ stored \in Data \cup NoData
  /\ temp \in [Servers -> Data \cup NoData]
  /\ flat \in [Servers -> Data \cup NoData]
  /\ ~overlapped => \A s \in Servers : flat[s] # "dir"
  /\ transfer \in [Servers -> Data \cup NoData]
  /\ putter \in [Putters -> PutSteps]
  /\ value \in [Putters -> Data \cup NoData]
  /\ unlinked \subseteq Putters
  /\ put \in [Putters -> {"none", "ok", "failed"}]
  /\ reader \in [Servers -> ReadSteps]
  /\ result \in [Servers -> Data \cup {"none", "null", "threw"}]
  /\ up \subseteq Servers
  /\ overlapped \in BOOLEAN
  /\ faults \in 0..MaxFaults

Init ==
  /\ server \in Placements
  /\ stored = "none"
  /\ temp = [s \in Servers |-> "none"]
  /\ flat = [s \in Servers |-> "none"]
  /\ transfer = [s \in Servers |-> "none"]
  /\ putter = [p \in Putters |-> "idle"]
  /\ value = [p \in Putters |-> "none"]
  /\ unlinked = {}
  /\ put = [p \in Putters |-> "none"]
  /\ reader = [s \in Servers |-> "idle"]
  /\ result = [s \in Servers |-> "none"]
  /\ up = Servers
  /\ overlapped = FALSE
  /\ faults = 0

Fault(kind) ==
  /\ kind \in Faults
  /\ faults < MaxFaults
  /\ faults' = faults + 1

-----------------------------------------------------------------------------
(***************************************************************************)
(* Putting                                                                 *)
(***************************************************************************)

\* The thread's server, and the threads that share files with it.
Others(p) == {q \in Putters \ {p} : server[q] = server[p]}

PutterGoto(p, from, to) ==
  /\ putter[p] = from
  /\ putter' = [putter EXCEPT ![p] = to]

\* What was at the server's temporary path is deleted, overwritten or moved: a
\* thread that is sending to it writes to a file that the archive has closed.
PutterGotoAndCut(p, from, to) ==
  /\ putter[p] = from
  /\ putter' = [q \in Putters |->
       IF q = p THEN to
       ELSE IF q \in Others(p) /\ putter[q] = "send" THEN "cut" ELSE putter[q]]

\* The step changes none of the threads' variables but the counters.
Putting == UNCHANGED <<server, value, put, overlapped, readVars, up, faults>>

\* Another thread of the server is putting.
Overlap(p) ==
  overlapped' = (overlapped \/ \E q \in Others(p) : putter[q] # "idle")

\* The size of a bucket is put once it is archived, its Glacier id while it is
\* being archived, which is done again when it fails.  Whoever has put it does not
\* come again.
Put(p, d) ==
  /\ server[p] \in up
  /\ put[p] # "ok"
  /\ PutterGoto(p, "idle", "create")
  /\ value' = [value EXCEPT ![p] = d]
  /\ put' = [put EXCEPT ![p] = "none"]
  /\ Overlap(p)
  /\ UNCHANGED <<server, stored, temp, flat, transfer, unlinked, readVars, up,
                 faults>>

\* A transaction of the bucket itself precedes the put, and purges or cleans its
\* temporary path, which the temporary path of the file is below.
CleanBucketTransfer(p) ==
  /\ server[p] \in up
  /\ put[p] # "ok"
  /\ temp[server[p]] # "none"
  /\ PutterGotoAndCut(p, "idle", "idle")
  /\ temp' = [temp EXCEPT ![server[p]] = "none"]
  /\ Overlap(p)
  /\ UNCHANGED <<server, stored, flat, transfer, unlinked, value, put, readVars,
                 up, faults>>

\* FlatFileStorage.writeFlatFile: create the file if it is not there ...
CreateFlatFile(p) ==
  /\ PutterGoto(p, "create", "open")
  /\ flat' = [flat EXCEPT ![server[p]] = IF @ = "none" THEN "blank" ELSE @]
  /\ Putting
  /\ UNCHANGED <<stored, temp, transfer, unlinked>>

\* A thread that is sending the file that p now changes, which has its name or
\* not, may have read it before.
Resend(p, nameless, content) ==
  \E unread \in SUBSET {q \in Others(p) : /\ putter[q] = "send"
                                        /\ (q \in unlinked) = nameless} :
    value' = [q \in Putters |-> IF q \in unread THEN content ELSE value[q]]

\* ... open it, which empties it, or creates it again, but throws for a directory
\* ...
OpenFlatFile(p) ==
  /\ \/ /\ PutterGoto(p, "open", "write")
        /\ flat[server[p]] # "dir"
        /\ flat' = [flat EXCEPT ![server[p]] = "blank"]
        /\ Resend(p, FALSE, "blank")
        /\ UNCHANGED put
     \/ /\ PutterGoto(p, "open", "idle")
        /\ flat[server[p]] = "dir"
        /\ put' = [put EXCEPT ![p] = "failed"]
        /\ value' = [value EXCEPT ![p] = "none"]
        /\ UNCHANGED flat
  /\ UNCHANGED <<server, stored, temp, transfer, unlinked, overlapped, readVars,
                 up, faults>>

\* ... and write to the file that was opened.
WriteFlatFile(p) ==
  /\ PutterGoto(p, "write", "prepare")
  /\ flat' = [flat EXCEPT ![server[p]] = IF p \in unlinked THEN @ ELSE value[p]]
  /\ unlinked' = unlinked \ {p}
  /\ Resend(p, p \in unlinked, value[p])
  /\ UNCHANGED <<server, stored, temp, transfer, put, overlapped, readVars, up,
                 faults>>

\* AbstractTransaction.prepare of a PutFileTransaction: no transfer when the
\* archive has the file.
PreparePut(p) ==
  /\ PutterGoto(p, "prepare", IF stored = "none" THEN "mkdirs" ELSE "commit")
  /\ Putting
  /\ UNCHANGED <<stored, temp, flat, transfer, unlinked>>

\* A directory is made of the temporary path of the file.  When a crash has left
\* a file there, file systems throw or answer false.
MakeTempDirectory(p) ==
  /\ \/ PutterGoto(p, "mkdirs", "check")
     \/ PutterGoto(p, "mkdirs", "fail") /\ temp[server[p]] \notin {"none", "dir"}
  /\ temp' = [temp EXCEPT ![server[p]] = IF @ = "none" THEN "dir" ELSE @]
  /\ Putting
  /\ UNCHANGED <<stored, flat, transfer, unlinked>>

\* putFile refuses to overwrite what has appeared.
CheckOverwrite(p) ==
  /\ PutterGoto(p, "check", IF stored = "none" THEN "purge" ELSE "fail")
  /\ Putting
  /\ UNCHANGED <<stored, temp, flat, transfer, unlinked>>

\* Mutant: the directory stays, and the file is copied into it.
KeepTemp(p) ==
  /\ PutterGoto(p, "purge", "copy")
  /\ Putting
  /\ UNCHANGED <<stored, temp, flat, transfer, unlinked>>

\* It deletes the directory again ...
PurgeTemp(p) ==
  /\ PutterGotoAndCut(p, "purge", "copy")
  /\ temp' = [temp EXCEPT ![server[p]] = "none"]
  /\ Putting
  /\ UNCHANGED <<stored, flat, transfer, unlinked>>

\* ... and copies the flat file, which throws when it is gone.  Of what it has
\* opened it sends everything, whatever becomes of the path.  A directory is
\* copied to a directory.
OpenCopy(p) ==
  LET source == flat[server[p]] IN
  /\ \/ /\ PutterGotoAndCut(p, "copy", "send")
        /\ source # "none"
        /\ temp' = [temp EXCEPT ![server[p]] =
                      IF "dir" \in {@, source} THEN "dir" ELSE "blank"]
        /\ value' = [value EXCEPT ![p] = source]
     \/ /\ PutterGoto(p, "copy", "fail")
        /\ source = "none"
        /\ UNCHANGED <<temp, value>>
  /\ UNCHANGED <<server, stored, flat, transfer, unlinked, put, overlapped,
                 readVars, up, faults>>

\* The end of a file that has been deleted or moved is lost, or refused.
EndCopy(p) ==
  /\ \/ /\ PutterGoto(p, "send", "commit")
        /\ temp' = [temp EXCEPT ![server[p]] = IF @ = "dir" THEN @ ELSE value[p]]
     \/ /\ PutterGoto(p, "cut", "commit") \/ PutterGoto(p, "cut", "fail")
        /\ UNCHANGED temp
  /\ unlinked' = unlinked \ {p}
  /\ Putting
  /\ UNCHANGED <<stored, flat, transfer>>

CommitPut(p) ==
  /\ PutterGoto(p, "commit", IF stored = "none" THEN "rename" ELSE "clean")
  /\ Putting
  /\ UNCHANGED <<stored, temp, flat, transfer, unlinked>>

\* Mutant: a rename that overwrites, as that of POSIX does.
RenameOver(p) ==
  /\ PutterGotoAndCut(p, "rename", "clean")
  /\ stored' = temp[server[p]]
  /\ temp' = [temp EXCEPT ![server[p]] = "none"]
  /\ Putting
  /\ UNCHANGED <<flat, transfer, unlinked>>

\* Hadoop's rename refuses to overwrite, and its answer is dropped.
RenameTemp(p) ==
  /\ \/ /\ PutterGotoAndCut(p, "rename", "clean")
        /\ stored = "none"
        /\ stored' = temp[server[p]]
        /\ temp' = [temp EXCEPT ![server[p]] = "none"]
     \/ /\ PutterGoto(p, "rename", "clean")
        /\ stored # "none"
        /\ UNCHANGED <<stored, temp>>
  /\ Putting
  /\ UNCHANGED <<flat, transfer, unlinked>>

EndPut(p, outcome) ==
  /\ put' = [put EXCEPT ![p] = outcome]
  /\ value' = [value EXCEPT ![p] = "none"]
  /\ unlinked' = unlinked \ {p}
  /\ UNCHANGED <<server, stored, flat, transfer, overlapped, readVars, up>>

\* clean is called last, and deletes the temporary path.
CleanPut(p) ==
  /\ \/ PutterGotoAndCut(p, "clean", "idle") /\ EndPut(p, "ok")
     \/ PutterGotoAndCut(p, "fail", "idle") /\ EndPut(p, "failed")
  /\ temp' = [temp EXCEPT ![server[p]] = "none"]
  /\ UNCHANGED faults

\* A call of the transaction throws, and it is cleaned.
PutThrows(p) ==
  /\ putter[p] \in {"prepare", "mkdirs", "check", "purge", "copy", "send", "cut",
                    "commit", "rename"}
  /\ Fault("put")
  /\ putter' = [putter EXCEPT ![p] = "fail"]
  /\ unlinked' = unlinked \ {p}
  /\ UNCHANGED <<server, stored, temp, flat, transfer, value, put, overlapped,
                 readVars, up>>

\* A call before the transaction, or after it, throws.
PutThrowsUncleaned(p) ==
  /\ \E from \in {"create", "open", "write", "clean", "fail"} :
       PutterGoto(p, from, "idle")
  /\ EndPut(p, "failed")
  /\ Fault("put")
  /\ UNCHANGED temp

-----------------------------------------------------------------------------
(***************************************************************************)
(* Reading                                                                 *)
(***************************************************************************)

ReaderGoto(s, from, to) ==
  /\ reader[s] = from
  /\ reader' = [reader EXCEPT ![s] = to]

Reading == UNCHANGED <<server, stored, temp, putVars, up, faults>>

\* Another file, or none, is at the path of the flat file: who writes to the old
\* one writes to a file without a name, and who copies it sends that file.
Replace(s, content) ==
  /\ flat' = [flat EXCEPT ![s] = content]
  /\ unlinked' = unlinked \cup
       {p \in Putters : server[p] = s /\ putter[p] \in {"write", "send"}}

Read(s) ==
  /\ s \in up \cap Readers
  /\ ReaderGoto(s, "idle", "look")
  /\ result' = [result EXCEPT ![s] = "none"]
  /\ Reading
  /\ UNCHANGED <<flat, transfer, unlinked>>

\* Mutant: a flat file is taken for one that can be read when it exists.
LookWhetherItExists(s) ==
  /\ ReaderGoto(s, "look", IF flat[s] # "none" THEN "final" ELSE "delete")
  /\ Reading
  /\ UNCHANGED <<flat, transfer, unlinked, result>>

\* getRemoteFileIfNeeded: a flat file that cannot be read is deleted ...
LookAtFlatFile(s) ==
  /\ ReaderGoto(s, "look", IF flat[s] \in Data THEN "final" ELSE "delete")
  /\ Reading
  /\ UNCHANGED <<flat, transfer, unlinked, result>>

\* ... as it is by then, ...
DeleteFlatFile(s) ==
  /\ ReaderGoto(s, "delete", "begin")
  /\ Replace(s, "none")
  /\ Reading
  /\ UNCHANGED <<transfer, result>>

\* ... and got from the archive.  The transfer path is made a directory of.
MakeTransferDirectory(s) ==
  /\ ReaderGoto(s, "begin", "prepare")
  /\ transfer' = [transfer EXCEPT ![s] = IF @ = "none" THEN "dir" ELSE @]
  /\ Reading
  /\ UNCHANGED <<flat, unlinked, result>>

PrepareGet(s) ==
  /\ ReaderGoto(s, "prepare", IF flat[s] = "none" THEN "check" ELSE "commit")
  /\ Reading
  /\ UNCHANGED <<flat, transfer, unlinked, result>>

\* Mutant: the directory stays, and the file is copied into it.
KeepTransfer(s) ==
  /\ ReaderGoto(s, "check", IF flat[s] = "none" THEN "copy" ELSE "clean")
  /\ Reading
  /\ UNCHANGED <<flat, transfer, unlinked, result>>

\* getFile refuses to overwrite, and deletes the directory again.  A file there
\* is no directory, which is an exception that read does not catch.
PurgeTransfer(s) ==
  /\ \/ /\ ReaderGoto(s, "check", "clean")
        /\ flat[s] # "none"
        /\ UNCHANGED transfer
     \/ /\ ReaderGoto(s, "check", "throw")
        /\ flat[s] = "none"
        /\ transfer[s] \notin {"none", "dir"}
        /\ UNCHANGED transfer
     \/ /\ ReaderGoto(s, "check", "copy")
        /\ flat[s] = "none"
        /\ transfer[s] \in {"none", "dir"}
        /\ transfer' = [transfer EXCEPT ![s] = "none"]
  /\ Reading
  /\ UNCHANGED <<flat, unlinked, result>>

\* The copy from the archive throws when the file is not there.  Of a directory
\* it makes a directory.
OpenGet(s) ==
  /\ \/ /\ ReaderGoto(s, "copy", "receive")
        /\ stored # "none"
        /\ transfer' = [transfer EXCEPT ![s] = IF "dir" \in {@, stored} THEN "dir"
                                              ELSE "blank"]
     \/ /\ ReaderGoto(s, "copy", "clean")
        /\ stored = "none"
        /\ UNCHANGED transfer
  /\ Reading
  /\ UNCHANGED <<flat, unlinked, result>>

EndGet(s) ==
  /\ ReaderGoto(s, "receive", "commit")
  /\ transfer' = [transfer EXCEPT ![s] = IF @ = "dir" THEN @ ELSE stored]
  /\ Reading
  /\ UNCHANGED <<flat, unlinked, result>>

CommitGet(s) ==
  /\ ReaderGoto(s, "commit", IF flat[s] = "none" THEN "rename" ELSE "clean")
  /\ Reading
  /\ UNCHANGED <<flat, transfer, unlinked, result>>

\* A rename on the local file system, which overwrites, but no file with a
\* directory.
RenameTransfer(s) ==
  /\ ReaderGoto(s, "rename", "clean")
  /\ \/ /\ flat[s] = "none" \/ transfer[s] # "dir"
        /\ Replace(s, transfer[s])
        /\ transfer' = [transfer EXCEPT ![s] = "none"]
     \/ /\ flat[s] # "none"
        /\ transfer[s] = "dir"
        /\ UNCHANGED <<flat, unlinked, transfer>>
  /\ Reading
  /\ UNCHANGED result

\* The cleaner deletes a path in the archive, not the local one.  Then the flat
\* file is read again, after exceptions of the transaction, too.
CleanGet(s) ==
  /\ ReaderGoto(s, "clean", "final")
  /\ Reading
  /\ UNCHANGED <<flat, transfer, unlinked, result>>

EndRead(s, from, what) ==
  /\ ReaderGoto(s, from, "idle")
  /\ result' = [result EXCEPT ![s] = what]
  /\ UNCHANGED <<server, stored, temp, flat, transfer, unlinked, putVars, up>>

ReturnRead(s) ==
  /\ \/ EndRead(s, "final", IF flat[s] \in Data THEN flat[s] ELSE "null")
     \/ EndRead(s, "throw", "threw")
  /\ UNCHANGED faults

\* A call throws, before the copy has begun or after it is renamed.
GetThrows(s) ==
  /\ \E from \in {"prepare", "check", "copy"} : ReaderGoto(s, from, "clean")
  /\ Fault("get")
  /\ UNCHANGED <<server, stored, temp, flat, transfer, unlinked, putVars, result,
                 up>>

\* A call throws that leaves a copy, or part of one, at the transfer path.
ReceiveThrows(s) ==
  /\ \E from \in {"receive", "commit", "rename"} : ReaderGoto(s, from, "clean")
  /\ Fault("receive")
  /\ UNCHANGED <<server, stored, temp, flat, transfer, unlinked, putVars, result,
                 up>>

\* The cleaner throws another kind of exception.
CleanGetThrows(s) ==
  /\ \E from \in {"clean", "throw"} : EndRead(s, from, "threw")
  /\ Fault("get")

-----------------------------------------------------------------------------

\* A server dies and is started again.  Its start-up cleaner deletes nothing of
\* what is modelled here.
ServerCrashes(s) ==
  /\ s \in up
  /\ Fault(IF reader[s] \in {"receive", "commit", "rename"}
           THEN "receive_crash" ELSE "crash")
  /\ up' = up \ {s}
  /\ putter' = [p \in Putters |-> IF server[p] = s THEN "idle" ELSE putter[p]]
  /\ value' = [p \in Putters |-> IF server[p] = s THEN "none" ELSE value[p]]
  /\ unlinked' = {p \in unlinked : server[p] # s}
  /\ reader' = [reader EXCEPT ![s] = "idle"]
  /\ UNCHANGED <<server, stored, temp, flat, transfer, put, overlapped, result>>

ServerStarts(s) ==
  /\ s \in Servers \ up
  /\ up' = up \cup {s}
  /\ UNCHANGED <<server, stored, temp, flat, transfer, unlinked, putVars,
                 readVars, faults>>

PutStep(p) ==
  \/ CreateFlatFile(p) \/ OpenFlatFile(p)      \/ WriteFlatFile(p)
  \/ PreparePut(p)     \/ MakeTempDirectory(p) \/ CheckOverwrite(p)
  \/ PurgeTemp(p)      \/ OpenCopy(p)          \/ EndCopy(p)
  \/ CommitPut(p)      \/ RenameTemp(p)        \/ CleanPut(p)

ReadStep(s) ==
  \/ LookAtFlatFile(s)        \/ DeleteFlatFile(s)
  \/ MakeTransferDirectory(s) \/ PrepareGet(s)     \/ PurgeTransfer(s)
  \/ OpenGet(s)               \/ EndGet(s)         \/ CommitGet(s)
  \/ RenameTransfer(s)        \/ CleanGet(s)       \/ ReturnRead(s)

PutFails(p) == PutThrows(p) \/ PutThrowsUncleaned(p)

GetFails(s) == GetThrows(s) \/ ReceiveThrows(s) \/ CleanGetThrows(s)

Next ==
  \/ \E p \in Putters :
       \/ \E d \in DataOf[p] : Put(p, d)
       \/ CleanBucketTransfer(p) \/ PutStep(p) \/ PutFails(p)
  \/ \E s \in Servers :
       \/ Read(s) \/ ReadStep(s) \/ GetFails(s)
       \/ ServerCrashes(s) \/ ServerStarts(s)

Spec == Init /\ [][Next]_vars

\* Servers run on and are restarted, and a reader who was told that there is
\* nothing to read asks again.
Fairness ==
  /\ \A p \in Putters : WF_vars(PutStep(p))
  /\ \A s \in Servers :
       /\ WF_vars(ReadStep(s))
       /\ WF_vars(Read(s))
       /\ WF_vars(ServerStarts(s))

FairSpec == Spec /\ Fairness

-----------------------------------------------------------------------------
(***************************************************************************)
(* Properties                                                              *)
(***************************************************************************)

\* A put that returns has left data in the archive, not part of a file and not
\* a directory, whoever put or read at the same time (ArchiveBucketTransferer
\* takes the size for persisted then, GlacierArchiveFileSystem the id).  Other
\* servers may put at the same time; of two threads of one server, which share
\* the flat file and the temporary path, nothing is promised.
PutMeansStored ==
  \A p \in Putters : put[p] = "ok" /\ ~overlapped => stored \in Data

\* Nothing at the archive's path is ever replaced or deleted: a replica that is
\* archived later leaves the first one's metadata alone.
NeverReplaced == [][stored # "none" => stored' = stored]_stored

\* Once the archive has the metadata, each server that asks for it reads it in
\* the end (ArchiveBucketSize.java:47-48, "Returns null if the archiveSize is not
\* persisted locally nor remotely"), and nothing that fails, crashes, or is put
\* at the same time prevents it but one thing: a file that was left at the
\* server's transfer path, where a get expects a directory.
EventuallyRead ==
  \A s \in Readers :
    stored \in Data ~> result[s] \in Data \/ transfer[s] \notin {"none", "dir"}
=============================================================================
