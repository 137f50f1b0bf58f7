# Verification of Shuttl's archiver

Shuttl moves Splunk buckets (directories of indexed data) to an archive file
system, Hadoop, S3 or Glacier, and brings them back. This directory holds TLA+
modules that model it, the TLC configurations that check them on small
instances, and proofs of the theorems that matter most, checked by TLAPS.
Paths below are relative to `src/src/java/com/splunk/shuttl/`, those of scripts
and pages to `src/package/appserver/`.

## 1. The system

One **Shuttl server** (Jetty, `server/ShuttlJettyServer`) runs beside each
Splunk indexer and answers REST requests, each in a thread. **Scripts** that
splunkd starts for a bucket run short-lived JVMs which call the server. All
processes of an indexer share a local directory (`LocalFileSystemPaths`), with
lock files, the safe directory, receipts and transfer directories. The servers
of all indexers share one **archive file system**. A user lists, thaws and
flushes buckets on two **pages** of a Splunk app.

| component | state it keeps | operations | talks to |
|---|---|---|---|
| Bucket transactions (`archiver/filesystem/transaction`, `hadoop`) | tree at the archive path, tree at the temporary path | prepare, commit, clean: mkdirs, copy, rename, delete | archive file system |
| Bucket locks (`archiver/bucketlock`) | lock files, OS locks of JVMs | open, tryLock exclusive or shared, convert, close, delete the file | shared by scripts and server |
| Freezer (`archiver/archive/BucketFreezer`, `recovery`) | bucket in the cold or the safe directory | lock, move, post, recover what others left | archive endpoint, by a synchronous POST |
| Archive endpoint and shuttler (`server/mbeans/rest/ArchiveBucketEndpoint`, `ShuttlBucketEndpoint`, `archiver/archive/Bucket*`) | the request | lock, configure, export and transfer each format, delete, unlock | transactions, locks |
| Replicated buckets and cluster look-ups (`ConfigProviderForBothNormalAndReplicatedBuckets`, `clustering`) | none | find the server name of a replica's origin, else delete the replica | cluster master, splunkd and Shuttl of the origin |
| Copy of cold buckets (`archiver/copy`, `CopyBucketEndpoint`) | copy receipts, copy locks | scan the cold directory, lock, post, write a receipt | copy endpoint, transactions |
| Thaw (`archiver/thaw`, `importexport`, `ThawBucketsEndpoint`) | thaw locks, transfer directory, thawed directory | list, filter, choose a format, lock, get, import, move | archive file system |
| Flush (`archiver/flush`) | thawed directory | delete the thawed buckets in a time range | |
| Start-up (`archiver/StartUpCleaner`) | thaw locks, transfer directory | delete both | |
| Metadata (`archiver/metastore`) | local flat files, files in the archive | put, read | transactions of files |
| Glacier (`archiver/filesystem/glacier`) | archive ids in memory, in flat files and in files of the archive | upload, put the id, find the id, download | Amazon, S3 for the tree and the metadata |
| Export of formats (`archiver/importexport`) | export directory of a bucket | delete, run a tool, move the file, delete the directory | shuttler, Glacier |
| Listing (`archiver/listers`, `thaw/BucketFilter`, `BucketFormatChooser`, `model/BucketName`) | none | list indexes and buckets, filter by time, choose a format | archive file system |
| Configuration (`archive/ArchiveConfiguration`, `server/mbeans`) | XML files, MBeans, a soft reference | load, set, save, refresh, override | whoever archives or lists |
| User interface (`static/archiver.js`, `static/flusher.js`, `controllers/Archiving.py`) | the form, one button that changes its role, the lists, requests under way | list, thaw, flush | REST endpoints |

What is hard about it:

* **Concurrency.** Freezers, copiers, server threads and other indexers work
  on the same bucket. They synchronise by lock files which the server deletes
  while they are locked, by a release and re-acquisition in place of a
  conversion, and by two different locks for copying and archiving.
* **Failure.** Every call on a file system or on the network may throw, a
  script or the server may be killed between any two, and the next freezer is
  the only recovery.
* **Ordering.** Publish before delete, receipt after copy, lock before use,
  size after bucket: each is a promise about the order of two steps which a
  retry may meet half done. On the pages, answers come in another order than
  the requests.
* **Stale state.** A server name is in a file, in an MBean and in a cached
  configuration, and other indexers ask for it; a list of buckets is shown
  while buckets are archived, thawed and flushed.

What makes each part correct: a bucket in the archive is whole and stays; a
local bucket is deleted only when it is archived in every format; nobody else
touches a bucket that is being shuttled; whatever fails is done again; what is
thawed is whole and imported once; what is flushed was thawed; a size that is
put can be read; a bucket and its replicas are archived in one place, and
replicas are given up only when the original is safe; filters and choices agree
with their definitions, also while others archive; a user acts on what the page
shows.

## 2. Modules

| module | models | code |
|---|---|---|
| `ArchivePromise` | the contract of archiving one bucket in one format | comments of `Transaction`, `ArchiveBucketTransferer` |
| `BucketTransfer` | that contract's implementation, call by call | `TransactionExecuter`, `AbstractTransaction`, `HadoopArchiveFileSystem`, `BucketCopier`, `BucketArchiver`, `BucketDeleter`, `PathResolver` |
| `LockFiles` | lock files and the operating system's locks on them | `SimpleFileLock`, `BucketLock`, `BucketLocker` |
| `Archiving` | freezers and server threads at frozen buckets | `BucketFreezer`, `IndexPreservingBucketMover`, `FailedBucketsArchiver`, `ArchiveRestHandler`, `ShuttlBucketEndpoint`, `ArchiveBucketEndpoint`, `BucketShuttlerRunner` |
| `ColdCopy` | copiers and server threads at cold buckets | `copy/*`, `CopyBucketEndpoint`, `BucketCopier` |
| `Thawing` | request threads that thaw and flush; the start-up cleaner | `BucketThawer`, `GetsBucketsFromArchive`, `ThawBucketTransferer`, `ThawBucketLocker`, `TgzImporter`, `Flusher`, `ThawedBuckets`, `StartUpCleaner` |
| `Metadata` | one file of metadata of a bucket, its size or its Glacier id: the threads that put it, of one server or several, and a reading thread per server | `MetadataStore`, `FlatFileStorage`, `ArchiveBucketSize`, `PutFileTransaction`, `GetFileTransaction`, `HadoopArchiveFileSystem` |
| `Exports` | the export directory of a bucket and the tools that write to it | `BucketExportController`, `GetsBucketsExportFile`, `CreatesBucketTgz`, `BucketToCsvFileExporter`, `BucketFileCreator`, `ShellExecutor` |
| `Glacier` | archiving a bucket and its replicas in Glacier, restarts, and which upload a thaw gets | `GlacierArchiveFileSystem`, `GlacierClient`, `GlacierArchiveIdStore`, `BucketCopier`, `ArchiveBucketTransferer` |
| `Catalogue` | which buckets are in a range, which format is chosen | `BucketFilter`, `BucketFormatChooser` |
| `Cluster` | indexers that archive buckets and replicas under server names, configuration, and a listing | `ConfigProviderForBothNormalAndReplicatedBuckets`, `GetsServerNameForBucket`, `ClusterMaster`, `RemoteShuttl`, `ShuttlConfigurationEndpoint`, `ArchiveConfiguration`, `MBeanBase`, `ListsBucketsFiltered`, `BucketFormatResolver` |
| `Pages` | a page of the user interface and its requests | `archiver.js`, `flusher.js`, `Archiving.py` |
| `MC...` | the instances for TLC of the module in the name | |
| `...Proofs` | the theorems about the module in the name | |

`Archiving` and `ColdCopy` extend `LockFiles`; `Thawing` has an instance of it
whose "buckets" are the archived buckets, a name and a format each, since that
is what a thaw lock is for. `Cluster` extends `Catalogue`. `BucketTransfer`
implements `ArchivePromise` (`KeepsThePromise`, by INSTANCE with a refinement
mapping: `data` is "complete" when the whole tree is at the archive path).
`Archiving` implements it for each original bucket: `data` is "complete" when
every format is archived, and the bucket is kept while it is cold or whole in
the safe directory.
`Glacier` extends `Exports` and implements `ArchivePromise` too: `data` is
"complete" when, were all servers restarted, one of them could still find the
id of a good upload in every configured format.

### How the modules correspond to the code

A thread or a script is a program counter (`pc`, `freezer`, `copier`, `worker`,
`thawer`, `flusher`) and the local variables that it reads again later. A value
of the counter names the next call. One action is the code from one call on
shared state to the next: every call on a file system, every lock operation,
the sending of a request, its answer. The map in `PROJECT.json` gives the lines
of each definition.

* **BucketTransfer.** A tree is the set of files of the bucket that are at
  their places, and a mark for a directory that was put below by a copy or
  rename onto an existing directory. The semantics of Hadoop's calls are
  external: `rename` answers false when it refuses, and the code drops the
  answer; `copyFromLocalFile` onto a directory copies below it. Any call may
  throw, any server may crash at any step, without a bound: attempts begin
  again as long as the bucket is there.
* **LockFiles.** A lock belongs to an inode, not to a path, so a deleted and a
  recreated lock file are two locks. Locks are held on behalf of a JVM: within
  one JVM a second lock on an inode is refused (`OverlappingFileLockException`),
  whatever its mode. A lock that its owner loses sight of without closing it
  stays held (`leaked`) until the JVM exits. That is the conservative reading:
  a garbage collector may close it earlier. POSIX's rule that a process loses
  its locks on a file when it closes *any* descriptor of it is not modelled.
* **Archiving.** A freezer is the JVM that `coldToFrozenScript.sh` runs. It
  waits in a synchronous POST for a worker; when it is killed, the worker goes
  on. `LaunchForOther` is a freezer for another bucket of the index: what
  matters is that it recovers what others left. `Transfer` is one step:
  `BucketTransfer` shows that a transfer in one format is atomic to its
  observers when each executor has a temporary path of its own. The locks do not
  give that: two runs, `archiving_two_shuttlers` and `transfer_shared_temp`, show
  two threads of a server at one bucket. So what `Archiving` says of the archive
  is said of transfers that do not meet at one path.
* **ColdCopy.** The same for copying. A bucket that freezes while a worker
  copies it makes the worker's calls throw without a counted fault. Its
  formats may be archived by a freezer at any time (`ArchiveFrozen`).
* **Thawing.** The listing and the filters are one step, as they are one
  request's reading of an archive that only grows. `temp` is per archived
  bucket and `thaw` per name, as in the code. The archive is remote: the
  cleaner of the transaction, which is given the local path, deletes a path in
  the archive and so leaves the local one. `File.delete` in
  `ThawLocationProvider` deletes no directory with files. A rename onto a
  directory that has appeared puts the bucket inside it. Deleting is file by
  file: a bucket is "torn" in between.
* **Metadata.** What is at a path is data, nothing, a directory, or a file
  without a first line ("blank"): created, emptied or half copied. The flat file
  and the transfer path belong to a server, the archive's path to all. The
  reader may delete or replace the flat file while a putter has it open; the
  putter then writes to a file that has no name any more (`unlinked`). The copy
  thread and the archive thread of a server put under different locks: they use
  the same flat file, which one empties as it opens it while the other copies
  it, and the same temporary path in the archive. `overlapped` remembers that two
  putters of a server have been at it at once. Copies
  onto a directory go below it, and Hadoop's rename refuses to overwrite. A put
  may be repeated after it failed, as that of a Glacier id is.
* **Glacier.** The vault is the sequence of the uploads, and an archive id a
  position in it. A file under the hands of a tool has the tool's worker as its
  content, in whatever directory it is moved to meanwhile. Putting the id is
  three steps here, the flat file, the parents in the archive, the rename; that
  a put does no harm in the middle is `Metadata`'s subject. The tool's result
  tells apart what somebody noticed ("part") from what nobody can notice
  ("torn": `tar` failed, and the exit code is that of `gzip`).

* **Cluster.** One request at a time on each server. A transfer is two steps,
  the bucket's directory and the format in it, since a listing may come in
  between; locks, exports and the inside of a transfer are other modules'. An
  original is archived under the name in the *shared* configuration, which is
  made from the MBean when it is needed and may be garbage collected; a replica
  under the name in the *MBean* of its origin, which that one answers with. What
  the cluster master and splunkd answer does not change, and is one step. A lost
  indexer is lost with its disk, and look-ups of it throw from then on. A
  listing takes its server name and the bucket directories in one step and the
  formats of each bucket in another; one that throws has no effect.
* **Catalogue.** Times are instants; a date that is asked for is converted to the
  midnight it begins with, the last date of a range too, and a number of
  milliseconds to itself (`Convert`). Dates are those of the server's time zone.
  `ChooseBucketFormat` is the set of what the code may choose: the
  default of the default is the first format in the file system's order.
* **Pages.** Criteria, an index and a time range, are atoms, with one form that
  the validator refuses. A request carries what the form was when it was sent,
  and has the controller's answer (a page or a failure) before the browser has
  seen it; jQuery calls `success` or `error`, then `complete`, in one step. An
  error page of the controller is a page. A flush may outlive its request. The
  functions of the two scripts that differ have a definition each; `flusher.js`
  looks for `#flush-button`, which is on no page, so that its `loading` changes
  nothing. The resizing of the frame is left out.

## 3. What the runs check

`tlc -config X.cfg M` in this directory, `M` the `MC` module.

| run | shows | states |
|---|---|---|
| `transfer_own_temps` | three servers shuttl a replicated bucket: readers never see a part (`NeverPartial`), nothing is deleted before it is archived (`NoDataLoss`), nothing leaves the archive (`ArchiveOnlyGrows`), the contract is implemented (`KeepsThePromise`) | 354,590 |
| `transfer_shared_temp` | *violation*: copy and archive thread of one server share the temporary path | |
| `archiving` | an original, a replica and a raw-data-only bucket, each alone with any one fault or crash, and the original and the raw-data-only one together: `NoDataLoss` of originals in every format; `KeepsThePromise`: for good, and their files do not come back; `OneShuttlerPerLockFile`: two workers never have one lock file; `EventuallyArchived`: what was moved is archived and goes, unless a lock was left | 144,719 |
| `archiving_two_shuttlers` | *violation*: after two failed transfers, two workers transfer one bucket at a time (`OneShuttlerAtATime`) | |
| `archiving_torn_replica` | *violation*: the rest of a half-deleted replica is archived as the bucket | |
| `copying` | `ReceiptMeansArchived`: a receipt only for a bucket archived in every format; `EventuallyCopied`: a bucket that stays cold, and whose lock is not left behind, gets its receipt, after any one fault | 460,775 |
| `thawing` | a bucket that has to be imported and one that has not, with any two faults: `OneThawerPerBucket`; `PublishedWhole`: nothing partial is renamed into the thaw directory; `ThawedMeansImported`; `EventuallyThawed`, unless the bucket was left there in part or is flushed | 29,528 |
| `metadata` | two putting threads on two servers or on one: `PutMeansStored`: after a put that returns the archive has whole metadata, unless two threads of a server have put at once; `NeverReplaced`: whoever puts later leaves it alone; `EventuallyRead`: what is stored is read in the end, unless a file is left at the transfer path | 481,820 |
| `glacier` | two servers with a thread each: `IdsNameExports`: every id is of a file in its format, exported to the end; `ArchivedIsFindable`: what counts as archived can be found after restarts; `KeepsThePromise`: the bucket is deleted only then; `EventuallyArchived`, unless exports in both formats are left in the export directory | 489,722 |
| `glacier_shared_export` | *violation*: copy and archive thread of one server export to the same file (`IdsNameExports`) | |
| `cluster` | `OneLocation`: a bucket and its replicas are archived under one server name, unless its indexer is renamed; `OriginalSurvives`: replicas may go, but an original stays until it is archived in every format where its indexer looks for it, unless that one is lost; `ListingIsTrue`: a listing among archiving servers has every bucket with an event between the two instants that the range stands for, in the best format; `DiskIsFreed`: every frozen copy goes in the end | 326,155 |
| `pages` | `ActsOnWhatItShows`: what is thawed or flushed is what was listed; `QuietPageIsUsable`, `UsableAgain`: the button comes back, nothing spins for ever; `FlushedBucketsGo`: flushed buckets leave the list; each but for the cases that it names | 75,174 |

### Bounds, and why they are enough

* **Actors: two of each kind** (`transfer_own_temps` three servers, two archive
  and one copies). The protocols are pairwise: a lock, a rename, a check then an
  act. Three actors meet only on lock files, where the third may hold a deleted
  inode. The safety properties of `Archiving` are proved for any number.
* **Data: one or two buckets, formats and files.** Two formats make "one
  archived, one failed" possible, two files make a partial copy possible, two or
  three buckets (original, replica, raw data only; one to import, one not) make
  each branch happen.
* **Which buckets are there at once** (`Bounds` of `Archiving`, `Batches` of
  `Thawing`): liveness is too slow with all of them. `archiving` has each bucket
  alone with the fault, and the original and the raw-data-only bucket together
  without one; a freezer for *another* bucket, which recovers these, is always
  there (`LaunchForOther`). `thawing` has one bucket at a time. Checked for safety
  only, and not part of the runs: in `archiving` the last two together with one
  fault (1,126,180 states), in `thawing` both buckets without a fault (390,314).
* **Faults: `MaxFaults` of the kinds in `Faults`.** Each is an exception or a
  crash which may strike at any step. One is enough to leave every kind of
  remainder behind and to have the rest of the system meet it; the liveness
  runs want finitely many, else nothing ever succeeds.
* **`Inodes`** is as many as can be alive at once.
* No run uses symmetry.
* **Metadata:** two threads that put, on two servers, where the race is for the
  archive's path, or on one, where it is for the flat file and the temporary path
  too; two values, so that a replacement shows. One server reads, the one where
  both threads are when they are on one.
* **Glacier:** two servers with a thread each, since the race is for the ids and
  the archive paths, which they share; one server thaws. Two lists of formats:
  one in which the leftover of the first format blocks the second, one in which
  both are uploaded as tgz.
* **Copying:** one bucket, two copiers, two workers, two formats, any one fault.
* **Cluster:** a bucket with a replica and one without, on two indexers, the first
  with two formats and the second with one; one fault, one renaming, of the first
  indexer, which lists as well: its name is the one that is cached, asked for by
  another, and listed under. A day has two instants, midnight and noon. Two
  ranges: the first day, on which both buckets have events, one of them from noon
  on and therefore not listed; and one that is the wrong way round.
* **Pages:** two requests under way, since every race is between two answers
  (the run was made with three as well: 1,106,014 states, the same result); two
  criteria beside the invalid form.
* In the thawing run each bucket is archived in **one format**; see section 6.

### Fairness, and why the code justifies it

Threads that run keep running (weak fairness of each thread's steps and of the
server's restart). Splunk starts freezers and copiers as long as buckets freeze
or turn cold: `LaunchForOther` weakly. No given bucket ever has to freeze: in
`Archiving` `Launch` is not fair, as `EventuallyArchived` begins with a bucket
that was moved. In `ColdCopy` it is, strongly: every scan of the cold directory
comes to the bucket again, but another script may be at it whenever one looks.
In thawing, the client
asks for the buckets again and again, and so does the reader of metadata. In
`Glacier` a freezer posts the bucket as long as the server has it. The re-locking
after the exclusive lock is released (`SimpleFileLock.java:143`) is strongly
fair: two system calls in succession, between which another process does not
get every time; in `Thawing` so for each bucket, as one thread locks one after
the other. Without that two JVMs can refuse each other for ever. In
`Cluster` servers' threads run on, and each frozen copy is posted again as long
as it is there (strongly, as its server may be at another). In `Pages` every request is answered or fails,
as browsers see to it; the user need not do anything. No fault is ever fair: the
forced exceptions of `ColdCopy` (of a bucket that is gone) and of `Cluster` (of
an indexer that is gone) are not faults but what the code must do, and weakly
fair.

## 4. What is proved

TLAPS proves the theorems in the `...Proofs` modules for every number of
actors, buckets, formats and files, every set of fault kinds and every bound.
The assumptions on constants are the `ASSUME`s of the modules.

| theorem | from |
|---|---|
| `BucketTransferProofs`: `Typing`, `ArchiveIsPermanent` | none: whoever shares a temporary path |
| `PublishedWhole`, `DeletedOnlyWhenArchived`, `Refinement` | `OwnServer`: no two executors share a server, and so a temporary path |
| `ArchivingProofs`: `Typing`, `DeletedOnlyWhenArchived`, `OriginalsAreWhole`, `ShuttlersHaveOwnFiles` | |
| `ArchivingRefinement` | a list of formats that is not empty |
| `ColdCopyProofs`: `Typing`, `ReceiptsAreTrue` | |
| `ThawingProofs`: `ThawTyping`, `ThawMutualExclusion` | |
| `PublishesWholeBuckets`, `ThawedBucketsAreImported` | `OneFormat`: each bucket is archived in one format |
| `MetadataProofs`: `MetadataTyping`, `StoredStays` | |
| `PutsAreStored` | none on the constants; says nothing of a put that returns after two threads of a server have put at once |
| `GlacierProofs`: `GlacierTyping`, `IdsBeforeDeletion` | none: any number of workers on a server |
| `ArchivedCanBeFound` | `OneWorker`: no server has two workers, and so no two share an export directory |
| `GlacierRefinement` | `OneWorker`; no empty list of formats |
| `ClusterProofs`: `ClusterTyping`, `ClusterArchivesInOnePlace`, `ClusterKeepsOriginals`, `ClusterListsTruly` | |
| `PagesProofs`: `PagesTyping`, `QuietPagesAreUsable`, `PagesForgetFlushedBuckets`, `PagesActOnWhatTheyShow` | |

**BucketTransfer.** That the archive has all or nothing depends on what each
executor knows of its temporary path at each call (`Knows`): between its purge
and its rename the path has exactly what the executor wrote. Two executors with
one path break that, which is what `transfer_shared_temp` shows, so `OwnServer`
is needed and not a convenience. That the archive only grows needs none of it: only
a rename writes there, and Hadoop's does not replace what exists. The refinement has one lemma per kind of step:
publication, report, deletion, and what stutters.

**Archiving.** That a deleted bucket is archived follows from what its worker
has found out, format by format, since its loop began (`Knows`); from the
archive losing nothing; and from the local bucket being whole as long as a
format is missing (`Intact`). No lock is in the invariant: `NoDataLoss` of
originals does not depend on mutual exclusion, only on each worker's own
order of copying, checking and deleting. That is as long as a transfer is
atomic, which is where the lock comes in. `OriginalsAreWhole` comes from the
same invariant: what `archiving_torn_replica` shows happens to replicas only.

The refinement needs to know that a bucket never returns to the cold or the safe
directory. A freezer moves what is its own, and `OInv` says that a bucket's own
freezer is the only one there is (`OneFresh`), and that nobody else has a cold
bucket as target, on a list or as a job (`Untouched`).

`ShuttlersHaveOwnFiles` is what the locks do give, through all faults: a worker
has a shared lock from the step that got it to the step that closes it, and a
JVM never gives two of its threads a lock on one file (`LInv`). So of two workers
that are at one bucket, one has a lock file open that somebody has deleted. That
there are no two is not true: a worker deletes the lock file also when its
transfer has failed, which `archiving_two_shuttlers` shows.

**ColdCopy.** A receipt is written by another process than the copy. The chain
is: what the worker knows in its loop (`Knows`), that a copier waits for a
worker that has the copier's own bucket (`Waits`), and that an answer which was
not yet looked at still means what it meant (`Told`).

**Glacier.** The invariant is a chain along a worker's calls. An id is put, in the
flat file or the archive, before anything appears at an archive path because of
it (`PutInv`), what is put stays put (`StepPuts`), and each format is put, is
still in the worker's list, or has failed, in which case the worker throws and
does not delete (`LoopInv`). That much holds however many workers a server has,
and gives `IdsBeforeDeletion`. What the ids lead to is another matter. The
worker's own export is what it takes it for, from the start of its tool to the
upload (`ExportInv`), only when nobody shares its directory, and so every id names
a whole export of its format (`IdsNamed`): hence `OneWorker` in
`ArchivedCanBeFound` and in the refinement. Two workers on one server break that
link, as `glacier_shared_export` shows; so these two theorems say nothing of a
server whose copy and archive thread meet at a bucket, and neither does the run
`glacier`. The refinement wants a list of formats that is not empty: with an
empty one the code archives nothing and deletes the bucket, as it does without
Glacier.

**Thawing.** The lock's part says that a thawer's channel is open on the inode
its bucket's path leads to (`HasChannel`), that it has its lock while it is at
the bucket (`HasLock`) and that no two have a lock on one inode (`Apart`);
`ThawMutualExclusion` follows. The data's part (`ThawInv`) says that nothing is
left at the temporary path of a published bucket (`Emptied`), that a bucket in
Splunk's format does not wait for an import (`Searchable`), and what a thawer
may rely on at each call (`Sees`). It is inductive only when the lock on a key
protects the directory of its name, hence `OneFormat`.

**Metadata.** That only whole metadata reaches the archive rests on the flat
file being whole from its writing to its copying (`PutterInv`), which the reader
must not break: it deletes the file, or renames to its path what it received
from the archive, and that is whole because the archive's is (`ReaderInv`). The
two halves hold each other up, so neither is inductive alone. All of it needs one
putting thread per server at a time (`Alone`), and holds until `overlapped`;
`StoredStays` holds after it as well.

**Cluster.** As long as an indexer is not renamed, all who know its name know the
same one: file, MBean, shared configuration (`ConfigName`), every server that
archives a bucket of it (`WorkerName`), and the archive (`ArchiveName`);
`OneLocation` is the last. Who archives an original has each format of it before
it, under way, failed or archived (`Accounted`), so that it deletes only what is
archived; a replica's failed look-up deletes a copy on another disk
(`DeletedIsSafe`). A listing rests on the archive only growing: what was there
when it began still is, each bucket of it has been found or is still to be looked
at, and what was found stays true (`ListInv`); a format has a directory to be
found in (`HomeInv`). That the chosen format is the best (`ChosenIsBest`) needs
a first position in the list of priorities. There is no induction here to give
it, so `LeastPosition` gets it from the finiteness of the positions: if there were
none, one step down would map a finite set one-to-one to a proper part of
itself. That the filter's test by the ends of a bucket finds every bucket with an
instant in the range needs `SpanOrderAssumption`: no bucket ends before it begins.

**Pages.** What a page is like when nothing is under way, or at a click, depends
on what was under way before. Whatever is hidden, disabled or turns is so because
of a request that will end (`LoadingEnds`); the one listing asks for what the
form has, until the form is edited or a second listing begins
(`ListFollowsForm`); and a list that a flush has made wrong is on its way to be
replaced (`StaleListIsReplaced`). The three are inductive together, for any
number of requests.

**Only model-checked:** every liveness property (`EventuallyArchived` twice,
`EventuallyCopied`, `EventuallyThawed`, `EventuallyRead`, `DiskIsFreed`,
`UsableAgain`: the prover has no rules for fairness here), and `IdsNameExports`,
for two servers with a thread each. Every other property of a passing run is a
theorem.

## 5. Disagreements between code and documentation

Each violation run has a trace and an entry under "findings". These were met as
well, with variants of the models; they have no run of their own.

* `AbstractTransaction.java:92`: between the check of the destination and the
  rename another indexer may publish the same replicated bucket; Hadoop then
  puts the second copy inside the first. The bucket's own files are untouched
  (`NeverPartial`), the archive has a directory that nobody asked for.
* `SimpleFileLock.java:143`: between release and re-acquisition two freezers
  may both get to hold the shared lock of one bucket, each having had the
  exclusive one.
* `BucketLock.java:56` documents deleting the lock file as something done under
  the lock; others may have it open and lock it afterwards.
* `ArchiveBucketTransferer.java:76`: when the transaction of the size fails, the
  bucket is archived, is never posted again, and has no size.
* `ShuttlBucketEndpoint.java:90`: the lock is taken in line 89 and closed by the
  runner only. An exception while the shuttler is created (a configuration that
  cannot be read) keeps it locked for the life of the server, and no freezer
  recovers the bucket, whereas `BucketFreezer.java:35-37` says it "recovers any
  failed archiving attempts". The run `archiving` has this fault ("configure"), and
  `EventuallyArchived` excepts such a bucket by name (`LockLeft`).
* `LocalBucketStorage.java:38`: a failed import leaves the bucket's directory in
  the thaw directory, where `hasBucket` finds it, and every later request skips
  the bucket as one that `BucketThawer.java:184-186` calls "already thawed". It
  never becomes searchable. The run `thawing` has this fault ("import"), and
  `EventuallyThawed` excepts such a bucket by name (`LeftInPart`).
* `HadoopArchiveFileSystem.java:68`: a get of metadata that fails while it
  copies, or whose server crashes then, leaves a *file* at the transfer path. It
  is not cleaned, as the cleaner deletes a path in the archive, and
  `FileUtils.deleteDirectory` throws an `IllegalArgumentException` at it, which
  `MetadataStore.executeTransaction` does not catch: every later read throws,
  whereas `ArchiveBucketSize.java:47-48` "Returns null if the archiveSize is not
  persisted locally nor remotely". `EventuallyRead` says
  that this is the only thing that stops a reader.
* `MetadataStore.java:105`: the same happens without a fault when a replica's
  server puts and reads: the commit of the get finds the flat file that the
  putter has just created, and the copy stays at the transfer path.
* `FlatFileStorage.java:61`, `PathResolver.java:171`: the copy thread and the
  archive thread of one server hold different locks (`BucketLock` of copies and of
  archiving) and put the same metadata of a bucket through one flat file and one
  temporary path. When one opens the flat file it is empty while the other copies
  it, so a blank file may be committed and the put returns; or one deletes the
  temporary file of the other, whose commit finds nothing to rename. The archive has
  no size of the bucket then, or, with Glacier, no id. `PutMeansStored` claims
  nothing once two threads of a server have put at once (`overlapped`), and the run
  `metadata` has both cases.
* `StringDateConverter.java:47`, `BucketFilter.java:74`: a date is the midnight with
  which it begins, and a bucket that begins after the "to" instant is left out. So
  buckets that begin during the last day of a range are neither listed nor thawed
  nor flushed, whereas `ThawBucketsEndpoint.java:61-63` calls it "End date of
  thawing interval (on the form yyyy-MM-dd)". `ListingIsTrue` claims the range
  between the two instants, which is less than the days.
* `BucketShuttlerRunner.java:82`: the lock file is deleted before it is closed,
  and whatever file is at the path. The run `archiving_two_shuttlers` shows what
  comes of it after two failed transfers. The same happens with three freezers
  and three workers after a single crash of a freezer, whose worker goes on without
  the lock that the freezer had (45 states).
* `CreatesBucketTgz.java:70`: the exit code of `tar | gzip` is that of `gzip`.
  When `tar` fails the exception of line 79 is not thrown, and a short archive is
  uploaded and takes the bucket's place.
* `GlacierArchiveFileSystem.java:94`: a bucket has to be one file, but all formats
  are exported to one directory. What a crash or a failed deletion (which
  `BucketDeleter.java:50` ignores) leaves of one format stops the upload of
  another for ever, once the first is archived. `EventuallyArchived` of `Glacier`
  excepts this case by name.
* `GlacierArchiveFileSystem.java:64-66`: a bucket in Splunk's format is uploaded as
  tgz and its id is put under that format. `isArchived` then takes tgz for
  archived as well. A server that has been restarted looks for the id under
  Splunk's format, where there is none (`MetadataStore.read` finds nothing); one
  that has not downloads a tgz file, and imports nothing since the bucket is in
  Splunk's format. The warning in lines 75-79 says only that another format
  avoids the export.
* `GetsBucketsExportFile.java:43`: the export file has the bucket's name, in a
  directory of the server, and one that exists is deleted (lines 44-45): see the run
  `glacier_shared_export`, which needs no fault.
* `ShuttlConfigurationEndpoint.java:45`: other indexers are told the name in the
  MBean, but the indexer archives under the name in its cached configuration
  (`ArchiveConfiguration.java:65`). After `setServerName` the two differ until the
  cache goes, and after a restart without `save` the name is the old one again;
  meanwhile an original and its replica go to two places, which
  `GetsServerNameForBucket.java:22-25` says "we must prevent". `OneLocation`
  excepts renamed indexers.
* `ConfigProviderForBothNormalAndReplicatedBuckets.java:35-38`: replicas are
  deleted as "the original bucket will still be shuttl'ed". When the origin is
  lost with its disk, every look-up throws and every replica is deleted, the last
  copy of a bucket that was not archived among them. `OriginalSurvives` excepts lost indexers.
* `static/archiver.js:133`, `static/flusher.js` likewise: the answer of a listing
  turns the button to "Thaw buckets!" although the form was changed meanwhile;
  the next click thaws, or flushes, what was never listed (`ActsOnWhatItShows`
  without `overlapped`). The error page that the controller renders for a status
  other than 200 is a success to the script, and turns the button as well.
* `static/flusher.js:190` and `:203` look for `#flush-button`; the button is
  `#search-flush-button` (`:66`). It is never disabled while a request is under way.
* `static/flusher.js:151`: buckets are listed again after a flush; if that fails,
  the flushed ones stay on the page under "Flush buckets!" (`FlushedBucketsGo`
  without `missed`). `controllers/Archiving.py:199` answers "Success!" although
  buckets may have failed; `static/archiver.js:164` shows "Request submitted!
  Still thawing.." for every error.
* `OneShuttlerAtATime` fails in `ColdCopy` too: with two copiers and a failed
  transfer, or three copiers.

## 6. Thawing a bucket that has two formats

The thaw lock and the temporary directory are those of name *and format*, the
directory in the thaw directory that of the name. With one bucket in two
formats, an earlier failed transfer, a thawer per format and a flush between
one's prepare and commit, `PublishedWhole` fails: `prepare` finds the
destination, transfers nothing, and `commit`, after the flush, renames what the
failed transfer has left. The leftover is there because
`ThawLocationProvider.java:58-77` cannot delete a directory with files, although
its comment (line 61) promises a non existing location. To see it, give
`MCThawing` one bucket with the formats `{f1, f2}`, two thawers, a flusher, all
faults and `MaxFaults = 1`; the trace has 40 steps. This is why the theorems
assume `OneFormat`, and why the run does.

## 7. What is not modelled

* A second start of the server beside a running one: `StartUpCleaner` would
  wipe the running one's locks and transfers (`ShuttlJettyServer.java:57`). The
  models have one server process per indexer at a time.
* An empty list of archive formats (`ArchiveConfiguration.java:142`): the loop
  copies nothing and the bucket is deleted. `NoDataLoss` and `OriginalSurvives`
  hold then, of no format; nothing in the repository says what should happen.
* A `save` of the configuration that is cut off, the override with the
  configuration of old versions, and changes of other attributes than the
  server name. Indexes and bucket sizes in listings.
* The csv importer; a tool that outlives a crash of the server.
* Archives on the local file system, where the thaw transaction's cleaner does
  find the temporary path.
* A date that cannot be read: a request with one ends with an exception
  (`ThawBucketsEndpoint.java:84`, `BucketFilter.java:55`) and changes nothing.
* What a bucket's data is. Formats are opaque, and export is one step but in
  `Glacier`.
* Jetty, Jersey, JSON and logging; the start scripts; on the pages the resizing
  of the frame and the date pickers. Everything else under `static` is third
  party code (jQuery, its user interface and validation).

## 8. Plan

The order is by what can go wrong: the deletion of data, the recovery from
failures, thawing, the metadata and Glacier, the cluster, the catalogue and the
pages, all done. What is left:

1. **Configuration**: a save that is cut off, the override with the configuration
   of old versions, and whether formats may be changed while buckets are archived.
2. **Server start**: two servers of one indexer, and the cleaner.
3. **Theorems**: an abstract specification of copying and of thawing, as
   `ArchivePromise` is of archiving, and the proofs that `ColdCopy` and `Thawing`
   implement them; mutual exclusion at cold buckets while no copier dies.
