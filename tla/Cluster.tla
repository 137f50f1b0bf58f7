------------------------------ MODULE Cluster ------------------------------
(***************************************************************************)
(* The indexers of a cluster archive a bucket and its replicas.  A replica  *)
(* is archived under the server name of the indexer it comes from, which    *)
(* its holder asks for: the cluster master for the indexer, splunkd there   *)
(* for Shuttl's port, Shuttl there for its name.  When that fails the       *)
(* replica is deleted.  A server name is configured in a file, kept in an   *)
(* MBean that an operator may change, and cached by the server that archives*)
(* or lists.  Locks and the inside of a transfer are other modules'.        *)
(***************************************************************************)
EXTENDS Catalogue

CONSTANTS
  Indexers,
  OriginOf,    \* the indexer that a bucket comes from
  HoldersOf,   \* the indexers that have it: the origin, and its replicas'
  FormatsOf,   \* the archive formats an indexer is configured with
  Names,       \* server names
  NameOf,      \* those in the files at first
  Priorities,  \* the lists of format priorities that may be configured
  Ranges,      \* the ranges that may be asked for, by their ends
  Listers,     \* the indexers that are asked to list
  NoName, NoBucket, NoFormat,
  Faults, MaxFaults,
  Renamable    \* the indexers whose name an operator may change, once

ASSUME ClusterAssumption ==
  /\ OriginOf \in [Buckets -> Indexers]
  /\ HoldersOf \in [Buckets -> SUBSET Indexers]
  /\ \A b \in Buckets : OriginOf[b] \in HoldersOf[b]
  /\ FormatsOf \in [Indexers -> SUBSET Formats]
  /\ NameOf \in [Indexers -> Names]
  /\ Ranges \subseteq Requested \X Requested
  /\ \A range \in Ranges : Convert(range[1]) \in Times /\ Convert(range[2]) \in Times
  /\ Priorities \subseteq Seq(Formats \cup {Unknown})
  /\ Listers \subseteq Indexers
  /\ NoName \notin Names /\ NoBucket \notin Buckets /\ NoFormat \notin Formats
  /\ MaxFaults \in Nat /\ Renamable \subseteq Indexers

VARIABLES
  \* configuration
  file,      \* the server name in archiver.xml
  mbean,     \* ... in the MBean
  shared,    \* ... in the shared ArchiveConfiguration, if there is one
  \* data
  disk,      \* the buckets and replicas that an indexer has
  homes,     \* the bucket directories in the archive: server name and bucket
  archive,   \* the formats in them
  \* a server's thread
  pc, job,
  name,      \* the server name it archives under
  todo,      \* the formats that its loop has not come to yet
  format,    \* the one that is transferred
  failed,    \* whether one of them has failed
  \* a listing
  lister,
  \* history
  lost,      \* the indexers that are gone for good
  renamed,   \* the indexers whose name was changed
  faults

configVars == <<file, mbean, shared>>
dataVars   == <<disk, homes, archive>>
workerVars == <<pc, job, name, todo, format, failed>>
envVars    == <<lost, renamed, faults>>
vars == <<configVars, dataVars, workerVars, lister, envVars>>

Listed == [bucket : Buckets, format : Formats \cup {Unknown}, read : BOOLEAN]

\* from and to are instants.  before is what was archived of the range when the
\* listing began.
Listings ==
  [pc : {"idle", "formats"}, by : SUBSET Indexers, name : Names \cup {NoName},
   from : Times, to : Times, priority : Priorities \cup {<<>>},
   before : [Buckets -> SUBSET Formats], todo : SUBSET Buckets,
   found : SUBSET Listed]

NoListing ==
  [pc |-> "idle", by |-> {}, name |-> NoName, from |-> 0, to |-> 0, priority |-> <<>>,
   before |-> [b \in Buckets |-> {}], todo |-> {}, found |-> {}]

TypeOK ==
  /\ file \in [Indexers -> Names]
  /\ mbean \in [Indexers -> Names]
  /\ shared \in [Indexers -> Names \cup {NoName}]
  /\ disk \in [Indexers -> SUBSET Buckets]
  /\ homes \subseteq Names \X Buckets
  /\ archive \in [Names -> [Buckets -> SUBSET Formats]]
  /\ pc \in [Indexers -> {"idle", "locate", "name", "loop", "rename"}]
  /\ job \in [Indexers -> Buckets \cup {NoBucket}]
  /\ name \in [Indexers -> Names \cup {NoName}]
  /\ todo \in [Indexers -> SUBSET Formats]
  /\ format \in [Indexers -> Formats \cup {NoFormat}]
  /\ failed \in [Indexers -> BOOLEAN]
  /\ lister \in Listings
  /\ lost \subseteq Indexers
  /\ renamed \subseteq Renamable
  /\ faults \in 0..MaxFaults

-----------------------------------------------------------------------------

Fault(kind) ==
  /\ kind \in Faults
  /\ faults < MaxFaults
  /\ faults' = faults + 1
  /\ UNCHANGED <<lost, renamed>>

\* ArchiveConfiguration.getSharedInstance
SharedName(i) == IF shared[i] = NoName THEN mbean[i] ELSE shared[i]
Shares(i) == shared' = [shared EXCEPT ![i] = SharedName(i)]

Goto(i, from, to) ==
  /\ pc[i] = from
  /\ pc' = [pc EXCEPT ![i] = to]

\* The request of i is over.
Ends(i) ==
  /\ pc' = [pc EXCEPT ![i] = "idle"]
  /\ job' = [job EXCEPT ![i] = NoBucket]
  /\ name' = [name EXCEPT ![i] = NoName]
  /\ todo' = [todo EXCEPT ![i] = {}]
  /\ format' = [format EXCEPT ![i] = NoFormat]
  /\ failed' = [failed EXCEPT ![i] = FALSE]

\* BucketDeleter ignores that a bucket cannot be deleted.
DeleteJob(i) ==
  /\ \/ disk' = [disk EXCEPT ![i] = @ \ {job[i]}] /\ UNCHANGED envVars
     \/ Fault("delete") /\ UNCHANGED disk
  /\ UNCHANGED <<homes, archive>>

-----------------------------------------------------------------------------
(***************************************************************************)
(* A frozen bucket is posted to its indexer's server                       *)
(***************************************************************************)

\* An original is archived under the server's own name.
ArchiveOriginal(i, b) ==
  /\ pc[i] = "idle"
  /\ b \in disk[i] /\ OriginOf[b] = i
  /\ Shares(i)
  /\ pc' = [pc EXCEPT ![i] = "loop"]
  /\ job' = [job EXCEPT ![i] = b]
  /\ name' = [name EXCEPT ![i] = SharedName(i)]
  /\ todo' = [todo EXCEPT ![i] = FormatsOf[i]]
  /\ UNCHANGED <<file, mbean, dataVars, format, failed, lister, envVars>>

\* A replica is not, ...
ArchiveReplica(i, b) ==
  /\ pc[i] = "idle"
  /\ b \in disk[i] /\ OriginOf[b] # i
  /\ Shares(i)
  /\ pc' = [pc EXCEPT ![i] = "locate"]
  /\ job' = [job EXCEPT ![i] = b]
  /\ UNCHANGED <<file, mbean, dataVars, name, todo, format, failed, lister,
                 envVars>>

\* ClusterMaster.indexerForGuid and ShuttlPortEndpoint.getShuttlPort: neither
\* depends on anything else that changes.
LocateOrigin(i) ==
  /\ Goto(i, "locate", "name")
  /\ OriginOf[job[i]] \notin lost
  /\ UNCHANGED <<configVars, dataVars, job, name, todo, format, failed, lister,
                 envVars>>

\* Mutant: the holder takes its own name when it cannot be told another.
OwnServerName(i) ==
  /\ Goto(i, "name", "loop")
  /\ name' = [name EXCEPT ![i] = SharedName(i)]
  /\ todo' = [todo EXCEPT ![i] = FormatsOf[i]]
  /\ UNCHANGED <<configVars, dataVars, job, format, failed, lister, envVars>>

\* RemoteShuttl.getServerName, which is answered from the MBean.
AskServerName(i) ==
  /\ Goto(i, "name", "loop")
  /\ OriginOf[job[i]] \notin lost
  /\ name' = [name EXCEPT ![i] = mbean[OriginOf[job[i]]]]
  /\ todo' = [todo EXCEPT ![i] = FormatsOf[i]]
  /\ UNCHANGED <<configVars, dataVars, job, format, failed, lister, envVars>>

\* Mutant: the replica stays.
LookupThrowsAndKeeps(i) ==
  /\ pc[i] \in {"locate", "name"}
  /\ \/ OriginOf[job[i]] \in lost /\ UNCHANGED envVars
     \/ Fault("lookup")
  /\ Ends(i)
  /\ UNCHANGED <<configVars, dataVars, lister>>

\* Any of them throws, and has to when the origin is gone: the replica is
\* deleted, or stays if that fails too.
LookupThrows(i) ==
  /\ pc[i] \in {"locate", "name"}
  /\ \/ OriginOf[job[i]] \in lost /\ DeleteJob(i)
     \/ /\ Fault("lookup")
        /\ disk' = [disk EXCEPT ![i] = @ \ {job[i]}]
        /\ UNCHANGED <<homes, archive>>
  /\ Ends(i)
  /\ UNCHANGED <<configVars, lister>>

\* isArchived
SkipArchived(i, f) ==
  /\ pc[i] = "loop"
  /\ f \in todo[i]
  /\ f \in archive[name[i]][job[i]]
  /\ todo' = [todo EXCEPT ![i] = @ \ {f}]
  /\ UNCHANGED <<configVars, dataVars, pc, job, name, format, failed, lister,
                 envVars>>

\* A transfer makes the bucket's directory first ...
MakeHome(i, f) ==
  /\ Goto(i, "loop", "rename")
  /\ f \in todo[i]
  /\ f \notin archive[name[i]][job[i]]
  /\ todo' = [todo EXCEPT ![i] = @ \ {f}]
  /\ format' = [format EXCEPT ![i] = f]
  /\ homes' = homes \cup {<<name[i], job[i]>>}
  /\ UNCHANGED <<configVars, disk, archive, job, name, failed, lister, envVars>>

\* ... and moves the format into it.
RenameToArchive(i) ==
  /\ Goto(i, "rename", "loop")
  /\ archive' = [archive EXCEPT ![name[i]][job[i]] = @ \cup {format[i]}]
  /\ format' = [format EXCEPT ![i] = NoFormat]
  /\ UNCHANGED <<configVars, disk, homes, job, name, todo, failed, lister,
                 envVars>>

\* BucketCopier keeps the exception of a transfer for the end of its loop.
TransferThrows(i) ==
  /\ Goto(i, "rename", "loop")
  /\ Fault("transfer")
  /\ failed' = [failed EXCEPT ![i] = TRUE]
  /\ format' = [format EXCEPT ![i] = NoFormat]
  /\ UNCHANGED <<configVars, dataVars, job, name, todo, lister>>

\* Asking whether a format is archived, or exporting it, is not guarded: an
\* exception leaves the loop and the bucket.
LoopThrows(i) ==
  /\ pc[i] = "loop" /\ todo[i] # {}
  /\ Fault("export")
  /\ Ends(i)
  /\ UNCHANGED <<configVars, dataVars, lister>>

\* Mutant: the bucket is deleted whatever has failed.
FinishAnyway(i) ==
  /\ pc[i] = "loop" /\ todo[i] = {}
  /\ DeleteJob(i)
  /\ Ends(i)
  /\ UNCHANGED <<configVars, lister>>

\* BucketArchiver: the bucket is deleted unless an exception was kept.
Finish(i) ==
  /\ pc[i] = "loop" /\ todo[i] = {}
  /\ IF failed[i] THEN UNCHANGED <<dataVars, envVars>> ELSE DeleteJob(i)
  /\ Ends(i)
  /\ UNCHANGED <<configVars, lister>>

-----------------------------------------------------------------------------
(***************************************************************************)
(* Configuration                                                           *)
(***************************************************************************)

\* The garbage collector clears the soft reference, which shows when the MBean
\* is not what it was.
Evict(i) ==
  /\ shared[i] \notin {NoName, mbean[i]}
  /\ shared' = [shared EXCEPT ![i] = NoName]
  /\ UNCHANGED <<file, mbean, dataVars, workerVars, lister, envVars>>

\* An operator sets an attribute of the MBean, ...
SetServerName(i, n) ==
  /\ i \in Renamable \ renamed
  /\ n # mbean[i]
  /\ mbean' = [mbean EXCEPT ![i] = n]
  /\ renamed' = renamed \cup {i}
  /\ UNCHANGED <<file, shared, dataVars, workerVars, lister, lost, faults>>

\* ... saves it ...
Save(i) ==
  /\ file' = [file EXCEPT ![i] = mbean[i]]
  /\ UNCHANGED <<mbean, shared, dataVars, workerVars, lister, envVars>>

\* Mutant: it is read from the shared configuration, if any.
RefreshFromShared(i) ==
  /\ mbean' = [mbean EXCEPT ![i] = shared[i]]
  /\ UNCHANGED <<file, shared, dataVars, workerVars, lister, envVars>>

\* ... or reads the file again.
Refresh(i) ==
  /\ mbean' = [mbean EXCEPT ![i] = file[i]]
  /\ UNCHANGED <<file, shared, dataVars, workerVars, lister, envVars>>

\* A listing ends with the server that is asked.
StopsListing(i) == lister' = IF i \in lister.by THEN NoListing ELSE lister

Restart(i) ==
  /\ Fault("restart")
  /\ mbean' = [mbean EXCEPT ![i] = file[i]]
  /\ shared' = [shared EXCEPT ![i] = NoName]
  /\ Ends(i) /\ StopsListing(i)
  /\ UNCHANGED <<file, dataVars>>

\* An indexer is gone with its disk, and the master forgets it.
Lose(i) ==
  /\ "lose" \in Faults /\ faults < MaxFaults
  /\ faults' = faults + 1
  /\ lost' = lost \cup {i}
  /\ disk' = [disk EXCEPT ![i] = {}]
  /\ Ends(i) /\ StopsListing(i)
  /\ UNCHANGED <<configVars, homes, archive, renamed>>

-----------------------------------------------------------------------------
(***************************************************************************)
(* A listing, while others archive                                         *)
(***************************************************************************)

\* Reference definition: some instant is in the bucket's span and in the range.
Overlaps(b, from, to) ==
  \E t \in Times : from <= t /\ t <= to /\ Span[b][1] <= t /\ t <= Span[b][2]

\* listBucketsForIndex: the ends of the range are converted, ArchiveBucketsLister
\* lists under the name of the shared configuration, then BucketFilter filters.
BeginListing(i, range, priority) ==
  LET n    == SharedName(i)
      from == Convert(range[1])
      to   == Convert(range[2])
  IN
    /\ lister.pc = "idle"
    /\ Shares(i)
    /\ lister' = [pc |-> "formats", by |-> {i}, name |-> n, from |-> from,
                  to |-> to, priority |-> priority,
                  todo |-> FilterBuckets({b \in Buckets : <<n, b>> \in homes}, from, to),
                  found |-> {},
                  before |-> [b \in Buckets |->
                                IF Overlaps(b, from, to) THEN archive[n][b] ELSE {}]]
    /\ UNCHANGED <<file, mbean, dataVars, workerVars, envVars>>

Finds(b, f, read) ==
  lister' = [lister EXCEPT
               !.todo = @ \ {b},
               !.found = @ \cup {[bucket |-> b, format |-> f, read |-> read]}]

\* BucketFormatResolver, bucket by bucket.
ResolveFormat(b) ==
  /\ lister.pc = "formats"
  /\ b \in lister.todo
  /\ \E f \in ChooseBucketFormat(archive[lister.name][b], lister.priority) :
       Finds(b, f, TRUE)
  /\ UNCHANGED <<configVars, dataVars, workerVars, envVars>>

\* A directory that cannot be listed has no formats.
ListFormatsThrows(b) ==
  /\ lister.pc = "formats"
  /\ b \in lister.todo
  /\ \E f \in ChooseBucketFormat({}, lister.priority) : Finds(b, f, FALSE)
  /\ Fault("list")
  /\ UNCHANGED <<configVars, dataVars, workerVars>>

Respond ==
  /\ lister.pc = "formats" /\ lister.todo = {}
  /\ lister' = NoListing
  /\ UNCHANGED <<configVars, dataVars, workerVars, envVars>>

-----------------------------------------------------------------------------

Init ==
  /\ file = NameOf /\ mbean = NameOf
  /\ shared = [i \in Indexers |-> NoName]
  /\ disk = [i \in Indexers |-> {b \in Buckets : i \in HoldersOf[b]}]
  /\ homes = {}
  /\ archive = [n \in Names |-> [b \in Buckets |-> {}]]
  /\ pc = [i \in Indexers |-> "idle"]
  /\ job = [i \in Indexers |-> NoBucket]
  /\ name = [i \in Indexers |-> NoName]
  /\ todo = [i \in Indexers |-> {}]
  /\ format = [i \in Indexers |-> NoFormat]
  /\ failed = [i \in Indexers |-> FALSE]
  /\ lister = NoListing
  /\ lost = {} /\ renamed = {} /\ faults = 0

Post(i, b) == ArchiveOriginal(i, b) \/ ArchiveReplica(i, b)

WorkerStep(i) ==
  \/ LocateOrigin(i) \/ AskServerName(i)
  \/ \E f \in Formats : SkipArchived(i, f) \/ MakeHome(i, f)
  \/ RenameToArchive(i) \/ Finish(i)

Operator(i) == (\E n \in Names : SetServerName(i, n)) \/ Save(i) \/ Refresh(i)

Listing ==
  \/ \E i \in Listers \ lost, range \in Ranges, priority \in Priorities :
       BeginListing(i, range, priority)
  \/ Respond
  \/ \E b \in Buckets : ResolveFormat(b) \/ ListFormatsThrows(b)

Next ==
  \/ \E i \in Indexers \ lost :
       \/ \E b \in Buckets : Post(i, b)
       \/ WorkerStep(i) \/ LookupThrows(i) \/ TransferThrows(i) \/ LoopThrows(i)
       \/ Evict(i) \/ Operator(i) \/ Restart(i) \/ Lose(i)
  \/ Listing

Spec == Init /\ [][Next]_vars

\* A server's threads run on, and Splunk posts a frozen bucket as long as it is
\* there.  What a look-up must throw when the origin is gone it throws.
Fairness ==
  \A i \in Indexers :
    /\ WF_vars(WorkerStep(i) \/ (LookupThrows(i) /\ faults' = faults))
    /\ \A b \in Buckets : SF_vars(Post(i, b))

FairSpec == Spec /\ Fairness

-----------------------------------------------------------------------------
(***************************************************************************)
(* Properties                                                              *)
(***************************************************************************)

\* A bucket and its replicas are archived in one place, whoever archives them
\* first, unless its own indexer was renamed (GetsServerNameForBucket.java:22-25:
\* "We must prevent these buckets to get archived to different locations").
OneLocation ==
  \A b \in Buckets : \A n, m \in Names :
    archive[n][b] # {} /\ archive[m][b] # {} =>
      n = m \/ OriginOf[b] \in renamed

\* Replicas may be deleted when a look-up fails, since "The original bucket will
\* still be shuttl'ed" (ConfigProviderForBothNormalAndReplicatedBuckets.java:38):
\* unless its indexer is lost, a bucket is there, or it is archived in every
\* format of its indexer, and where that one lists it if it was not renamed.
OriginalSurvives ==
  \A b \in Buckets :
    LET o == OriginOf[b] IN
      o \in lost \/ b \in disk[o]
        \/ \E n \in Names : /\ n = NameOf[o] \/ o \in renamed
                            /\ FormatsOf[o] \subseteq archive[n][b]

\* Where a format stands with the chooser: by the list of priorities, then the
\* default, then any other.
Rank(f, priority) ==
  CASE \E k \in DOMAIN priority : priority[k] = f ->
         CHOOSE k \in DOMAIN priority :
           priority[k] = f /\ \A j \in 1..(k - 1) : priority[j] # f
    [] f = Default /\ (\A k \in DOMAIN priority : priority[k] # f) ->
         Len(priority) + 1
    [] OTHER -> Len(priority) + 2

\* A listing that runs while buckets are archived has every bucket with an event
\* between the instants that the ends of the range stand for, if it was archived
\* when the listing began, and no other; in a format that is archived, at least as
\* good as the best one then; in an unknown one only if a directory was empty or
\* unreadable (BucketFormatResolver.java:93-103).  A date stands for its midnight:
\* of the last day no more than that is in the range (StringDateConverter.java:47,
\* BucketFilter.java:74), so this promises nothing of the rest of that day.
ListingIsTrue ==
  lister.pc = "formats" /\ lister.todo = {} =>
    /\ \A e \in lister.found :
         /\ Overlaps(e.bucket, lister.from, lister.to)
         /\ e.format # Unknown => e.format \in archive[lister.name][e.bucket]
         /\ e.format = Unknown /\ e.read => lister.before[e.bucket] = {}
    /\ \A b \in Buckets :
         lister.before[b] # {} /\ Overlaps(b, lister.from, lister.to) =>
           \E e \in lister.found :
             /\ e.bucket = b
             /\ e.read => \A f \in lister.before[b] :
                            Rank(e.format, lister.priority) <= Rank(f, lister.priority)

\* Every frozen copy goes from its indexer's disk in the end, archived or not
\* ("will delete replicated bucket to free up space",
\* ConfigProviderForBothNormalAndReplicatedBuckets.java:35-36).
DiskIsFreed == \A i \in Indexers : <>(disk[i] = {})
=============================================================================
