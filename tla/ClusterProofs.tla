---------------------------- MODULE ClusterProofs ----------------------------
(***************************************************************************)
(* Proofs about Cluster for any number of indexers, buckets and formats,    *)
(* any configuration, any faults, and any bound on them.                    *)
(***************************************************************************)
EXTENDS Cluster, FiniteSetTheorems, TLAPS

\* A worker that is busy has a bucket, and what it needs at each step; an
\* original is never looked up.
WorkerInv(i) ==
  /\ pc[i] # "idle" => job[i] \in Buckets
  /\ pc[i] \in {"locate", "name"} => OriginOf[job[i]] # i
  /\ pc[i] \in {"loop", "rename"} => name[i] \in Names
  /\ pc[i] = "rename" => format[i] \in Formats

Shape ==
  /\ TypeOK
  /\ \A i \in Indexers : WorkerInv(i)
  /\ lister.pc = "formats" => lister.name \in Names

-----------------------------------------------------------------------------
(***************************************************************************)
(* Types                                                                   *)
(***************************************************************************)

\* Each step is one of these.
LEMMA NextCases ==
  ASSUME Next
  PROVE  \/ \E i \in Indexers :
              \/ \E b \in Buckets : ArchiveOriginal(i, b) \/ ArchiveReplica(i, b)
              \/ LocateOrigin(i) \/ AskServerName(i) \/ LookupThrows(i)
              \/ \E f \in Formats : SkipArchived(i, f) \/ MakeHome(i, f)
              \/ RenameToArchive(i) \/ TransferThrows(i) \/ LoopThrows(i) \/ Finish(i)
              \/ Evict(i) \/ Save(i) \/ Refresh(i) \/ Restart(i) \/ Lose(i)
              \/ \E n \in Names : SetServerName(i, n)
         \/ Listing
  BY DEF Next, Post, WorkerStep, Operator

\* The shared configuration, cached or made now, has a server name.
LEMMA SharedNames ==
  ASSUME TypeOK, NEW i \in Indexers
  PROVE  SharedName(i) \in Names
  BY ClusterAssumption DEF TypeOK, SharedName

\* A fault leaves the history well formed.
LEMMA FaultTyping ==
  ASSUME TypeOK, NEW kind, Fault(kind)
  PROVE  faults' \in 0..MaxFaults /\ lost' = lost /\ renamed' = renamed
  BY ClusterAssumption DEF TypeOK, Fault

\* The end of a request leaves a worker's variables well typed.
LEMMA EndsShape ==
  ASSUME Shape, NEW i \in Indexers, Ends(i)
  PROVE  /\ pc' \in [Indexers -> {"idle", "locate", "name", "loop", "rename"}]
         /\ job' \in [Indexers -> Buckets \cup {NoBucket}]
         /\ name' \in [Indexers -> Names \cup {NoName}]
         /\ todo' \in [Indexers -> SUBSET Formats]
         /\ format' \in [Indexers -> Formats \cup {NoFormat}]
         /\ failed' \in [Indexers -> BOOLEAN]
         /\ \A j \in Indexers : WorkerInv(j)'
  BY DEF Shape, TypeOK, Ends, WorkerInv

\* What the chooser takes is a format or unknown.
LEMMA ChosenIsFormat ==
  ASSUME NEW available \in SUBSET Formats, NEW priority,
         NEW f \in ChooseBucketFormat(available, priority)
  PROVE  f \in Formats \cup {Unknown}
  BY DEF ChooseBucketFormat, Prioritized

\* No listing under way is well typed.
LEMMA NoListingTyping == NoListing \in Listings
  BY SpanAssumption DEF NoListing, Listings, Times

\* A listing that finds a bucket stays well typed.
LEMMA FindsTyping ==
  ASSUME Shape, NEW b \in Buckets, NEW f \in Formats \cup {Unknown},
         NEW read \in BOOLEAN, Finds(b, f, read)
  PROVE  /\ lister' \in Listings
         /\ lister'.pc = lister.pc /\ lister'.name = lister.name
  <1>1. lister.found \cup {[bucket |-> b, format |-> f, read |-> read]}
          \in SUBSET Listed
    BY DEF Shape, TypeOK, Listings, Listed
  <1>2. lister.todo \ {b} \in SUBSET Buckets
    BY DEF Shape, TypeOK, Listings
  <1> QED BY <1>1, <1>2 DEF Shape, TypeOK, Listings, Finds

\* The steps of a listing keep the shape of the state.
LEMMA ListingShape ==
  ASSUME Shape, Listing
  PROVE  Shape'
  <1>1. ASSUME NEW i \in Listers, NEW range \in Ranges, NEW priority \in Priorities,
               BeginListing(i, range, priority)
        PROVE  Shape'
    <2> DEFINE n == SharedName(i)
               from == Convert(range[1])
               to == Convert(range[2])
    <2>1. i \in Indexers /\ n \in Names
      BY SharedNames, ClusterAssumption DEF Shape
    <2>2. from \in Times /\ to \in Times
      BY ClusterAssumption
    <2>3. FilterBuckets({b \in Buckets : <<n, b>> \in homes}, from, to)
            \in SUBSET Buckets
      BY DEF FilterBuckets
    <2>4. [b \in Buckets |-> IF Overlaps(b, from, to)
                             THEN archive[n][b] ELSE {}]
            \in [Buckets -> SUBSET Formats]
      BY <2>1 DEF Shape, TypeOK
    <2>5. lister' \in Listings /\ lister'.name \in Names
      BY <1>1, <2>1, <2>2, <2>3, <2>4 DEF BeginListing, Listings
    <2>6. shared' \in [Indexers -> Names \cup {NoName}]
      BY <1>1, <2>1 DEF BeginListing, Shares, Shape, TypeOK
    <2> QED BY <1>1, <2>5, <2>6
            DEF BeginListing, Shape, TypeOK, WorkerInv, dataVars, workerVars, envVars
  <1>2. ASSUME Respond PROVE Shape'
    BY <1>2, NoListingTyping
    DEF Respond, NoListing, Shape, TypeOK, WorkerInv, configVars, dataVars,
        workerVars, envVars
  <1>3. ASSUME NEW b \in Buckets, ResolveFormat(b) PROVE Shape'
    <2>1. archive[lister.name][b] \in SUBSET Formats
      BY <1>3 DEF ResolveFormat, Shape, TypeOK
    <2>2. lister' \in Listings /\ lister'.pc = lister.pc /\ lister'.name = lister.name
      BY <1>3, <2>1, ChosenIsFormat, FindsTyping DEF ResolveFormat
    <2> QED BY <1>3, <2>2
            DEF ResolveFormat, Shape, TypeOK, WorkerInv, configVars, dataVars,
                workerVars, envVars
  <1>4. ASSUME NEW b \in Buckets, ListFormatsThrows(b) PROVE Shape'
    <2>1. lister' \in Listings /\ lister'.pc = lister.pc /\ lister'.name = lister.name
      BY <1>4, ChosenIsFormat, FindsTyping DEF ListFormatsThrows
    <2>2. faults' \in 0..MaxFaults /\ lost' = lost /\ renamed' = renamed
      BY <1>4, FaultTyping DEF ListFormatsThrows, Shape
    <2> QED BY <1>4, <2>1, <2>2
            DEF ListFormatsThrows, Shape, TypeOK, WorkerInv, configVars, dataVars,
                workerVars
  <1> QED BY <1>1, <1>2, <1>3, <1>4 DEF Listing

\* A listing that stops, with its server, leaves a well typed state.
LEMMA StopsListingShape ==
  ASSUME Shape, NEW i \in Indexers, StopsListing(i)
  PROVE  /\ lister' \in Listings
         /\ lister'.pc = "formats" => lister'.name \in Names
  BY NoListingTyping DEF StopsListing, Shape, TypeOK, NoListing

\* The deletion of a bucket at the end of a request.
LEMMA DeleteJobShape ==
  ASSUME TypeOK, NEW i \in Indexers, DeleteJob(i)
  PROVE  /\ disk' \in [Indexers -> SUBSET Buckets]
         /\ homes' = homes /\ archive' = archive
         /\ lost' = lost /\ renamed' = renamed /\ faults' \in 0..MaxFaults
  BY FaultTyping DEF TypeOK, DeleteJob, envVars

\* The steps of a request to archive keep the shape of the state.
LEMMA WorkerShape ==
  ASSUME Shape, NEW i \in Indexers,
         \/ \E b \in Buckets : ArchiveOriginal(i, b) \/ ArchiveReplica(i, b)
         \/ LocateOrigin(i) \/ AskServerName(i) \/ LookupThrows(i)
         \/ \E f \in Formats : SkipArchived(i, f) \/ MakeHome(i, f)
         \/ RenameToArchive(i) \/ TransferThrows(i) \/ LoopThrows(i) \/ Finish(i)
  PROVE  Shape'
  <1> USE ClusterAssumption
  <1>0. SharedName(i) \in Names
    BY SharedNames DEF Shape
  <1>1. ASSUME NEW b \in Buckets, ArchiveOriginal(i, b) PROVE Shape'
    BY <1>0, <1>1
    DEF ArchiveOriginal, Shares, Shape, TypeOK, WorkerInv, dataVars, envVars
  <1>2. ASSUME NEW b \in Buckets, ArchiveReplica(i, b) PROVE Shape'
    BY <1>0, <1>2
    DEF ArchiveReplica, Shares, Shape, TypeOK, WorkerInv, dataVars, envVars
  <1>3. ASSUME LocateOrigin(i) PROVE Shape'
    BY <1>3
    DEF LocateOrigin, Goto, Shape, TypeOK, WorkerInv, configVars, dataVars, envVars
  <1>4. ASSUME AskServerName(i) PROVE Shape'
    BY <1>4
    DEF AskServerName, Goto, Shape, TypeOK, WorkerInv, configVars, dataVars, envVars
  <1>5. ASSUME LookupThrows(i) PROVE Shape'
    <2>1. /\ disk' \in [Indexers -> SUBSET Buckets]
          /\ homes' = homes /\ archive' = archive
          /\ lost' = lost /\ renamed' = renamed /\ faults' \in 0..MaxFaults
      <3>1. CASE DeleteJob(i)
        BY <3>1, DeleteJobShape DEF Shape
      <3>2. CASE /\ Fault("lookup")
                 /\ disk' = [disk EXCEPT ![i] = @ \ {job[i]}]
                 /\ UNCHANGED <<homes, archive>>
        BY <3>2, FaultTyping DEF Shape, TypeOK
      <3> QED BY <1>5, <3>1, <3>2 DEF LookupThrows
    <2> QED BY <1>5, <2>1, EndsShape DEF LookupThrows, Shape, TypeOK, configVars
  <1>6. ASSUME NEW f \in Formats, SkipArchived(i, f) PROVE Shape'
    BY <1>6 DEF SkipArchived, Shape, TypeOK, WorkerInv, configVars, dataVars, envVars
  <1>7. ASSUME NEW f \in Formats, MakeHome(i, f) PROVE Shape'
    BY <1>7 DEF MakeHome, Goto, Shape, TypeOK, WorkerInv, configVars, envVars
  <1>8. ASSUME RenameToArchive(i) PROVE Shape'
    BY <1>8 DEF RenameToArchive, Goto, Shape, TypeOK, WorkerInv, configVars, envVars
  <1>9. ASSUME TransferThrows(i) PROVE Shape'
    BY <1>9, FaultTyping
    DEF TransferThrows, Goto, Shape, TypeOK, WorkerInv, configVars, dataVars
  <1>10. ASSUME Finish(i) PROVE Shape'
    <2>1. /\ disk' \in [Indexers -> SUBSET Buckets]
          /\ homes' = homes /\ archive' = archive
          /\ lost' = lost /\ renamed' = renamed /\ faults' \in 0..MaxFaults
      BY <1>10, DeleteJobShape DEF Finish, Shape, TypeOK, dataVars, envVars
    <2> QED BY <1>10, <2>1, EndsShape DEF Finish, Shape, TypeOK, configVars
  <1>11. ASSUME LoopThrows(i) PROVE Shape'
    BY <1>11, EndsShape, FaultTyping
    DEF LoopThrows, Shape, TypeOK, configVars, dataVars
  <1> QED BY <1>1, <1>2, <1>3, <1>4, <1>5, <1>6, <1>7, <1>8, <1>9, <1>10, <1>11

\* Changes of the configuration, restarts and losses keep the shape.
LEMMA ConfigShape ==
  ASSUME Shape, NEW i \in Indexers,
         \/ Evict(i) \/ Save(i) \/ Refresh(i) \/ Restart(i) \/ Lose(i)
         \/ \E n \in Names : SetServerName(i, n)
  PROVE  Shape'
  <1>1. ASSUME Evict(i) \/ Save(i) \/ Refresh(i) PROVE Shape'
    BY <1>1 DEF Evict, Save, Refresh, Shape, TypeOK, WorkerInv, dataVars,
                workerVars, envVars
  <1>2. ASSUME NEW n \in Names, SetServerName(i, n) PROVE Shape'
    BY <1>2 DEF SetServerName, Shape, TypeOK, WorkerInv, dataVars, workerVars
  <1>3. ASSUME Restart(i) PROVE Shape'
    BY <1>3, EndsShape, StopsListingShape, FaultTyping
    DEF Restart, Shape, TypeOK, dataVars
  <1>4. ASSUME Lose(i) PROVE Shape'
    BY <1>4, EndsShape, StopsListingShape, ClusterAssumption
    DEF Lose, Shape, TypeOK, configVars
  <1> QED BY <1>1, <1>2, <1>3, <1>4

\* Types, and where a worker has a bucket, a name and a format.
LEMMA ShapeInvariance == Spec => []Shape
  <1>1. Init => Shape
    BY ClusterAssumption, NoListingTyping
    DEF Init, Shape, TypeOK, WorkerInv, NoListing
  <1>2. Shape /\ [Next]_vars => Shape'
    <2>1. ASSUME Shape, Next PROVE Shape'
      BY <2>1, NextCases, ListingShape, WorkerShape, ConfigShape
    <2>2. ASSUME Shape, UNCHANGED vars PROVE Shape'
      BY <2>2 DEF vars, configVars, dataVars, workerVars, envVars, Shape, TypeOK,
                  WorkerInv
    <2> QED BY <2>1, <2>2
  <1> QED BY <1>1, <1>2, PTL DEF Spec

\* The variables keep their types.
THEOREM ClusterTyping == Spec => []TypeOK
  <1>1. Shape => TypeOK
    BY DEF Shape
  <1> QED BY <1>1, ShapeInvariance, PTL

-----------------------------------------------------------------------------
(***************************************************************************)
(* Server names                                                            *)
(***************************************************************************)

\* Unless an indexer was renamed, everyone who knows its name knows the same
\* one: the file, the MBean and the shared configuration of the indexer, ...
ConfigName(i) ==
  i \notin renamed =>
    file[i] = NameOf[i] /\ mbean[i] = NameOf[i] /\ shared[i] \in {NoName, NameOf[i]}

\* ... the server that archives a bucket of it, ...
WorkerName(i) ==
  pc[i] \in {"loop", "rename"} /\ OriginOf[job[i]] \notin renamed =>
    name[i] = NameOf[OriginOf[job[i]]]

\* ... and the archive.
ArchiveName(b) ==
  OriginOf[b] \notin renamed =>
    \A n \in Names : archive[n][b] # {} => n = NameOf[OriginOf[b]]

NameInv ==
  /\ \A i \in Indexers : ConfigName(i) /\ WorkerName(i)
  /\ \A b \in Buckets : ArchiveName(b)

\* The shared configuration that is made has the name of the MBean, so the same.
LEMMA SharedIsNameOf ==
  ASSUME TypeOK, NEW i \in Indexers, ConfigName(i), i \notin renamed
  PROVE  SharedName(i) = NameOf[i]
  BY DEF TypeOK, ConfigName, SharedName

\* A request that ends leaves the names of the others' requests.
LEMMA EndsNames ==
  ASSUME Shape, NameInv, NEW i \in Indexers, Ends(i), renamed' = renamed
  PROVE  \A j \in Indexers : WorkerName(j)'
  BY DEF Shape, TypeOK, NameInv, WorkerName, Ends

\* A request to archive keeps to the name that its bucket's indexer has.
LEMMA WorkerNames ==
  ASSUME Shape, NameInv, NEW i \in Indexers,
         \/ \E b \in Buckets : ArchiveOriginal(i, b) \/ ArchiveReplica(i, b)
         \/ LocateOrigin(i) \/ AskServerName(i) \/ LookupThrows(i)
         \/ \E f \in Formats : SkipArchived(i, f) \/ MakeHome(i, f)
         \/ RenameToArchive(i) \/ TransferThrows(i) \/ LoopThrows(i) \/ Finish(i)
  PROVE  NameInv'
  <1> USE ClusterAssumption DEF NameInv
  <1>0. /\ i \notin renamed => SharedName(i) = NameOf[i]
        /\ SharedName(i) \in Names
    BY SharedIsNameOf, SharedNames DEF Shape
  <1>1. ASSUME NEW b \in Buckets, ArchiveOriginal(i, b) PROVE NameInv'
    BY <1>0, <1>1
    DEF ArchiveOriginal, Shares, Shape, TypeOK, ConfigName, WorkerName,
        ArchiveName, dataVars, envVars
  <1>2. ASSUME NEW b \in Buckets, ArchiveReplica(i, b) PROVE NameInv'
    BY <1>0, <1>2
    DEF ArchiveReplica, Shares, Shape, TypeOK, ConfigName, WorkerName,
        ArchiveName, dataVars, envVars
  <1>3. ASSUME LocateOrigin(i) PROVE NameInv'
    BY <1>3 DEF LocateOrigin, Goto, Shape, TypeOK, ConfigName, WorkerName,
                ArchiveName, configVars, dataVars, envVars
  <1>4. ASSUME AskServerName(i) PROVE NameInv'
    <2>1. OriginOf[job[i]] \in Indexers
      BY <1>4 DEF AskServerName, Goto, Shape, WorkerInv
    <2> QED BY <1>4, <2>1
            DEF AskServerName, Goto, Shape, TypeOK, ConfigName, WorkerName,
                ArchiveName, configVars, dataVars, envVars
  <1>5. ASSUME LookupThrows(i) PROVE NameInv'
    <2>1. renamed' = renamed /\ archive' = archive
      BY <1>5, DeleteJobShape DEF LookupThrows, Fault, Shape
    <2> QED BY <1>5, <2>1, EndsNames
            DEF LookupThrows, ConfigName, ArchiveName, configVars
  <1>6. ASSUME NEW f \in Formats, SkipArchived(i, f) \/ MakeHome(i, f) PROVE NameInv'
    BY <1>6 DEF SkipArchived, MakeHome, Goto, Shape, TypeOK, ConfigName, WorkerName,
                ArchiveName, configVars, dataVars, envVars
  <1>7. ASSUME RenameToArchive(i) PROVE NameInv'
    <2>1. job[i] \in Buckets /\ name[i] \in Names
      BY <1>7 DEF RenameToArchive, Goto, Shape, WorkerInv
    <2>2. ASSUME NEW b \in Buckets PROVE ArchiveName(b)'
      BY <1>7, <2>1
      DEF RenameToArchive, Goto, Shape, TypeOK, WorkerName, ArchiveName, envVars
    <2>3. ASSUME NEW j \in Indexers PROVE ConfigName(j)' /\ WorkerName(j)'
      BY <1>7 DEF RenameToArchive, Goto, Shape, TypeOK, ConfigName, WorkerName,
                  configVars, envVars
    <2> QED BY <2>2, <2>3
  <1>8. ASSUME TransferThrows(i) PROVE NameInv'
    BY <1>8 DEF TransferThrows, Goto, Fault, Shape, TypeOK, ConfigName, WorkerName,
                ArchiveName, configVars, dataVars
  <1>9. ASSUME Finish(i) PROVE NameInv'
    <2>1. renamed' = renamed /\ archive' = archive
      BY <1>9, DeleteJobShape DEF Finish, Shape, dataVars, envVars
    <2> QED BY <1>9, <2>1, EndsNames DEF Finish, ConfigName, ArchiveName, configVars
  <1>10. ASSUME LoopThrows(i) PROVE NameInv'
    BY <1>10, EndsNames DEF LoopThrows, Fault, ConfigName, ArchiveName, configVars,
                            dataVars
  <1> QED BY <1>1, <1>2, <1>3, <1>4, <1>5, <1>6, <1>7, <1>8, <1>9, <1>10

\* Saving, evicting and restarting keep to the name; a renaming is excepted.
LEMMA ConfigNames ==
  ASSUME Shape, NameInv, NEW i \in Indexers,
         \/ Evict(i) \/ Save(i) \/ Refresh(i) \/ Restart(i) \/ Lose(i)
         \/ \E n \in Names : SetServerName(i, n)
  PROVE  NameInv'
  <1> USE DEF NameInv
  <1>1. ASSUME Evict(i) \/ Save(i) \/ Refresh(i) PROVE NameInv'
    BY <1>1 DEF Evict, Save, Refresh, Shape, TypeOK, ConfigName, WorkerName,
                ArchiveName, dataVars, workerVars, envVars
  <1>2. ASSUME NEW n \in Names, SetServerName(i, n) PROVE NameInv'
    BY <1>2 DEF SetServerName, Shape, TypeOK, ConfigName, WorkerName, ArchiveName,
                dataVars, workerVars
  <1>3. ASSUME Restart(i) PROVE NameInv'
    <2>1. renamed' = renamed /\ archive' = archive
      BY <1>3 DEF Restart, Fault, dataVars
    <2> QED BY <1>3, <2>1, EndsNames DEF Restart, Shape, TypeOK, ConfigName, ArchiveName
  <1>4. ASSUME Lose(i) PROVE NameInv'
    BY <1>4, EndsNames DEF Lose, ConfigName, ArchiveName, configVars
  <1> QED BY <1>1, <1>2, <1>3, <1>4

\* A listing changes no name but may bring the cached one back.
LEMMA ListingNames ==
  ASSUME Shape, NameInv, Listing
  PROVE  NameInv'
  <1> USE DEF NameInv
  <1>1. ASSUME NEW i \in Listers, NEW range \in Ranges, NEW priority \in Priorities,
               BeginListing(i, range, priority)
        PROVE  NameInv'
    <2>1. i \in Indexers /\ (i \notin renamed => SharedName(i) = NameOf[i])
      BY SharedIsNameOf, ClusterAssumption DEF Shape
    <2> QED BY <1>1, <2>1
            DEF BeginListing, Shares, Shape, TypeOK, ConfigName, WorkerName,
                ArchiveName, dataVars, workerVars, envVars
  <1>2. ASSUME \/ Respond
               \/ \E b \in Buckets : ResolveFormat(b) \/ ListFormatsThrows(b)
        PROVE  NameInv'
    BY <1>2 DEF Respond, ResolveFormat, ListFormatsThrows, Fault, ConfigName,
                WorkerName, ArchiveName, configVars, dataVars, workerVars, envVars
  <1> QED BY <1>1, <1>2 DEF Listing

\* All who know the name of an indexer know the same one.
LEMMA NameInvariance == Spec => []NameInv
  <1>1. Init => NameInv
    BY DEF Init, NameInv, ConfigName, WorkerName, ArchiveName
  <1>2. Shape /\ NameInv /\ [Next]_vars => NameInv'
    <2>1. ASSUME Shape, NameInv, Next PROVE NameInv'
      BY <2>1, NextCases, WorkerNames, ConfigNames, ListingNames
    <2>2. ASSUME NameInv, UNCHANGED vars PROVE NameInv'
      BY <2>2 DEF vars, configVars, dataVars, workerVars, envVars, NameInv,
                  ConfigName, WorkerName, ArchiveName
    <2> QED BY <2>1, <2>2
  <1> QED BY <1>1, <1>2, ShapeInvariance, PTL DEF Spec

\* Whoever archives a bucket or a replica of it archives it in one place, unless
\* its own indexer is renamed (GetsServerNameForBucket).
THEOREM ClusterArchivesInOnePlace == Spec => []OneLocation
  <1>1. NameInv => OneLocation
    BY DEF NameInv, ArchiveName, OneLocation
  <1> QED BY <1>1, NameInvariance, PTL

-----------------------------------------------------------------------------
(***************************************************************************)
(* Originals                                                               *)
(***************************************************************************)

\* A server that archives an original has each format of it before it, under
\* way, failed, or in the archive.
Accounted(i) ==
  pc[i] \in {"loop", "rename"} /\ OriginOf[job[i]] = i =>
    \A f \in FormatsOf[i] :
      \/ f \in todo[i]
      \/ pc[i] = "rename" /\ f = format[i]
      \/ failed[i]
      \/ f \in archive[name[i]][job[i]]

AllAccounted == \A i \in Indexers : Accounted(i)

\* A request that ends leaves the others' to account for.
LEMMA EndsAccounts ==
  ASSUME Shape, AllAccounted, NEW i \in Indexers, Ends(i), archive' = archive
  PROVE  AllAccounted'
  BY DEF Shape, TypeOK, AllAccounted, Accounted, Ends

\* A step that leaves the workers alone leaves what they account for.
LEMMA OthersAccount ==
  ASSUME AllAccounted, UNCHANGED workerVars, archive' = archive
  PROVE  AllAccounted'
  BY DEF AllAccounted, Accounted, workerVars

\* Each format of an original is before its worker, under way, or settled.
LEMMA AccountedStep ==
  ASSUME Shape, AllAccounted, Next
  PROVE  AllAccounted'
  <1>1. ASSUME NEW i \in Indexers, NEW b \in Buckets,
               ArchiveOriginal(i, b) \/ ArchiveReplica(i, b)
        PROVE  AllAccounted'
    <2>1. ASSUME NEW j \in Indexers, j # i PROVE Accounted(j)'
      BY <1>1, <2>1 DEF ArchiveOriginal, ArchiveReplica, Shape, TypeOK,
                        AllAccounted, Accounted, dataVars
    <2>2. CASE ArchiveOriginal(i, b)
      <3>1. todo'[i] = FormatsOf[i]
        BY <2>2 DEF ArchiveOriginal, Shape, TypeOK
      <3> QED BY <2>1, <3>1 DEF AllAccounted, Accounted
    <2>3. CASE ArchiveReplica(i, b)
      <3>1. pc'[i] = "locate"
        BY <2>3 DEF ArchiveReplica, Shape, TypeOK
      <3> QED BY <2>1, <3>1 DEF AllAccounted, Accounted
    <2> QED BY <1>1, <2>2, <2>3
  <1>2. ASSUME NEW i \in Indexers, LocateOrigin(i) \/ AskServerName(i)
        PROVE  AllAccounted'
    BY <1>2 DEF LocateOrigin, AskServerName, Goto, Shape, TypeOK, WorkerInv,
                AllAccounted, Accounted, dataVars
  <1>3. ASSUME NEW i \in Indexers, NEW f \in Formats, SkipArchived(i, f)
        PROVE  AllAccounted'
    BY <1>3 DEF SkipArchived, Shape, TypeOK, AllAccounted, Accounted, dataVars
  <1>4. ASSUME NEW i \in Indexers, NEW f \in Formats, MakeHome(i, f)
        PROVE  AllAccounted'
    BY <1>4 DEF MakeHome, Goto, Shape, TypeOK, AllAccounted, Accounted
  <1>5. ASSUME NEW i \in Indexers, RenameToArchive(i) PROVE AllAccounted'
    <2>1. job[i] \in Buckets /\ name[i] \in Names
      BY <1>5 DEF RenameToArchive, Goto, Shape, WorkerInv
    <2>2. ASSUME NEW n \in Names, NEW b \in Buckets
          PROVE  archive[n][b] \subseteq archive'[n][b]
      BY <1>5, <2>1 DEF RenameToArchive, Shape, TypeOK
    <2>3. format[i] \in archive'[name[i]][job[i]]
      BY <1>5, <2>1 DEF RenameToArchive, Shape, TypeOK
    <2>4. ASSUME NEW j \in Indexers PROVE Accounted(j)'
      <3>1. CASE j = i
        BY <1>5, <2>1, <2>2, <2>3, <3>1
        DEF RenameToArchive, Goto, Shape, TypeOK, AllAccounted, Accounted
      <3>2. CASE j # i
        BY <1>5, <2>2, <3>2
        DEF RenameToArchive, Goto, Shape, TypeOK, WorkerInv, AllAccounted, Accounted
      <3> QED BY <3>1, <3>2
    <2> QED BY <2>4 DEF AllAccounted
  <1>6. ASSUME NEW i \in Indexers, TransferThrows(i) PROVE AllAccounted'
    BY <1>6 DEF TransferThrows, Goto, Shape, TypeOK, AllAccounted, Accounted, dataVars
  <1>7. ASSUME NEW i \in Indexers,
               \/ LookupThrows(i) \/ LoopThrows(i) \/ Finish(i)
               \/ Restart(i) \/ Lose(i)
        PROVE  AllAccounted'
    <2>1. archive' = archive /\ Ends(i)
      BY <1>7 DEF LookupThrows, LoopThrows, Finish, Restart, Lose, DeleteJob, dataVars
    <2> QED BY <2>1, EndsAccounts
  <1>8. ASSUME NEW i \in Indexers,
               Evict(i) \/ Save(i) \/ Refresh(i) \/ \E n \in Names : SetServerName(i, n)
        PROVE  AllAccounted'
    BY <1>8, OthersAccount DEF Evict, Save, Refresh, SetServerName, dataVars
  <1>9. ASSUME Listing PROVE AllAccounted'
    BY <1>9, OthersAccount
    DEF Listing, BeginListing, Respond, ResolveFormat, ListFormatsThrows, dataVars
  <1> QED BY NextCases, <1>1, <1>2, <1>3, <1>4, <1>5, <1>6, <1>7, <1>8, <1>9

\* What is archived in every format of its indexer, where that one may look for it.
Safe(b) ==
  \E n \in Names : /\ n = NameOf[OriginOf[b]] \/ OriginOf[b] \in renamed
                   /\ FormatsOf[OriginOf[b]] \subseteq archive[n][b]

\* Nothing leaves the archive, and who was renamed or lost stays so.
LEMMA ArchiveGrows ==
  ASSUME Shape, Next
  PROVE  /\ \A n \in Names, b \in Buckets : archive[n][b] \subseteq archive'[n][b]
         /\ renamed \subseteq renamed' /\ lost \subseteq lost'
  <1>1. ASSUME NEW i \in Indexers, RenameToArchive(i)
        PROVE  \A n \in Names, b \in Buckets : archive[n][b] \subseteq archive'[n][b]
    <2>1. job[i] \in Buckets /\ name[i] \in Names
      BY <1>1 DEF RenameToArchive, Goto, Shape, WorkerInv
    <2> QED BY <1>1, <2>1 DEF RenameToArchive, Shape, TypeOK
  <1>2. archive' = archive \/ \E i \in Indexers : RenameToArchive(i)
    BY NextCases
    DEF ArchiveOriginal, ArchiveReplica, LocateOrigin, AskServerName, LookupThrows,
        SkipArchived, MakeHome, TransferThrows, LoopThrows, Finish, DeleteJob, Evict, Save,
        Refresh, Restart, Lose, SetServerName, Listing, BeginListing, Respond,
        ResolveFormat, ListFormatsThrows, dataVars
  <1>3. renamed \subseteq renamed' /\ lost \subseteq lost'
    BY NextCases
    DEF ArchiveOriginal, ArchiveReplica, LocateOrigin, AskServerName, LookupThrows,
        SkipArchived, MakeHome, RenameToArchive, TransferThrows, LoopThrows, Finish,
        DeleteJob, Fault, Evict, Save, Refresh, Restart, Lose, SetServerName, Listing,
        BeginListing, Respond, ResolveFormat, ListFormatsThrows, envVars
  <1> QED BY <1>1, <1>2, <1>3

\* What is archived where its indexer lists it stays so.
LEMMA SafeStays ==
  ASSUME Shape, Next, NEW b \in Buckets, Safe(b)
  PROVE  Safe(b)'
  BY ArchiveGrows DEF Safe

\* An original leaves its disk with the disk, or when it is archived.
LEMMA DeletedIsSafe ==
  ASSUME Shape, NameInv, AllAccounted, Next,
         NEW b \in Buckets, b \in disk[OriginOf[b]], b \notin disk'[OriginOf[b]]
  PROVE  OriginOf[b] \in lost' \/ Safe(b)
  <1> DEFINE o == OriginOf[b]
  <1>0. o \in Indexers
    BY ClusterAssumption
  <1>1. \E i \in Indexers : LookupThrows(i) \/ Finish(i) \/ Lose(i)
    BY NextCases
    DEF ArchiveOriginal, ArchiveReplica, LocateOrigin, AskServerName,
        SkipArchived, MakeHome, RenameToArchive, TransferThrows, LoopThrows, Evict, Save,
        Refresh, Restart, SetServerName, Listing, BeginListing, Respond,
        ResolveFormat, ListFormatsThrows, dataVars
  <1>2. ASSUME NEW i \in Indexers, Lose(i) PROVE o \in lost'
    BY <1>0, <1>2 DEF Lose, Shape, TypeOK
  <1>3. ASSUME NEW i \in Indexers, LookupThrows(i) PROVE FALSE
    <2>1. OriginOf[job[i]] # i
      BY <1>3 DEF LookupThrows, Shape, WorkerInv
    <2>2. disk' = disk \/ disk' = [disk EXCEPT ![i] = @ \ {job[i]}]
      BY <1>3 DEF LookupThrows, DeleteJob
    <2> QED BY <1>0, <2>1, <2>2 DEF Shape, TypeOK
  <1>4. ASSUME NEW i \in Indexers, Finish(i) PROVE Safe(b)
    <2>1. /\ ~failed[i]
          /\ disk' = disk \/ disk' = [disk EXCEPT ![i] = @ \ {job[i]}]
      BY <1>4 DEF Finish, DeleteJob, dataVars
    <2>2. i = o /\ job[i] = b
      BY <1>0, <2>1 DEF Shape, TypeOK
    <2>3. FormatsOf[o] \subseteq archive[name[i]][b]
      BY <1>4, <2>1, <2>2 DEF Finish, AllAccounted, Accounted
    <2>4. name[i] \in Names /\ (name[i] = NameOf[o] \/ o \in renamed)
      BY <1>4, <2>2 DEF Finish, Shape, WorkerInv, NameInv, WorkerName
    <2> QED BY <2>3, <2>4 DEF Safe
  <1> QED BY <1>1, <1>2, <1>3, <1>4

\* Workers account for all the formats of their originals.
LEMMA AccountedInvariance == Spec => []AllAccounted
  <1>1. Init => AllAccounted
    BY DEF Init, AllAccounted, Accounted
  <1>2. Shape /\ AllAccounted /\ [Next]_vars => AllAccounted'
    BY AccountedStep
    DEF vars, dataVars, workerVars, AllAccounted, Accounted
  <1> QED BY <1>1, <1>2, ShapeInvariance, PTL DEF Spec

\* The original of a bucket is there, or archived in every format of its indexer
\* and where that one lists it, unless the indexer is lost with it, whatever
\* becomes of replicas (ConfigProviderForBothNormalAndReplicatedBuckets).
THEOREM ClusterKeepsOriginals == Spec => []OriginalSurvives
  <1> DEFINE Kept ==
        \A b \in Buckets : OriginOf[b] \in lost \/ b \in disk[OriginOf[b]] \/ Safe(b)
  <1>1. Init => Kept
    <2> SUFFICES ASSUME Init, NEW b \in Buckets PROVE b \in disk[OriginOf[b]]
      OBVIOUS
    <2> QED BY ClusterAssumption DEF Init
  <1>2. Shape /\ NameInv /\ AllAccounted /\ Kept /\ [Next]_vars => Kept'
    <2>1. ASSUME Shape, NameInv, AllAccounted, Kept, Next PROVE Kept'
      <3>1. ASSUME NEW b \in Buckets
            PROVE  OriginOf[b] \in lost' \/ b \in disk'[OriginOf[b]] \/ Safe(b)'
        <4>1. CASE OriginOf[b] \in lost
          BY <2>1, <4>1, ArchiveGrows
        <4>2. CASE Safe(b)
          BY <2>1, <4>2, SafeStays
        <4>3. CASE b \in disk[OriginOf[b]]
          BY <2>1, <4>3, DeletedIsSafe, SafeStays
        <4> QED BY <2>1, <4>1, <4>2, <4>3
      <3> QED BY <3>1
    <2>2. ASSUME Kept, UNCHANGED vars PROVE Kept'
      BY <2>2 DEF vars, dataVars, envVars, Safe
    <2> QED BY <2>1, <2>2
  <1>3. Kept => OriginalSurvives
    BY DEF OriginalSurvives, Safe
  <1> QED BY <1>1, <1>2, <1>3, ShapeInvariance, NameInvariance, AccountedInvariance,
             PTL DEF Spec

-----------------------------------------------------------------------------
(***************************************************************************)
(* Which bucket and which format a listing takes                           *)
(***************************************************************************)

\* A range has no instant of a bucket if it is the wrong way round, and the test
\* by its ends is as good as looking for an instant.
LEMMA FilterIsOverlap ==
  ASSUME NEW b \in Buckets, NEW from \in Times, NEW to \in Times
  PROVE  from <= to /\ IsBucketWithinTimeRange(b, from, to)
           <=> Overlaps(b, from, to)
  <1> DEFINE t == IF from <= Span[b][1] THEN Span[b][1] ELSE from
  <1>1. /\ MaxTime \in Nat
        /\ Span[b][1] \in 0..MaxTime /\ Span[b][2] \in 0..MaxTime
        /\ Span[b][1] <= Span[b][2]
    BY SpanAssumption, SpanOrderAssumption
  <1>2. ASSUME from <= to, IsBucketWithinTimeRange(b, from, to)
        PROVE  Overlaps(b, from, to)
    <2>1. /\ t \in Times /\ from <= t /\ t <= to
          /\ Span[b][1] <= t /\ t <= Span[b][2]
      BY <1>1, <1>2 DEF IsBucketWithinTimeRange, Times
    <2> HIDE DEF t
    <2> QED BY <2>1 DEF Overlaps
  <1>3. ASSUME Overlaps(b, from, to)
        PROVE  from <= to /\ IsBucketWithinTimeRange(b, from, to)
    BY <1>1, <1>3 DEF Overlaps, IsBucketWithinTimeRange, Times
  <1> QED BY <1>2, <1>3

\* Of the first positions of a list some is the first where a set is met: else
\* one below another would always be met, and one step down would map the upper
\* part of the positions, a finite set, one-to-one into itself without its top.
LEMMA LeastPosition ==
  ASSUME NEW n \in Nat, NEW T \in SUBSET (1..n), T # {}
  PROVE  \E x \in T : \A y \in T : x <= y
  <1> SUFFICES ASSUME \A x \in T : \E y \in T : ~(x <= y)
               PROVE  FALSE
    OBVIOUS
  <1> DEFINE V == {v \in 1..n : \E x \in T : x <= v}
             down == [v \in V |-> v - 1]
  <1>1. n \in V
    <2>1. PICK x \in T : TRUE
      OBVIOUS
    <2>2. x <= n /\ n \in 1..n
      BY <2>1
    <2> QED BY <2>1, <2>2
  <1>2. IsFiniteSet(V) /\ Cardinality(V) \in Nat
    <2>1. IsFiniteSet(1..n) /\ V \in SUBSET (1..n)
      BY FS_Interval
    <2>2. IsFiniteSet(V)
      BY <2>1, FS_Subset
    <2> QED BY <2>2, FS_CardinalityType
  <1>3. ASSUME NEW v \in V PROVE v - 1 \in V \ {n}
    <2>1. PICK x \in T : x <= v
      OBVIOUS
    <2>2. PICK y \in T : ~(x <= y)
      OBVIOUS
    <2>3. y \in 1..n /\ v \in 1..n /\ x \in 1..n
      OBVIOUS
    <2>4. y <= v - 1 /\ v - 1 \in 1..n /\ v - 1 # n
      BY <2>1, <2>2, <2>3
    <2> QED BY <2>4
  <1>4. down \in [V -> V \ {n}]
    BY <1>3
  <1>5. IsFiniteSet(V \ {n}) /\ Cardinality(V \ {n}) < Cardinality(V)
    <2>1. IsFiniteSet(V \ {n}) /\ Cardinality(V \ {n}) = Cardinality(V) - 1
      BY <1>1, <1>2, FS_RemoveElement
    <2> QED BY <1>2, <2>1
  <1>6. PICK v, w \in V : v # w /\ down[v] = down[w]
    <2> HIDE DEF V, down
    <2> QED BY <1>2, <1>4, <1>5, FS_PigeonHole
  <1>7. v - 1 = w - 1 /\ v \in 1..n /\ w \in 1..n
    BY <1>6
  <1> QED BY <1>6, <1>7

\* The rank of a format in the list of priorities is its first position there.
LEMMA RankOfListed ==
  ASSUME NEW S, NEW priority \in Seq(S), NEW f,
         \E k \in DOMAIN priority : priority[k] = f
  PROVE  /\ Rank(f, priority) \in DOMAIN priority
         /\ priority[Rank(f, priority)] = f
         /\ \A k \in DOMAIN priority : priority[k] = f => Rank(f, priority) <= k
  <1> DEFINE T == {k \in DOMAIN priority : priority[k] = f}
  <1>1. Len(priority) \in Nat /\ DOMAIN priority = 1..Len(priority)
    OBVIOUS
  <1>2. T \in SUBSET (1..Len(priority)) /\ T # {}
    BY <1>1
  <1>3. PICK x \in T : \A y \in T : x <= y
    <2> HIDE DEF T
    <2> QED BY <1>1, <1>2, LeastPosition
  <1>4. x \in DOMAIN priority /\ priority[x] = f
    OBVIOUS
  <1>5. \A j \in 1..(x - 1) : priority[j] # f
    BY <1>1, <1>3, <1>4
  <1>6. PICK r : /\ r = Rank(f, priority)
                 /\ r \in DOMAIN priority /\ priority[r] = f
                 /\ \A j \in 1..(r - 1) : priority[j] # f
    BY <1>4, <1>5 DEF Rank
  <1> QED BY <1>1, <1>6

\* One that is not there comes after all of them.
LEMMA RankOfOther ==
  ASSUME NEW S, NEW priority \in Seq(S), NEW f,
         \A k \in DOMAIN priority : priority[k] # f
  PROVE  Rank(f, priority) = IF f = Default THEN Len(priority) + 1
                                            ELSE Len(priority) + 2
  BY DEF Rank

\* What the chooser takes is available, and nothing that is ranks before it.
LEMMA ChosenIsBest ==
  ASSUME NEW S, NEW priority \in Seq(S),
         NEW available \in SUBSET Formats, available # {},
         NEW f \in ChooseBucketFormat(available, priority)
  PROVE  /\ f \in available
         /\ \A g \in available : Rank(f, priority) <= Rank(g, priority)
  <1>0. Len(priority) \in Nat /\ DOMAIN priority = 1..Len(priority)
    OBVIOUS
  <1>1. CASE Prioritized(available, priority) # {}
    <2>1. PICK k \in Prioritized(available, priority) :
            /\ f = priority[k]
            /\ \A j \in Prioritized(available, priority) : k <= j
      BY <1>1 DEF ChooseBucketFormat
    <2>2. k \in 1..Len(priority) /\ f \in available
      BY <1>0, <2>1 DEF Prioritized
    <2>3. Rank(f, priority) \in 1..Len(priority) /\ Rank(f, priority) <= k
      BY <1>0, <2>1, <2>2, RankOfListed
    <2>4. ASSUME NEW g \in available PROVE Rank(f, priority) <= Rank(g, priority)
      <3>1. CASE \E j \in DOMAIN priority : priority[j] = g
        <4>1. /\ Rank(g, priority) \in 1..Len(priority)
              /\ priority[Rank(g, priority)] = g
          BY <1>0, <3>1, RankOfListed
        <4>2. k <= Rank(g, priority)
          BY <1>0, <2>1, <4>1 DEF Prioritized
        <4> QED BY <1>0, <2>2, <2>3, <4>1, <4>2
      <3>2. CASE \A j \in DOMAIN priority : priority[j] # g
        BY <1>0, <2>3, <3>2, RankOfOther
      <3> QED BY <3>1, <3>2
    <2> QED BY <2>2, <2>4
  <1>2. CASE Prioritized(available, priority) = {}
    <2>1. ASSUME NEW g \in available
          PROVE  Rank(g, priority) = IF g = Default THEN Len(priority) + 1
                                                    ELSE Len(priority) + 2
      BY <1>2, RankOfOther DEF Prioritized
    <2>2. f \in available /\ (Default \in available => f = Default)
      BY <1>2 DEF ChooseBucketFormat
    <2> QED BY <1>0, <2>1, <2>2
  <1> QED BY <1>1, <1>2

-----------------------------------------------------------------------------
(***************************************************************************)
(* A listing while others archive                                          *)
(***************************************************************************)

\* A bucket that has a format in the archive has a directory there, which a
\* transfer makes before it moves the format.
HomeInv ==
  /\ \A n \in Names, b \in Buckets : archive[n][b] # {} => <<n, b>> \in homes
  /\ \A i \in Indexers : pc[i] = "rename" => <<name[i], job[i]>> \in homes

\* What is said of an entry of a finished listing is true of it from the start.
FoundIsTrue(e) ==
  /\ Overlaps(e.bucket, lister.from, lister.to)
  /\ e.format # Unknown => e.format \in archive[lister.name][e.bucket]
  /\ e.format = Unknown /\ e.read => lister.before[e.bucket] = {}
  /\ e.read => \A f \in lister.before[e.bucket] :
                 Rank(e.format, lister.priority) <= Rank(f, lister.priority)

\* What was archived when the listing began still is, and each bucket of it has
\* been found or will be.
ListInv ==
  lister.pc = "formats" =>
    /\ \A e \in lister.found : FoundIsTrue(e)
    /\ \A b \in lister.todo : Overlaps(b, lister.from, lister.to)
    /\ \A b \in Buckets :
         /\ lister.before[b] \subseteq archive[lister.name][b]
         /\ lister.before[b] # {} =>
              b \in lister.todo \/ \E e \in lister.found : e.bucket = b

\* A step of others keeps a listing true, or the listing ends.
LEMMA ListingStays ==
  ASSUME Shape, ListInv, Next, lister' = lister \/ lister' = NoListing
  PROVE  ListInv'
  <1>1. CASE lister' = NoListing
    BY <1>1 DEF ListInv, NoListing
  <1>2. CASE lister' = lister
    <2> SUFFICES ASSUME lister.pc = "formats"
                 PROVE  /\ \A e \in lister.found : FoundIsTrue(e)'
                        /\ \A b \in Buckets :
                             lister.before[b] \subseteq archive'[lister.name][b]
      BY <1>2 DEF ListInv
    <2>1. \A b \in Buckets : archive[lister.name][b] \subseteq archive'[lister.name][b]
      BY ArchiveGrows DEF Shape
    <2>2. ASSUME NEW e \in lister.found PROVE FoundIsTrue(e)'
      <3>1. e.bucket \in Buckets
        BY DEF Shape, TypeOK, Listings, Listed
      <3> QED BY <1>2, <2>1, <2>2, <3>1 DEF ListInv, FoundIsTrue
    <2> QED BY <2>1, <2>2 DEF ListInv
  <1> QED BY <1>1, <1>2

\* A listing begins with the buckets of the range (BucketFilter.java).
LEMMA BeginningIsTrue ==
  ASSUME Shape, HomeInv, NEW i \in Listers, NEW range \in Ranges,
         NEW priority \in Priorities,
         BeginListing(i, range, priority)
  PROVE  ListInv'
  <1> DEFINE n == SharedName(i)
             from == Convert(range[1])
             to == Convert(range[2])
  <1>1. n \in Names
    BY SharedNames, ClusterAssumption DEF Shape
  <1>2. from \in Times /\ to \in Times
    BY ClusterAssumption
  <1>3. /\ lister'.name = n /\ lister'.from = from /\ lister'.to = to
        /\ lister'.todo = FilterBuckets({b \in Buckets : <<n, b>> \in homes}, from, to)
        /\ lister'.found = {}
        /\ lister'.before = [b \in Buckets |->
                               IF Overlaps(b, from, to) THEN archive[n][b] ELSE {}]
        /\ archive' = archive
    BY DEF BeginListing, dataVars
  <1> HIDE DEF n, from, to
  <1>4. \A b \in Buckets : b \in lister'.todo <=>
          <<n, b>> \in homes /\ Overlaps(b, from, to)
    <2>1. from > to <=> ~(from <= to)
      BY <1>2, SpanAssumption DEF Times
    <2>2. \A b \in Buckets : from <= to /\ IsBucketWithinTimeRange(b, from, to)
                              <=> Overlaps(b, from, to)
      BY <1>2, FilterIsOverlap
    <2> QED BY <1>3, <2>1, <2>2 DEF FilterBuckets
  <1>5. \A b \in lister'.todo : b \in Buckets
    BY <1>3 DEF FilterBuckets
  <1>6. \A b \in Buckets : archive[n][b] # {} => <<n, b>> \in homes
    BY <1>1 DEF HomeInv
  <1> QED BY <1>3, <1>4, <1>5, <1>6 DEF ListInv

\* A bucket is found with the format that the chooser takes of what the archive
\* has of it, or of nothing.
LEMMA FindingIsTrue ==
  ASSUME Shape, ListInv, lister.pc = "formats", NEW b \in lister.todo,
         NEW read \in BOOLEAN, NEW available,
         available = IF read THEN archive[lister.name][b] ELSE {},
         NEW f \in ChooseBucketFormat(available, lister.priority),
         Finds(b, f, read), archive' = archive
  PROVE  ListInv'
  <1> DEFINE e == [bucket |-> b, format |-> f, read |-> read]
  <1>1. b \in Buckets /\ lister.before[b] \subseteq archive[lister.name][b]
    BY DEF Shape, TypeOK, Listings, ListInv
  <1>2. available \in SUBSET Formats
    BY <1>1 DEF Shape, TypeOK
  <1>3. lister.priority \in Seq(Formats \cup {Unknown})
    <2>1. lister.priority \in Priorities \cup {<<>>}
      BY DEF Shape, TypeOK, Listings
    <2>2. <<>> \in Seq(Formats \cup {Unknown})
      OBVIOUS
    <2> QED BY <2>1, <2>2, ClusterAssumption
  <1>4. lister' = [lister EXCEPT !.todo = @ \ {b}, !.found = @ \cup {e}]
    BY DEF Finds
  <1>5. /\ lister'.todo = lister.todo \ {b} /\ lister'.found = lister.found \cup {e}
        /\ lister'.name = lister.name /\ lister'.before = lister.before
        /\ lister'.from = lister.from /\ lister'.to = lister.to
        /\ lister'.priority = lister.priority
    BY <1>4 DEF Shape, TypeOK, Listings
  <1>6. /\ f # Unknown => f \in archive[lister.name][b]
        /\ f = Unknown /\ read => lister.before[b] = {}
        /\ read => \A g \in lister.before[b] :
                     Rank(f, lister.priority) <= Rank(g, lister.priority)
    <2>1. CASE available = {}
      BY <1>1, <2>1 DEF ChooseBucketFormat
    <2>2. CASE available # {}
      <3>1. /\ f \in available /\ f # Unknown
            /\ \A g \in available : Rank(f, lister.priority) <= Rank(g, lister.priority)
        BY <1>2, <1>3, <2>2, ChosenIsBest, UnknownAssumption
      <3> QED BY <1>1, <2>2, <3>1
    <2> QED BY <2>1, <2>2
  <1>7. FoundIsTrue(e)'
    <2>1. Overlaps(b, lister.from, lister.to)
      BY DEF ListInv
    <2>2. e.bucket = b /\ e.format = f /\ e.read = read
      OBVIOUS
    <2>3. e.read => read
      OBVIOUS
    <2> HIDE DEF e
    <2> QED BY <1>5, <1>6, <2>1, <2>2, <2>3 DEF FoundIsTrue
  <1>8. ASSUME NEW d \in lister.found PROVE FoundIsTrue(d)'
    <2>1. FoundIsTrue(d)
      BY DEF ListInv
    <2> QED BY <1>5, <2>1 DEF FoundIsTrue
  <1>9. e.bucket = b
    OBVIOUS
  <1> HIDE DEF e
  <1> QED BY <1>5, <1>7, <1>8, <1>9 DEF ListInv

\* A bucket's directory is there before a format of it is.
LEMMA HomeStep ==
  ASSUME Shape, HomeInv, Next
  PROVE  HomeInv'
  <1>1. ASSUME NEW i \in Indexers, RenameToArchive(i) PROVE HomeInv'
    <2>1. job[i] \in Buckets /\ name[i] \in Names /\ <<name[i], job[i]>> \in homes
      BY <1>1 DEF RenameToArchive, Goto, Shape, WorkerInv, HomeInv
    <2>2. ASSUME NEW n \in Names, NEW b \in Buckets, archive'[n][b] # {}
          PROVE  <<n, b>> \in homes'
      BY <1>1, <2>1, <2>2 DEF RenameToArchive, Shape, TypeOK, HomeInv
    <2> QED BY <1>1, <2>2 DEF RenameToArchive, Goto, Shape, TypeOK, HomeInv
  <1>2. ASSUME NEW i \in Indexers, NEW f \in Formats, MakeHome(i, f) PROVE HomeInv'
    BY <1>2 DEF MakeHome, Goto, Shape, TypeOK, HomeInv
  <1>3. ASSUME NEW i \in Indexers, NEW b \in Buckets,
               ArchiveOriginal(i, b) \/ ArchiveReplica(i, b)
        PROVE  HomeInv'
    BY <1>3 DEF ArchiveOriginal, ArchiveReplica, Shape, TypeOK, HomeInv, dataVars
  <1>4. ASSUME NEW i \in Indexers,
               \/ LocateOrigin(i) \/ AskServerName(i) \/ TransferThrows(i)
               \/ \E f \in Formats : SkipArchived(i, f)
        PROVE  HomeInv'
    BY <1>4 DEF LocateOrigin, AskServerName, TransferThrows, SkipArchived, Goto,
                Shape, TypeOK, HomeInv, dataVars
  <1>5. ASSUME NEW i \in Indexers,
               \/ LookupThrows(i) \/ LoopThrows(i) \/ Finish(i)
               \/ Restart(i) \/ Lose(i)
        PROVE  HomeInv'
    <2>1. archive' = archive /\ homes' = homes /\ Ends(i)
      BY <1>5 DEF LookupThrows, LoopThrows, Finish, Restart, Lose, DeleteJob, dataVars
    <2> QED BY <2>1 DEF Ends, Shape, TypeOK, HomeInv
  <1>6. ASSUME \/ Listing
               \/ \E i \in Indexers : \/ Evict(i) \/ Save(i) \/ Refresh(i)
                                      \/ \E n \in Names : SetServerName(i, n)
        PROVE  HomeInv'
    BY <1>6 DEF Evict, Save, Refresh, SetServerName, Listing, BeginListing, Respond,
                ResolveFormat, ListFormatsThrows, HomeInv, dataVars, workerVars
  <1> QED BY NextCases, <1>1, <1>2, <1>3, <1>4, <1>5, <1>6

\* What a listing has found stays true while others archive.
LEMMA ListStep ==
  ASSUME Shape, HomeInv, ListInv, Next
  PROVE  ListInv'
  <1>1. ASSUME ~Listing \/ Respond PROVE lister' = lister \/ lister' = NoListing
    BY <1>1, NextCases
    DEF ArchiveOriginal, ArchiveReplica, LocateOrigin, AskServerName, LookupThrows,
        SkipArchived, MakeHome, RenameToArchive, TransferThrows, LoopThrows, Finish,
        Evict, Save, Refresh, Restart, Lose, StopsListing, SetServerName, Respond
  <1>2. ASSUME NEW b \in Buckets, ResolveFormat(b) PROVE ListInv'
    <2>1. PICK f \in ChooseBucketFormat(archive[lister.name][b], lister.priority) :
            Finds(b, f, TRUE)
      BY <1>2 DEF ResolveFormat
    <2>2. lister.pc = "formats" /\ b \in lister.todo /\ archive' = archive
      BY <1>2 DEF ResolveFormat, dataVars
    <2> QED BY <2>1, <2>2, FindingIsTrue
  <1>3. ASSUME NEW b \in Buckets, ListFormatsThrows(b) PROVE ListInv'
    <2>1. PICK f \in ChooseBucketFormat({}, lister.priority) : Finds(b, f, FALSE)
      BY <1>3 DEF ListFormatsThrows
    <2>2. lister.pc = "formats" /\ b \in lister.todo /\ archive' = archive
      BY <1>3 DEF ListFormatsThrows, dataVars
    <2> QED BY <2>1, <2>2, FindingIsTrue
  <1>4. ASSUME NEW i \in Listers, NEW range \in Ranges, NEW priority \in Priorities,
               BeginListing(i, range, priority)
        PROVE  ListInv'
    BY <1>4, BeginningIsTrue
  <1> QED BY <1>1, <1>2, <1>3, <1>4, ListingStays DEF Listing

\* What a listing has found, and what it has still to look at, is true.
LEMMA ListInvariance == Spec => [](HomeInv /\ ListInv)
  <1>1. Init => HomeInv /\ ListInv
    BY DEF Init, HomeInv, ListInv, NoListing
  <1>2. Shape /\ HomeInv /\ ListInv /\ [Next]_vars => (HomeInv /\ ListInv)'
    <2>1. ASSUME Shape, HomeInv, ListInv, Next PROVE HomeInv' /\ ListInv'
      BY <2>1, HomeStep, ListStep
    <2>2. ASSUME HomeInv, ListInv, UNCHANGED vars PROVE HomeInv' /\ ListInv'
      BY <2>2 DEF vars, dataVars, workerVars, HomeInv, ListInv, FoundIsTrue
    <2> QED BY <2>1, <2>2
  <1> QED BY <1>1, <1>2, ShapeInvariance, PTL DEF Spec

\* A listing that runs while buckets are archived, and while servers fail and are
\* renamed, has each bucket of the range that was archived when it began, in a
\* format that is archived and none of those then is better; and nothing else
\* (BucketFilter, BucketFormatResolver, BucketFormatChooser).
THEOREM ClusterListsTruly == Spec => []ListingIsTrue
  <1>1. ListInv => ListingIsTrue
    <2> SUFFICES ASSUME ListInv, lister.pc = "formats", lister.todo = {}
                 PROVE  ListingIsTrue
      BY DEF ListingIsTrue
    <2>1. \A e \in lister.found : FoundIsTrue(e)
      BY DEF ListInv
    <2>2. \A b \in Buckets : lister.before[b] # {} =>
            \E e \in lister.found : e.bucket = b
      BY DEF ListInv
    <2> QED BY <2>1, <2>2 DEF ListingIsTrue, FoundIsTrue
  <1> QED BY <1>1, ListInvariance, PTL
=============================================================================
