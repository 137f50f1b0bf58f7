---------------------------- MODULE ThawingProofs -----------------------------
(***************************************************************************)
(* Proofs about Thawing for any number of thawers, flushers, buckets and   *)
(* formats, any faults, and any bound on them.                             *)
(*                                                                         *)
(* The lock's part of the invariant says whose channel is open on which    *)
(* inode, and that no two thawers have a lock on the same one.  What is    *)
(* thawed follows from it only when a bucket is archived in one format:    *)
(* the lock is on the archived bucket, and the directory that it protects  *)
(* is that of the bucket's name.                                           *)
(***************************************************************************)
EXTENDS Thawing, TLAPS

\* What is in the archive came from the index.
Exported == \A b \in Buckets : archived[b] \subseteq FormatsOf[b]

\* A thawer that is busy with a bucket has one.
HasKey(t) == thawer[t] \notin {"idle", "next"} => at[t] \in Keys

\* The channel of a thawer is open on the inode that the lock path of its
\* bucket leads to: nobody deletes lock files while thawers run.
HasChannel(t) ==
  thawer[t] \notin {"idle", "next", "open"} =>
    opened[t] = link[at[t]] /\ opened[t] # NoInode

\* A thawer has its lock while it is at the bucket, and none before.
HasLock(t) ==
  /\ AtBucket(t) => mode[t] = "shared"
  /\ thawer[t] \in {"idle", "next", "open", "lock", "reshare"} =>
       mode[t] = "none"

\* No two thawers have a lock on the same inode, shared or not: they are
\* threads of one process.
Apart(s, t) ==
  opened[s] = opened[t] /\ mode[s] # "none" /\ mode[t] # "none" => s = t

\* Without the server there are no thawers.
DownIdle == ~up => \A t \in Thawers : thawer[t] = "idle"

LockInv ==
  /\ Exported
  /\ \A t \in Thawers : HasKey(t) /\ HasChannel(t) /\ HasLock(t)
  /\ \A s, t \in Thawers : Apart(s, t)
  /\ DownIdle

-----------------------------------------------------------------------------
(***************************************************************************)
(* Types                                                                   *)
(***************************************************************************)

\* Every operation on the thaw locks keeps their table well formed.
LEMMA ThawLockTyping ==
  ASSUME Locks!LocksTypeOK, NEW t \in Thawers,
         \/ UNCHANGED lockVars
         \/ \E k \in Keys : Locks!OpenLockFile(t, k)
         \/ \E m \in {"none", "shared", "exclusive"} : Locks!Lock(t, m)
         \/ Locks!CloseLock(t)
         \/ Locks!ExitProcess(Server)
  PROVE  Locks!LocksTypeOK'
  <1>1. CASE UNCHANGED lockVars
    BY <1>1 DEF Locks!LocksTypeOK, lockVars
  <1>2. ASSUME NEW k \in Keys, Locks!OpenLockFile(t, k)
        PROVE  Locks!LocksTypeOK'
    <2>1. Locks!InodeAt(k) \subseteq Inodes
      BY DEF Locks!InodeAt, Locks!FreeInodes, Locks!LocksTypeOK
    <2> QED BY <1>2, <2>1 DEF Locks!OpenLockFile, Locks!LocksTypeOK
  <1>3. ASSUME NEW m \in {"none", "shared", "exclusive"}, Locks!Lock(t, m)
        PROVE  Locks!LocksTypeOK'
    BY <1>3 DEF Locks!Lock, Locks!LocksTypeOK
  <1>4. CASE Locks!CloseLock(t)
    BY <1>4 DEF Locks!CloseLock, Locks!LocksTypeOK
  <1>5. CASE Locks!ExitProcess(Server)
    BY <1>5 DEF Locks!ExitProcess, Locks!LocksTypeOK
  <1> QED BY <1>1, <1>2, <1>3, <1>4, <1>5

\* The variables of the thawers.
ThawersTypeOK ==
  /\ thawer \in [Thawers -> ThawerSteps]
  /\ todo \in [Thawers -> SUBSET Keys]
  /\ at \in [Thawers -> Keys \cup {NoKey}]
  /\ outcome \in [Thawers -> {"none", "thawed", "failed", "skipped"}]

\* The variables of the flushers.
FlushersTypeOK ==
  /\ flusher \in [Flushers -> {"idle", "build", "delete", "tear"}]
  /\ flushing \in [Flushers -> SUBSET Buckets]
  /\ deleting \in [Flushers -> Buckets \cup {NoKey}]

\* The variables of the buckets, and of the bound.
StoreTypeOK ==
  /\ archived \in [Buckets -> SUBSET Formats]
  /\ local \subseteq Buckets
  /\ thaw \in [Buckets -> Contents]
  /\ temp \in [Keys -> {"absent", "part", "whole"}]
  /\ up \in BOOLEAN
  /\ faults \in 0..MaxFaults

\* The four parts of the type invariant.
LEMMA TypeParts ==
  TypeOK <=> Locks!LocksTypeOK /\ ThawersTypeOK /\ FlushersTypeOK /\ StoreTypeOK
  BY DEF TypeOK, ThawersTypeOK, FlushersTypeOK, StoreTypeOK

\* A format that is chosen for a bucket is one that it is archived in.
LEMMA ChosenIsArchived ==
  ASSUME NEW b \in Buckets, archived[b] # {}
  PROVE  Chosen(b) \in archived[b]
  BY DEF Chosen

\* A step of a thawer that takes it to its next step with the same bucket and
\* the same lock, or to the end with a bucket that has failed.
Proceeds(t) ==
  \/ Prepare(t)    \/ GetFile(t)          \/ EndCopyToLocal(t) \/ Commit(t)
  \/ Rename(t)     \/ TransferThrows(t)   \/ CleanTransaction(t)
  \/ CleanThrows(t) \/ Abort(t)           \/ Import(t)         \/ Unpack(t)
  \/ UnpackFails(t) \/ ResolveSize(t)     \/ ResolveSizeThrows(t)

\* The other steps of a thawer, which open, take and release the thaw lock.
LocksOrMoves(t) ==
  \/ \E range \in SUBSET Buckets : ListFiltered(t, range)
  \/ \E k \in Keys : NextBucket(t, k)
  \/ RespondThawed(t)   \/ OpenThawLock(t)  \/ TryLockExclusive(t)
  \/ ConvertToShared(t) \/ TryLockShared(t) \/ CloseThawLock(t)

\* A step of a flusher.
Flushes(g) == ListThawed(g) \/ FlusherStep(g)

\* A bucket is archived, or leaves the index.
Archives ==
  \E b \in Buckets : LeaveIndex(b) \/ \E f \in Formats : Archive(b, f)

\* Every step is one of these.
LEMMA NextCases ==
  ASSUME [Next]_vars
  PROVE  \/ \E t \in Thawers : Proceeds(t) \/ LocksOrMoves(t)
         \/ \E g \in Flushers : Flushes(g)
         \/ Archives \/ ServerCrashes \/ ServerStarts \/ UNCHANGED vars
  BY DEF Next, ThawerStep, ThawerThrows, Proceeds, LocksOrMoves, Flushes,
         Archives

\* The two places where what a thawer has got lies.
LEMMA ProceedsFrame ==
  ASSUME TypeOK, NEW t \in Thawers, HasKey(t), Proceeds(t)
  PROVE  /\ AtBucket(t)
         /\ \E to \in ThawerSteps \ {"idle", "next", "open", "lock", "convert",
                                     "reshare"} :
              thawer' = [thawer EXCEPT ![t] = to]
         /\ at[t] \in Keys
         /\ NameAt(t) \in Buckets
         /\ FormatAt(t) \in FormatsOf[NameAt(t)]
         /\ UNCHANGED <<archived, local, lockVars, todo, at, flushVars, up>>
         /\ outcome' \in [Thawers -> {"none", "thawed", "failed", "skipped"}]
         /\ faults' \in 0..MaxFaults
  <1> USE ThawFaultsAssumption
  <1>1. thawer \in [Thawers -> ThawerSteps] /\ faults \in 0..MaxFaults
        /\ outcome \in [Thawers -> {"none", "thawed", "failed", "skipped"}]
    BY DEF TypeOK
  <1>2. /\ AtBucket(t)
        /\ \E to \in ThawerSteps \ {"idle", "next", "open", "lock", "convert",
                                    "reshare"} :
             thawer' = [thawer EXCEPT ![t] = to]
    <2>1. CASE Prepare(t) \/ GetFile(t) \/ EndCopyToLocal(t) \/ Commit(t)
               \/ Rename(t)
      BY <2>1, <1>1 DEF Prepare, GetFile, EndCopyToLocal, Commit, Rename,
           ThawerGoto, AtBucket, ThawerSteps
    <2>2. CASE TransferThrows(t) \/ CleanTransaction(t) \/ CleanThrows(t)
               \/ Abort(t) \/ Import(t)
      BY <2>2, <1>1 DEF TransferThrows, CleanTransaction, CleanThrows, Abort,
           Import, Fail, ThawerGoto, AtBucket, ThawerSteps
    <2>3. CASE Unpack(t) \/ UnpackFails(t) \/ ResolveSize(t)
               \/ ResolveSizeThrows(t)
      BY <2>3, <1>1 DEF Unpack, UnpackFails, ResolveSize, ResolveSizeThrows,
           Fail, ThawerGoto, AtBucket, ThawerSteps
    <2> QED BY <2>1, <2>2, <2>3 DEF Proceeds
  <1>3. at[t] \in Keys
    BY <1>2 DEF HasKey, AtBucket
  <1>4. NameAt(t) \in Buckets /\ FormatAt(t) \in FormatsOf[NameAt(t)]
    BY <1>3 DEF Keys, NameAt, FormatAt
  <1>5. UNCHANGED <<archived, local, lockVars, todo, at, flushVars, up>>
    BY DEF Proceeds, Prepare, GetFile, EndCopyToLocal, Commit, Rename,
           TransferThrows, CleanTransaction, CleanThrows, Abort, Import, Unpack,
           UnpackFails, ResolveSize, ResolveSizeThrows, Fail
  <1>6. outcome' \in [Thawers -> {"none", "thawed", "failed", "skipped"}]
    BY <1>1 DEF Proceeds, Prepare, GetFile, EndCopyToLocal, Commit, Rename,
           TransferThrows, CleanTransaction, CleanThrows, Abort, Import, Unpack,
           UnpackFails, ResolveSize, ResolveSizeThrows, Fail, PutOn
  <1>7. faults' \in 0..MaxFaults
    BY <1>1 DEF Proceeds, Prepare, GetFile, EndCopyToLocal, Commit, Rename,
           TransferThrows, CleanTransaction, CleanThrows, Abort, Import, Unpack,
           UnpackFails, ResolveSize, ResolveSizeThrows, Fault
  <1> QED BY <1>2, <1>3, <1>4, <1>5, <1>6, <1>7

\* What a thawer does at its bucket keeps the types.
LEMMA ProceedsTyping ==
  ASSUME TypeOK, NEW t \in Thawers, HasKey(t), Proceeds(t)
  PROVE  TypeOK'
  <1>1. Locks!LocksTypeOK /\ ThawersTypeOK /\ FlushersTypeOK /\ StoreTypeOK
    BY TypeParts
  <1>2. Locks!LocksTypeOK'
    BY <1>1, ProceedsFrame, ThawLockTyping
  <1>3. ThawersTypeOK'
    BY <1>1, ProceedsFrame DEF ThawersTypeOK
  <1>4. FlushersTypeOK'
    BY <1>1, ProceedsFrame DEF FlushersTypeOK, flushVars
  <1>5. temp' \in [Keys -> {"absent", "part", "whole"}]
    <2>1. TempAt(t) \in {"absent", "part", "whole"}
      BY <1>1, ProceedsFrame DEF StoreTypeOK, TempAt
    <2> QED BY <1>1, <2>1 DEF StoreTypeOK, Proceeds, Prepare, GetFile,
              EndCopyToLocal, Commit, Rename, TransferThrows, CleanTransaction,
              CleanThrows, Abort, Import, Unpack, UnpackFails, ResolveSize,
              ResolveSizeThrows, SetTemp
  <1>6. thaw' \in [Buckets -> Contents]
    <2>1. CASE Rename(t)
      <3>1. TempAt(t) \in {"absent", "part", "whole"}
        BY <1>1, ProceedsFrame DEF StoreTypeOK, TempAt
      <3>2. TempAt(t) # "absent" => Transferred(t) \in Contents
        BY <3>1 DEF Transferred, Contents
      <3> QED BY <1>1, <2>1, <3>2 DEF Rename, StoreTypeOK, SetThaw
    <2>2. CASE ~Rename(t)
      BY <1>1, <2>2 DEF StoreTypeOK, Contents, Proceeds, Prepare, GetFile,
           EndCopyToLocal, Commit, TransferThrows, CleanTransaction,
           CleanThrows, Abort, Import, Unpack, UnpackFails, ResolveSize,
           ResolveSizeThrows, SetThaw
    <2> QED BY <2>1, <2>2
  <1>7. StoreTypeOK'
    BY <1>1, <1>5, <1>6, ProceedsFrame DEF StoreTypeOK
  <1> QED BY <1>2, <1>3, <1>4, <1>7, TypeParts DEF TypeOK, ThawersTypeOK,
            FlushersTypeOK, StoreTypeOK

\* So does the rest of what it does.
LEMMA LocksTyping ==
  ASSUME TypeOK, Exported, NEW t \in Thawers, HasKey(t), LocksOrMoves(t)
  PROVE  TypeOK'
  <1>1. Locks!LocksTypeOK /\ ThawersTypeOK /\ FlushersTypeOK /\ StoreTypeOK
    BY TypeParts
  <1>2. Locks!LocksTypeOK'
    <2>1. CASE OpenThawLock(t)
      <3>1. at[t] \in Keys
        BY <2>1 DEF OpenThawLock, ThawerGoto, HasKey
      <3> QED BY <1>1, <2>1, <3>1, ThawLockTyping DEF OpenThawLock
    <2>2. CASE ~OpenThawLock(t)
      BY <1>1, <2>2, ThawLockTyping DEF LocksOrMoves, ListFiltered, NextBucket,
           RespondThawed, TryLockExclusive, ConvertToShared, TryLockShared,
           CloseThawLock, BucketWasLocked, Locks!ReleaseLock
    <2> QED BY <2>1, <2>2
  <1>3. ThawersTypeOK'
    <2>1. ASSUME NEW range \in SUBSET Buckets, ListFiltered(t, range)
          PROVE  ThawersTypeOK'
      <3>1. {<<b, Chosen(b)>> : b \in {n \in range : archived[n] # {}}}
              \subseteq Keys
        BY <1>1, ThawFormatsAssumption, ChosenIsArchived
        DEF Keys, Exported, StoreTypeOK
      <3> QED BY <1>1, <2>1, <3>1 DEF ListFiltered, ThawersTypeOK, ThawerGoto,
                                      ThawerSteps
    <2>2. ASSUME NEW k \in Keys, NextBucket(t, k)
          PROVE  ThawersTypeOK'
      BY <1>1, <2>2 DEF NextBucket, ThawersTypeOK, ThawerGoto, ThawerSteps
    <2>3. CASE RespondThawed(t) \/ OpenThawLock(t) \/ TryLockExclusive(t)
               \/ ConvertToShared(t) \/ TryLockShared(t) \/ CloseThawLock(t)
      BY <1>1, <2>3 DEF RespondThawed, OpenThawLock, TryLockExclusive,
           ConvertToShared, TryLockShared, CloseThawLock, BucketWasLocked,
           PutOn, ThawersTypeOK, ThawerGoto, ThawerSteps
    <2> QED BY <2>1, <2>2, <2>3 DEF LocksOrMoves
  <1>4. FlushersTypeOK' /\ StoreTypeOK'
    BY <1>1 DEF LocksOrMoves, ListFiltered, NextBucket, RespondThawed,
         OpenThawLock, TryLockExclusive, ConvertToShared, TryLockShared,
         CloseThawLock, FlushersTypeOK, StoreTypeOK, flushVars
  <1> QED BY <1>2, <1>3, <1>4 DEF TypeOK, ThawersTypeOK, FlushersTypeOK,
                                 StoreTypeOK

\* So does what a flusher, the archiving and the server's process do.
LEMMA RestTyping ==
  ASSUME TypeOK,
         \/ \E g \in Flushers : Flushes(g)
         \/ Archives \/ ServerCrashes \/ ServerStarts \/ UNCHANGED vars
  PROVE  TypeOK'
  <1> USE ThawFaultsAssumption
  <1>1. Locks!LocksTypeOK /\ ThawersTypeOK /\ FlushersTypeOK /\ StoreTypeOK
    BY TypeParts
  <1>2. ASSUME NEW g \in Flushers, Flushes(g)
        PROVE  TypeOK'
    <2>1. FlushersTypeOK'
      BY <1>1, <1>2 DEF Flushes, ListThawed, FlusherStep, BuildThawed,
           BeginFlush, EndFlush, RespondFlushed, FlusherGoto, FlushersTypeOK
    <2>2. StoreTypeOK'
      BY <1>1, <1>2 DEF Flushes, ListThawed, FlusherStep, BuildThawed,
           BeginFlush, EndFlush, RespondFlushed, SetThaw, Fault, Contents,
           StoreTypeOK
    <2>3. Locks!LocksTypeOK' /\ ThawersTypeOK'
      BY <1>1, <1>2 DEF Flushes, ListThawed, FlusherStep, BuildThawed,
           BeginFlush, EndFlush, RespondFlushed, lockVars, thawVars,
           ThawersTypeOK, Locks!LocksTypeOK
    <2> QED BY <2>1, <2>2, <2>3 DEF TypeOK, ThawersTypeOK, FlushersTypeOK,
                                   StoreTypeOK
  <1>3. CASE Archives
    BY <1>3, ThawFormatsAssumption DEF Archives, Archive, LeaveIndex, TypeOK,
         Locks!LocksTypeOK, lockVars, thawVars, flushVars
  <1>4. CASE ServerCrashes
    <2>1. Locks!LocksTypeOK'
      BY <1>1, <1>4 DEF ServerCrashes, Locks!ExitProcess, Locks!LocksTypeOK
    <2>2. ThawersTypeOK' /\ FlushersTypeOK'
      BY <1>4 DEF ServerCrashes, ThawersTypeOK, FlushersTypeOK, ThawerSteps
    <2>u. up' \in BOOLEAN
      BY <1>4, Zenon DEF ServerCrashes
    <2>f. faults' \in 0..MaxFaults
      BY <1>1, <1>4 DEF ServerCrashes, StoreTypeOK, Fault
    <2>3. StoreTypeOK'
      BY <1>1, <1>4, <2>u, <2>f DEF ServerCrashes, StoreTypeOK
    <2> QED BY <2>1, <2>2, <2>3 DEF TypeOK, ThawersTypeOK, FlushersTypeOK,
                                   StoreTypeOK
  <1>5. CASE ServerStarts
    BY <1>1, <1>5 DEF ServerStarts, TypeOK, Locks!LocksTypeOK, thawVars,
                      flushVars
  <1>6. CASE UNCHANGED vars
    BY <1>6 DEF TypeOK, Locks!LocksTypeOK, vars, lockVars, thawVars, flushVars
  <1> QED BY <1>2, <1>3, <1>4, <1>5, <1>6

-----------------------------------------------------------------------------
(***************************************************************************)
(* The thaw locks                                                          *)
(***************************************************************************)

\* What a thawer does at its bucket leaves the locks alone.
LEMMA ProceedsLocks ==
  ASSUME TypeOK, LockInv, NEW t \in Thawers, Proceeds(t)
  PROVE  LockInv'
  <1>1. HasKey(t) /\ thawer \in [Thawers -> ThawerSteps]
    BY DEF LockInv, TypeOK
  <1>2. /\ AtBucket(t)
        /\ UNCHANGED <<archived, link, opened, mode, at, up>>
        /\ at[t] \in Keys
    BY <1>1, ProceedsFrame DEF lockVars
  <1>3. PICK to \in ThawerSteps \ {"idle", "next", "open", "lock", "convert",
                                   "reshare"} :
          thawer' = [thawer EXCEPT ![t] = to]
    BY <1>1, ProceedsFrame
  <1>4. ASSUME NEW s \in Thawers
        PROVE  HasKey(s)' /\ HasChannel(s)' /\ HasLock(s)'
    <2>1. CASE s = t
      BY <1>1, <1>2, <1>3, <2>1 DEF LockInv, HasKey, HasChannel, HasLock,
                                    AtBucket
    <2>2. CASE s # t
      BY <1>1, <1>2, <1>3, <2>2 DEF LockInv, HasKey, HasChannel, HasLock,
                                    AtBucket
    <2> QED BY <2>1, <2>2
  <1>5. Exported' /\ \A r, s \in Thawers : Apart(r, s)'
    BY <1>2 DEF LockInv, Exported, Apart
  <1>6. DownIdle'
    BY <1>2 DEF LockInv, DownIdle, AtBucket
  <1> QED BY <1>4, <1>5, <1>6 DEF LockInv

\* The other steps of a thawer touch its own channel and its own lock only, and
\* bind a lock path only when it is unbound.
LEMMA LocksFrame ==
  ASSUME TypeOK, LockInv, NEW t \in Thawers, LocksOrMoves(t)
  PROVE  /\ \A s \in Thawers \ {t} :
              /\ thawer'[s] = thawer[s] /\ at'[s] = at[s]
              /\ opened'[s] = opened[s] /\ mode'[s] = mode[s]
         /\ \A k \in Keys : link[k] # NoInode => link'[k] = link[k]
         /\ up /\ up' = up /\ archived' = archived
  <1>1. /\ thawer \in [Thawers -> ThawerSteps]
        /\ at \in [Thawers -> Keys \cup {NoKey}]
        /\ Locks!LocksTypeOK
    BY DEF TypeOK
  <1>2. up /\ up' = up /\ archived' = archived
    BY DEF LocksOrMoves, ListFiltered, NextBucket, RespondThawed, OpenThawLock,
         TryLockExclusive, ConvertToShared, TryLockShared, CloseThawLock,
         BucketWasLocked, ThawerGoto, LockInv, DownIdle
  <1>3. \A s \in Thawers \ {t} : thawer'[s] = thawer[s] /\ at'[s] = at[s]
    BY <1>1 DEF LocksOrMoves, ListFiltered, NextBucket, RespondThawed,
         OpenThawLock, TryLockExclusive, ConvertToShared, TryLockShared,
         CloseThawLock, BucketWasLocked, ThawerGoto
  <1>4. CASE OpenThawLock(t)
    BY <1>1, <1>2, <1>3, <1>4 DEF OpenThawLock, Locks!OpenLockFile,
         Locks!InodeAt, Locks!LocksTypeOK
  <1>5. CASE ~OpenThawLock(t)
    BY <1>1, <1>2, <1>3, <1>5 DEF LocksOrMoves, ListFiltered, NextBucket,
         RespondThawed, TryLockExclusive, ConvertToShared, TryLockShared,
         CloseThawLock, BucketWasLocked, lockVars, Locks!Lock,
         Locks!ReleaseLock, Locks!CloseLock, Locks!LocksTypeOK
  <1> QED BY <1>4, <1>5

\* A thread gets a lock only when no other thread has one on the inode.
LEMMA LockableAlone ==
  ASSUME NEW t \in Thawers, NEW s \in Thawers, NEW m, Locks!Lockable(t, m),
         opened[s] = opened[t], mode[s] # "none"
  PROVE  s = t
  BY DEF Locks!Lockable

\* The thawer itself has the channel, and the lock, that its next step is for.
LEMMA OwnLock ==
  ASSUME TypeOK, LockInv, NEW t \in Thawers, LocksOrMoves(t)
  PROVE  /\ HasKey(t)' /\ HasChannel(t)' /\ HasLock(t)'
         /\ \A s \in Thawers : Apart(s, t)' /\ Apart(t, s)'
  <1>1. /\ thawer \in [Thawers -> ThawerSteps]
        /\ at \in [Thawers -> Keys \cup {NoKey}]
        /\ Locks!LocksTypeOK
        /\ NoInode \notin Inodes
    BY ThawNoneAssumption DEF TypeOK
  <1>2. /\ HasKey(t) /\ HasChannel(t) /\ HasLock(t)
        /\ \A r, s \in Thawers : Apart(r, s)
    BY DEF LockInv
  <1>3. CASE OpenThawLock(t)
    <2>1. at[t] \in Keys /\ mode[t] = "none"
      BY <1>2, <1>3 DEF OpenThawLock, ThawerGoto, HasKey, HasLock
    <2>2. PICK i \in Locks!InodeAt(at[t]) :
            /\ link' = [link EXCEPT ![at[t]] = i]
            /\ opened' = [opened EXCEPT ![t] = i]
      BY <1>3 DEF OpenThawLock, Locks!OpenLockFile
    <2>3. i # NoInode
      BY <1>1, <2>1, <2>2 DEF Locks!InodeAt, Locks!FreeInodes,
                              Locks!LocksTypeOK
    <2>4. /\ thawer'[t] = "lock" /\ at' = at /\ mode' = mode
          /\ link'[at[t]] = i /\ opened'[t] = i
      BY <1>1, <1>3, <2>1, <2>2 DEF OpenThawLock, Locks!OpenLockFile,
                                    ThawerGoto, Locks!LocksTypeOK
    <2> QED BY <2>1, <2>3, <2>4 DEF HasKey, HasChannel, HasLock, AtBucket, Apart
  <1>4. CASE TryLockExclusive(t) \/ TryLockShared(t)
    <2>1. link' = link /\ opened' = opened /\ at' = at
      BY <1>4 DEF TryLockExclusive, TryLockShared, BucketWasLocked, lockVars,
                  Locks!Lock
    <2>2. HasKey(t)' /\ HasChannel(t)'
      BY <1>1, <1>2, <1>4, <2>1 DEF TryLockExclusive, TryLockShared,
           BucketWasLocked, ThawerGoto, HasKey, HasChannel
    <2>3. HasLock(t)'
      BY <1>1, <1>4 DEF TryLockExclusive, TryLockShared, BucketWasLocked,
           ThawerGoto, HasLock, AtBucket, Locks!Lock, Locks!LocksTypeOK
    <2>4. CASE mode' = mode
      BY <1>2, <2>1, <2>2, <2>3, <2>4 DEF Apart
    <2>5. CASE mode' # mode
      <3>1. PICK m \in {"shared", "exclusive"} :
              Locks!Lockable(t, m) /\ mode' = [mode EXCEPT ![t] = m]
        BY <1>4, <2>5 DEF TryLockExclusive, TryLockShared, BucketWasLocked,
                          lockVars, Locks!Lock
      <3>2. \A s \in Thawers :
              opened[s] = opened[t] /\ mode'[s] # "none" => s = t
        BY <1>1, <3>1, LockableAlone DEF Locks!LocksTypeOK
      <3> QED BY <2>1, <2>2, <2>3, <3>2 DEF Apart
    <2> QED BY <2>4, <2>5
  <1>5. CASE ConvertToShared(t) \/ CloseThawLock(t)
    <2>1. link' = link /\ at' = at /\ mode'[t] = "none"
      BY <1>1, <1>5 DEF ConvertToShared, CloseThawLock, Locks!ReleaseLock,
                        Locks!Lock, Locks!CloseLock, Locks!LocksTypeOK
    <2>2. HasKey(t)' /\ HasChannel(t)' /\ HasLock(t)'
      BY <1>1, <1>2, <1>5, <2>1 DEF ConvertToShared, CloseThawLock, ThawerGoto,
           Locks!ReleaseLock, Locks!Lock, HasKey, HasChannel, HasLock, AtBucket
    <2> QED BY <2>1, <2>2 DEF Apart
  <1>6. CASE \/ \E range \in SUBSET Buckets : ListFiltered(t, range)
             \/ \E k \in Keys : NextBucket(t, k)
             \/ RespondThawed(t)
    <2>1. mode[t] = "none" /\ mode' = mode
      BY <1>2, <1>6 DEF ListFiltered, NextBucket, RespondThawed, ThawerGoto,
                        HasLock, lockVars
    <2>2. HasKey(t)' /\ HasChannel(t)' /\ HasLock(t)'
      BY <1>1, <1>6, <2>1 DEF ListFiltered, NextBucket, RespondThawed,
           ThawerGoto, HasKey, HasChannel, HasLock, AtBucket
    <2> QED BY <2>1, <2>2 DEF Apart
  <1> QED BY <1>3, <1>4, <1>5, <1>6 DEF LocksOrMoves

\* Every step keeps the lock's part of the invariant.
LEMMA LocksStep ==
  ASSUME TypeOK, LockInv, [Next]_vars
  PROVE  LockInv'
  <1>1. ASSUME NEW t \in Thawers, LocksOrMoves(t)
        PROVE  LockInv'
    <2>1. ASSUME NEW s \in Thawers, s # t
          PROVE  HasKey(s)' /\ HasChannel(s)' /\ HasLock(s)'
      BY <1>1, <2>1, LocksFrame DEF LockInv, HasKey, HasChannel, HasLock,
                                    AtBucket
    <2>2. \A r, s \in Thawers : Apart(r, s)'
      <3>1. ASSUME NEW r \in Thawers, NEW s \in Thawers, r # t, s # t
            PROVE  Apart(r, s)'
        BY <1>1, <3>1, LocksFrame DEF LockInv, Apart
      <3> QED BY <1>1, <3>1, OwnLock
    <2>3. Exported' /\ DownIdle'
      BY <1>1, LocksFrame DEF LockInv, Exported, DownIdle
    <2> QED BY <1>1, <2>1, <2>2, <2>3, OwnLock DEF LockInv
  <1>2. ASSUME NEW g \in Flushers, Flushes(g)
        PROVE  LockInv'
    <2>1. UNCHANGED <<archived, link, opened, mode, thawer, at, up>>
      BY <1>2 DEF Flushes, ListThawed, FlusherStep, BuildThawed, BeginFlush,
           EndFlush, RespondFlushed, lockVars, thawVars
    <2> QED BY <2>1 DEF LockInv, Exported, HasKey, HasChannel, HasLock,
              AtBucket, Apart, DownIdle
  <1>3. CASE Archives
    <2>1. UNCHANGED <<link, opened, mode, thawer, at, up>>
      BY <1>3 DEF Archives, Archive, LeaveIndex, lockVars, thawVars
    <2>2. Exported'
      BY <1>3 DEF Archives, Archive, LeaveIndex, LockInv, Exported, TypeOK
    <2> QED BY <2>1, <2>2 DEF LockInv, HasKey, HasChannel, HasLock, AtBucket,
              Apart, DownIdle
  <1>4. CASE ServerCrashes
    <2>1. /\ archived' = archived
          /\ \A t \in Thawers : thawer'[t] = "idle" /\ mode'[t] = "none"
      BY <1>4 DEF ServerCrashes, Locks!ExitProcess
    <2> QED BY <2>1 DEF LockInv, Exported, HasKey, HasChannel, HasLock,
              AtBucket, Apart, DownIdle
  <1>5. CASE ServerStarts
    <2>1. /\ UNCHANGED <<archived, opened, mode, thawer, at>> /\ ~up
          /\ \A t \in Thawers : thawer[t] = "idle"
      BY <1>5 DEF ServerStarts, thawVars, LockInv, DownIdle
    <2> QED BY <2>1 DEF LockInv, Exported, HasKey, HasChannel, HasLock,
              AtBucket, Apart, DownIdle
  <1>6. CASE UNCHANGED vars
    BY <1>6 DEF vars, lockVars, thawVars, LockInv, Exported, HasKey,
         HasChannel, HasLock, AtBucket, Apart, DownIdle
  <1> QED BY <1>1, <1>2, <1>3, <1>4, <1>5, <1>6, ProceedsLocks, NextCases

\* Every step keeps the types.
LEMMA TypesStep ==
  ASSUME TypeOK, LockInv, [Next]_vars
  PROVE  TypeOK'
  BY NextCases, ProceedsTyping, LocksTyping, RestTyping DEF LockInv

\* At first no thaw lock is open.
LEMMA InitLocks == Init => TypeOK /\ LockInv
  <1> SUFFICES ASSUME Init
               PROVE  TypeOK /\ LockInv
    OBVIOUS
  <1>1. Locks!LocksTypeOK
    BY DEF Init, Locks!LocksInit, Locks!LocksTypeOK
  <1>2. TypeOK
    BY <1>1, ThawFaultsAssumption DEF Init, TypeOK, Contents, ThawerSteps
  <1>3. LockInv
    BY DEF Init, Locks!LocksInit, LockInv, Exported, HasKey, HasChannel,
         HasLock, AtBucket, Apart, DownIdle
  <1> QED BY <1>2, <1>3

\* Types, and who has which thaw lock.
LEMMA Locking == Spec => [](TypeOK /\ LockInv)
  <1>1. TypeOK /\ LockInv /\ [Next]_vars => (TypeOK /\ LockInv)'
    BY TypesStep, LocksStep
  <1> QED BY <1>1, InitLocks, PTL DEF Spec

\* Type correctness of the thawers, the flushers, the thaw locks and the data.
THEOREM ThawTyping == Spec => []TypeOK
  BY Locking, PTL

\* However many threads of the server thaw, whatever they list, whatever throws
\* and whenever the server is restarted: no two of them are at one archived
\* bucket at the same time.
THEOREM ThawMutualExclusion == Spec => []OneThawerPerBucket
  <1>1. TypeOK /\ LockInv => OneThawerPerBucket
    <2> SUFFICES ASSUME TypeOK, LockInv,
                        NEW s \in Thawers, NEW t \in Thawers,
                        AtBucket(s), AtBucket(t), at[s] = at[t]
                 PROVE  s = t
      BY DEF OneThawerPerBucket
    <2>1. opened[s] = opened[t]
      BY DEF LockInv, HasChannel, AtBucket
    <2>2. mode[s] = "shared" /\ mode[t] = "shared"
      BY DEF LockInv, HasLock
    <2> QED BY <2>1, <2>2 DEF LockInv, Apart
  <1> QED BY <1>1, Locking, PTL

-----------------------------------------------------------------------------
(***************************************************************************)
(* What is thawed, when every bucket is archived in one format             *)
(***************************************************************************)

OneFormat == \A b \in Buckets : \A f, g \in FormatsOf[b] : f = g

\* Nothing is left at the temporary path of a bucket that is in the thaw
\* directory.
Emptied(k) == thaw[k[1]] # "absent" => temp[k] = "absent"

\* A bucket in Splunk's format is not waiting to be imported.
Searchable(k) == k[2] \notin Packed => thaw[k[1]] \notin {"packed", "half"}

\* What a thawer knows at its bucket: it copies to a destination that is not
\* there yet; it commits a whole copy, or none when the destination is there
\* already; it cleans up and imports when the copy is gone from the temporary
\* path; it has imported the bucket when it reads its size.
Sees(t) ==
  /\ thawer[t] = "copy" => ThawAt(t) = "absent"
  /\ thawer[t] \in {"commit", "rename"} => TempAt(t) # "part"
  /\ thawer[t] \in {"clean", "import", "unpack", "size"} => TempAt(t) = "absent"
  /\ thawer[t] = "size" => ThawAt(t) \notin {"packed", "half"}

ThawInv ==
  /\ \A k \in Keys : Emptied(k) /\ Searchable(k)
  /\ \A t \in Thawers : Sees(t)

\* The lock is on an archived bucket, and so on what the name stands for.
LEMMA OneKeyPerName ==
  ASSUME OneFormat, NEW j \in Keys, NEW k \in Keys, j[1] = k[1]
  PROVE  j = k
  <1>1. j = <<j[1], j[2]>> /\ k = <<k[1], k[2]>>
    BY DEF Keys
  <1>2. j[1] \in Buckets /\ j[2] \in FormatsOf[j[1]] /\ k[2] \in FormatsOf[k[1]]
    BY DEF Keys
  <1>3. j[2] = k[2]
    BY <1>2 DEF OneFormat
  <1> QED BY <1>1, <1>3

\* No other thawer is at a bucket of that name.
LEMMA NobodyElse ==
  ASSUME OneFormat, LockInv, NEW s \in Thawers, NEW t \in Thawers, s # t,
         AtBucket(s), AtBucket(t)
  PROVE  at[s] # at[t] /\ NameAt(s) # NameAt(t)
  <1>1. at[s] \in Keys /\ at[t] \in Keys
    BY DEF LockInv, HasKey, AtBucket
  <1>2. at[s] # at[t]
    BY DEF LockInv, HasChannel, HasLock, AtBucket, Apart
  <1> QED BY <1>1, <1>2, OneKeyPerName DEF NameAt

\* A thawer touches its own bucket's directories only.
LEMMA ProceedsData ==
  ASSUME TypeOK, NEW t \in Thawers, HasKey(t), Proceeds(t)
  PROVE  /\ \A b \in Buckets : b # NameAt(t) => thaw'[b] = thaw[b]
         /\ \A k \in Keys : k # at[t] => temp'[k] = temp[k]
  BY DEF Proceeds, Prepare, GetFile, EndCopyToLocal, Commit, Rename,
       TransferThrows, CleanTransaction, CleanThrows, Abort, Import, Unpack,
       UnpackFails, ResolveSize, ResolveSizeThrows, SetTemp, SetThaw, TypeOK

\* What it does there is what it needs for its next step.
LEMMA ProceedsOwn ==
  ASSUME TypeOK, LockInv, ThawInv, NEW t \in Thawers, Proceeds(t)
  PROVE  /\ Sees(t)'
         /\ thaw'[NameAt(t)] # "absent" => temp'[at[t]] = "absent"
         /\ FormatAt(t) \notin Packed =>
              thaw'[NameAt(t)] \notin {"packed", "half"}
  <1>1. /\ HasKey(t) /\ Sees(t)
        /\ thawer \in [Thawers -> ThawerSteps]
        /\ thaw \in [Buckets -> Contents]
        /\ temp \in [Keys -> {"absent", "part", "whole"}]
    BY DEF LockInv, ThawInv, TypeOK
  <1>2. at[t] \in Keys /\ NameAt(t) \in Buckets /\ at' = at
    BY <1>1, ProceedsFrame
  <1>3. /\ ThawAt(t) # "absent" => TempAt(t) = "absent"
        /\ FormatAt(t) \notin Packed => ThawAt(t) \notin {"packed", "half"}
    BY <1>2 DEF ThawInv, Emptied, Searchable, ThawAt, TempAt, FormatAt, NameAt
  <1>4. CASE Prepare(t) \/ Commit(t) \/ CleanTransaction(t) \/ CleanThrows(t)
    BY <1>1, <1>2, <1>3, <1>4 DEF Prepare, Commit, CleanTransaction,
         CleanThrows, Fail, ThawerGoto, Sees, ThawAt, TempAt, NameAt
  <1>5. CASE GetFile(t) \/ EndCopyToLocal(t)
    BY <1>1, <1>2, <1>3, <1>5 DEF GetFile, EndCopyToLocal, ThawerGoto, SetTemp,
         Sees, ThawAt, TempAt, NameAt
  <1>6. CASE Rename(t)
    BY <1>1, <1>2, <1>3, <1>6 DEF Rename, Transferred, ThawerGoto, SetTemp,
         SetThaw, Sees, ThawAt, TempAt, NameAt
  <1>7. CASE TransferThrows(t) \/ Abort(t) \/ UnpackFails(t)
             \/ ResolveSize(t) \/ ResolveSizeThrows(t)
    BY <1>1, <1>2, <1>3, <1>7 DEF TransferThrows, Abort, UnpackFails,
         ResolveSize, ResolveSizeThrows, Fail, ThawerGoto, Sees, ThawAt, TempAt,
         NameAt
  <1>8. CASE Import(t) \/ Unpack(t)
    BY <1>1, <1>2, <1>3, <1>8 DEF Import, Unpack, Fail, ThawerGoto, SetThaw,
         Sees, ThawAt, TempAt, NameAt
  <1> QED BY <1>4, <1>5, <1>6, <1>7, <1>8 DEF Proceeds

\* A step that leaves the directories alone, and brings no thawer to its bucket
\* but to prepare a transfer, keeps what they say.
LEMMA DataUntouched ==
  ASSUME ThawInv, UNCHANGED <<thaw, temp>>,
         \A t \in Thawers :
           \/ thawer'[t] = thawer[t] /\ at'[t] = at[t]
           \/ thawer'[t] \in {"idle", "next", "open", "lock", "convert",
                              "reshare", "prepare", "close"}
  PROVE  ThawInv'
  BY DEF ThawInv, Emptied, Searchable, Sees, ThawAt, TempAt, NameAt

\* Every step keeps what is known of the directories.
LEMMA DataStep ==
  ASSUME OneFormat, TypeOK, LockInv, ThawInv, [Next]_vars
  PROVE  ThawInv'
  <1>1. ASSUME NEW t \in Thawers, Proceeds(t)
        PROVE  ThawInv'
    <2>1. /\ HasKey(t) /\ thawer \in [Thawers -> ThawerSteps]
      BY DEF LockInv, TypeOK
    <2>2. AtBucket(t) /\ at[t] \in Keys /\ at' = at
      BY <1>1, <2>1, ProceedsFrame
    <2>3. ASSUME NEW k \in Keys
          PROVE  Emptied(k)' /\ Searchable(k)'
      <3>1. CASE k = at[t]
        BY <1>1, <3>1, ProceedsOwn DEF Emptied, Searchable, NameAt, FormatAt
      <3>2. CASE k # at[t]
        <4>1. k[1] \in Buckets /\ k[1] # NameAt(t)
          BY <2>2, <3>2, OneKeyPerName DEF NameAt, Keys
        <4>2. thaw'[k[1]] = thaw[k[1]] /\ temp'[k] = temp[k]
          BY <1>1, <2>1, <3>2, <4>1, ProceedsData
        <4> QED BY <4>2 DEF ThawInv, Emptied, Searchable
      <3> QED BY <3>1, <3>2
    <2>4. ASSUME NEW s \in Thawers, s # t
          PROVE  Sees(s)'
      <3>1. thawer'[s] = thawer[s]
        BY <1>1, <2>1, <2>4, ProceedsFrame
      <3>2. CASE AtBucket(s)
        <4>1. at[s] # at[t] /\ NameAt(s) # NameAt(t)
          BY <2>2, <2>4, <3>2, NobodyElse
        <4>2. at[s] \in Keys /\ NameAt(s) \in Buckets
          BY <3>2 DEF LockInv, HasKey, AtBucket, Keys, NameAt
        <4>3. thaw'[NameAt(s)] = ThawAt(s) /\ temp'[at[s]] = TempAt(s)
          BY <1>1, <2>1, <4>1, <4>2, ProceedsData DEF ThawAt, TempAt
        <4> QED BY <2>2, <3>1, <4>3 DEF ThawInv, Sees, ThawAt, TempAt, NameAt
      <3>3. CASE ~AtBucket(s)
        BY <3>1, <3>3 DEF Sees, AtBucket
      <3> QED BY <3>2, <3>3
    <2> QED BY <1>1, <2>3, <2>4, ProceedsOwn DEF ThawInv
  <1>2. ASSUME NEW t \in Thawers, LocksOrMoves(t)
        PROVE  ThawInv'
    <2>1. UNCHANGED <<thaw, temp>>
      BY <1>2 DEF LocksOrMoves, ListFiltered, NextBucket, RespondThawed,
           OpenThawLock, TryLockExclusive, ConvertToShared, TryLockShared,
           CloseThawLock
    <2>2. thawer'[t] \in {"idle", "next", "open", "lock", "convert", "reshare",
                          "prepare", "close"}
      BY <1>2 DEF LocksOrMoves, ListFiltered, NextBucket, RespondThawed,
           OpenThawLock, TryLockExclusive, ConvertToShared, TryLockShared,
           CloseThawLock, BucketWasLocked, ThawerGoto, TypeOK
    <2> QED BY <1>2, <2>1, <2>2, LocksFrame, DataUntouched
  <1>3. ASSUME NEW g \in Flushers, Flushes(g)
        PROVE  ThawInv'
    <2>1. UNCHANGED <<temp, thawer, at>>
      BY <1>3 DEF Flushes, ListThawed, FlusherStep, BuildThawed, BeginFlush,
           EndFlush, RespondFlushed, thawVars
    <2>2. \A b \in Buckets : \/ thaw'[b] = thaw[b] \/ thaw'[b] = "absent"
                             \/ thaw'[b] = "torn" /\ thaw[b] # "absent"
      BY <1>3 DEF Flushes, ListThawed, FlusherStep, BuildThawed, BeginFlush,
           EndFlush, RespondFlushed, SetThaw, TypeOK
    <2>3. \A k \in Keys : Emptied(k)' /\ Searchable(k)'
      BY <2>1, <2>2 DEF ThawInv, Emptied, Searchable, Keys
    <2>4. ASSUME NEW t \in Thawers
          PROVE  Sees(t)'
      <3>1. CASE AtBucket(t)
        <4>1. NameAt(t) \in Buckets
          BY <3>1 DEF LockInv, HasKey, AtBucket, Keys, NameAt
        <4> QED BY <2>1, <2>2, <4>1 DEF ThawInv, Sees, ThawAt, TempAt, NameAt
      <3>2. CASE ~AtBucket(t)
        BY <2>1, <3>2 DEF Sees, AtBucket
      <3> QED BY <3>1, <3>2
    <2> QED BY <2>3, <2>4 DEF ThawInv
  <1>4. CASE Archives
    <2>1. UNCHANGED <<thaw, temp, thawer, at>>
      BY <1>4 DEF Archives, Archive, LeaveIndex, thawVars
    <2> QED BY <2>1, DataUntouched
  <1>5. CASE ServerCrashes
    BY <1>5, DataUntouched DEF ServerCrashes
  <1>6. CASE ServerStarts
    <2>1. /\ UNCHANGED <<thaw, thawer>>
          /\ \A t \in Thawers : thawer[t] = "idle"
          /\ \A k \in Keys : temp'[k] = "absent"
      BY <1>6 DEF ServerStarts, thawVars, LockInv, DownIdle
    <2> QED BY <2>1 DEF ThawInv, Emptied, Searchable, Sees
  <1>7. CASE UNCHANGED vars
    BY <1>7, DataUntouched DEF vars, thawVars
  <1> QED BY <1>1, <1>2, <1>3, <1>4, <1>5, <1>6, <1>7, NextCases

\* The whole invariant.
IInv == TypeOK /\ LockInv /\ ThawInv

\* Locks and data together, when each bucket has one format.
LEMMA ThawInvariance ==
  ASSUME OneFormat
  PROVE  Spec => []IInv
  <1>1. Init => IInv
    <2>1. Init => ThawInv
      BY DEF Init, ThawInv, Emptied, Searchable, Sees, Keys
    <2> QED BY <2>1, InitLocks DEF IInv
  <1>2. IInv /\ [Next]_vars => IInv'
    BY TypesStep, LocksStep, DataStep DEF IInv
  <1> QED BY <1>1, <1>2, PTL DEF Spec

\* When every bucket is archived in one format only: whatever failed transfers
\* and crashes have left at the temporary paths, and however many threads thaw
\* and flush, no part of a bucket is renamed into the thaw directory.
THEOREM PublishesWholeBuckets ==
  ASSUME OneFormat
  PROVE  Spec => PublishedWhole
  <1>1. IInv /\ [Next]_vars =>
          [\A t \in Thawers :
             thawer[t] = "rename" /\ thawer'[t] = "clean" /\ ThawAt(t) = "absent"
               => thaw'[NameAt(t)] # "torn"]_vars
    <2> SUFFICES ASSUME IInv, [Next]_vars, NEW t \in Thawers,
                        thawer[t] = "rename", thawer'[t] = "clean",
                        ThawAt(t) = "absent"
                 PROVE  thaw'[NameAt(t)] # "torn"
      OBVIOUS
    <2>1. Rename(t)
      <3>1. \A s \in Thawers : LocksOrMoves(s) => thawer'[t] = thawer[t]
        <4> SUFFICES ASSUME NEW s \in Thawers, LocksOrMoves(s)
                     PROVE  thawer'[t] = thawer[t]
          OBVIOUS
        <4>1. CASE s # t
          BY <4>1, LocksFrame DEF IInv
        <4>2. CASE s = t
          BY <4>2 DEF LocksOrMoves, ListFiltered, NextBucket, RespondThawed,
               OpenThawLock, TryLockExclusive, ConvertToShared, TryLockShared,
               CloseThawLock, BucketWasLocked, ThawerGoto
        <4> QED BY <4>1, <4>2
      <3>2. \A s \in Thawers \ {t} : Proceeds(s) => thawer'[t] = thawer[t]
        BY ProceedsFrame DEF IInv, LockInv, TypeOK
      <3>3. ~Archives /\ ~ServerCrashes /\ ~ServerStarts /\ ~UNCHANGED vars
            /\ \A g \in Flushers : ~Flushes(g)
        BY DEF Archives, Archive, LeaveIndex, ServerCrashes, ServerStarts,
             Flushes, ListThawed, FlusherStep, BuildThawed, BeginFlush,
             EndFlush, RespondFlushed, vars, thawVars
      <3>4. Proceeds(t)
        BY <3>1, <3>2, <3>3, NextCases
      <3> QED BY <3>4 DEF Proceeds, Prepare, GetFile, EndCopyToLocal, Commit,
                TransferThrows, CleanTransaction, CleanThrows, Abort, Import,
                Unpack, UnpackFails, ResolveSize, ResolveSizeThrows, Fail,
                ThawerGoto, IInv, TypeOK
    <2>2. TempAt(t) # "part" /\ TempAt(t) \in {"absent", "part", "whole"}
          /\ NameAt(t) \in Buckets
      BY DEF IInv, ThawInv, Sees, TypeOK, LockInv, HasKey, TempAt, NameAt, Keys
    <2>3. Transferred(t) # "torn" \/ TempAt(t) = "absent"
      BY <2>2 DEF Transferred
    <2> QED BY <2>1, <2>2, <2>3 DEF Rename, SetThaw, ThawerGoto, IInv, TypeOK
  <1> QED BY <1>1, ThawInvariance, PTL DEF Spec, PublishedWhole

\* When every bucket is archived in one format only: a bucket is reported as
\* thawed only when it has been imported, or a flusher is deleting it.
THEOREM ThawedBucketsAreImported ==
  ASSUME OneFormat
  PROVE  Spec => ThawedMeansImported
  <1>1. IInv /\ [Next]_vars =>
          [\A t \in Thawers :
             thawer[t] = "size" /\ outcome'[t] = "thawed"
               => ThawAt(t) \notin {"packed", "half"}]_vars
    BY DEF IInv, ThawInv, Sees
  <1> QED BY <1>1, ThawInvariance, PTL DEF Spec, ThawedMeansImported

=============================================================================
