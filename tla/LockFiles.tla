------------------------------ MODULE LockFiles ------------------------------
(***************************************************************************)
(* The lock files of buckets: BucketLock and SimpleFileLock over the       *)
(* java.nio locks of an operating system.                                  *)
(*                                                                         *)
(* A lock belongs to an inode, not to a path.  A bucket's lock path is     *)
(* bound to an inode by touching the file and unbound by deleting it; who  *)
(* has the file open keeps the inode.  java.nio holds a lock on behalf of  *)
(* the whole JVM: two JVMs exclude each other by the mode of their locks,  *)
(* and within one JVM any second lock on the inode is refused              *)
(* (OverlappingFileLockException, SimpleFileLock.java:81).                 *)
(***************************************************************************)
CONSTANTS Buckets,    \* the buckets, each with one lock path
          Actors,     \* who locks: the main thread of a JVM, or one of many
          ProcessOf,  \* the JVM that an actor runs in
          Inodes,     \* bound: the inodes that lock files are made of
          NoInode

ASSUME NoInodeIsNoInode == NoInode \notin Inodes

VARIABLES
  link,    \* the inode that a bucket's lock path leads to
  opened,  \* the inode of the channel that an actor has open
  mode,    \* the lock that an actor has on it
  leaked   \* the JVMs that hold a shared lock which no actor can close

lockVars == <<link, opened, mode, leaked>>

LocksTypeOK ==
  /\ link \in [Buckets -> Inodes \cup {NoInode}]
  /\ opened \in [Actors -> Inodes \cup {NoInode}]
  /\ mode \in [Actors -> {"none", "shared", "exclusive"}]
  /\ leaked \in [Inodes -> SUBSET {ProcessOf[a] : a \in Actors}]

LocksInit ==
  /\ link = [b \in Buckets |-> NoInode]
  /\ opened = [a \in Actors |-> NoInode]
  /\ mode = [a \in Actors |-> "none"]
  /\ leaked = [i \in Inodes |-> {}]

FreeInodes ==
  {i \in Inodes : /\ \A b \in Buckets : link[b] # i
                  /\ \A a \in Actors : opened[a] # i
                  /\ leaked[i] = {}}

\* Inodes are alike, so a new file may take any free one.
InodeAt(b) ==
  IF link[b] # NoInode THEN {link[b]}
  ELSE {i \in FreeInodes : i = CHOOSE j \in FreeInodes : TRUE}

\* new BucketLock(bucket, dir): touch the lock file, open it.  It is touched
\* once more after it was opened, which binds the path again if it was deleted
\* in between, just like the touch of the next one who opens it.
OpenLockFile(a, b) ==
  /\ \E i \in InodeAt(b) :
       /\ link' = [link EXCEPT ![b] = i]
       /\ opened' = [opened EXCEPT ![a] = i]
  /\ UNCHANGED <<mode, leaked>>

\* FileChannel.tryLock would give the actor a lock of this mode.
Lockable(a, m) ==
  /\ \A other \in Actors \ {a} :
       opened[other] = opened[a] /\ mode[other] # "none" =>
         /\ ProcessOf[other] # ProcessOf[a]
         /\ mode[other] = "shared" /\ m = "shared"
  /\ ProcessOf[a] \notin leaked[opened[a]]
  /\ leaked[opened[a]] # {} => m = "shared"

Lock(a, m) ==
  /\ mode' = [mode EXCEPT ![a] = m]
  /\ UNCHANGED <<link, opened, leaked>>

\* SimpleFileLock.releaseLock: the channel stays open.
ReleaseLock(a) == Lock(a, "none")

\* Closing the channel releases its lock.
CloseLock(a) ==
  /\ mode' = [mode EXCEPT ![a] = "none"]
  /\ opened' = [opened EXCEPT ![a] = NoInode]
  /\ UNCHANGED <<link, leaked>>

\* An actor loses its reference to a lock that it has not closed.
LeakLock(a) ==
  /\ leaked' = [leaked EXCEPT ![opened[a]] = @ \cup {ProcessOf[a]}]
  /\ mode' = [mode EXCEPT ![a] = "none"]
  /\ opened' = [opened EXCEPT ![a] = NoInode]
  /\ UNCHANGED link

\* BucketLock.deleteLockFile deletes whatever file is at the path.
DeleteLockFile(b) ==
  /\ link' = [link EXCEPT ![b] = NoInode]
  /\ UNCHANGED <<opened, mode, leaked>>

\* A JVM exits: the operating system closes its files.
ExitProcess(p) ==
  /\ opened' = [a \in Actors |->
                  IF ProcessOf[a] = p THEN NoInode ELSE opened[a]]
  /\ mode' = [a \in Actors |-> IF ProcessOf[a] = p THEN "none" ELSE mode[a]]
  /\ leaked' = [i \in Inodes |-> leaked[i] \ {p}]
  /\ UNCHANGED link
=============================================================================
