------------------------ MODULE BucketTransferProofs ------------------------
(***************************************************************************)
(* For any number of servers and any set of files: the archive only grows, *)
(* and when no two executors share a server, and so no two share a         *)
(* temporary path, the transactions keep the promise of ArchivePromise.    *)
(***************************************************************************)
EXTENDS BucketTransfer, TLAPS

OwnServer == \A e, f \in Executors : ServerOf[e] = ServerOf[f] => e = f

\* A tree with these files of the bucket and nothing misplaced.
Has(tree, files) == tree.exists /\ tree.files = files /\ ~tree.stray

(***************************************************************************)
(* What an executor knows at each step of its transaction.  Between purge  *)
(* and rename its temporary path has what it wrote there, and nothing else.*)
(***************************************************************************)
Knows(e) ==
  /\ pc[e] = "open" => ~TempOf(e).exists
  /\ pc[e] = "copy" =>
       /\ ~nested[e]
       /\ Has(TempOf(e), Parts \ left[e])
  /\ pc[e] = "commit" => dst.exists \/ Has(TempOf(e), Parts)
  /\ pc[e] = "rename" => Has(TempOf(e), Parts)
  /\ pc[e] = "clean" => thrown[e] \/ dst.exists
  /\ pc[e] = "delete" => dst.exists
  /\ outcome[e] = "ok" => dst.exists

IInv ==
  /\ TypeOK
  /\ NeverPartial
  /\ \A e \in Executors : Knows(e)
  /\ \A s \in Servers : local[s] = "deleted" => dst.exists

-----------------------------------------------------------------------------

\* No server has begun, and the archive path does not exist.
LEMMA InitIInv == Init => IInv
  BY ServerOfType
  DEF Init, IInv, TypeOK, NeverPartial, Whole, Knows, TempOf, NoTree, Tree,
      Steps

\* Types do not depend on who shares a server.
LEMMA TypeInvariant == TypeOK /\ [Next]_vars => TypeOK'
  <1> SUFFICES ASSUME TypeOK, [Next]_vars PROVE TypeOK'
    OBVIOUS
  <1> USE ServerOfType DEF TypeOK, Tree, Steps, TransactionSteps, NoTree,
          EmptyTree, Goto, SetTemp, TempOf, AfterCopy
  <1>1. ASSUME NEW e \in Executors, Start(e) PROVE TypeOK'
    BY <1>1 DEF Start
  <1>2. ASSUME NEW e \in Executors, Execute(e) PROVE TypeOK'
    <2>1. CASE SkipArchived(e)        BY <2>1 DEF SkipArchived
    <2>2. CASE TransferNotArchived(e) BY <2>2 DEF TransferNotArchived
    <2>3. CASE Prepare(e)             BY <2>3 DEF Prepare
    <2>4. CASE MakeDirectories(e)     BY <2>4 DEF MakeDirectories
    <2>5. CASE PutFile(e)             BY <2>5 DEF PutFile
    <2>6. CASE PurgeTemp(e)           BY <2>6 DEF PurgeTemp
    <2>7. CASE OpenCopy(e)            BY <2>7 DEF OpenCopy
    <2>8. CASE EndCopy(e)             BY <2>8 DEF EndCopy
    <2>9. CASE Commit(e)              BY <2>9 DEF Commit
    <2>10. CASE Rename(e)             BY <2>10 DEF Rename
    <2>11. CASE RenameRefused(e)      BY <2>11 DEF RenameRefused
    <2>12. CASE Throw(e)              BY <2>12 DEF Throw
    <2>13. CASE Clean(e)              BY <2>13 DEF Clean
    <2>14. CASE CleanThrows(e)        BY <2>14 DEF CleanThrows
    <2>15. CASE DeleteLocal(e)        BY <2>15 DEF DeleteLocal
    <2>16. ASSUME NEW p \in Parts, CopyPart(e, p) PROVE TypeOK'
      BY <2>16 DEF CopyPart
    <2> QED BY <1>2, <2>1, <2>2, <2>3, <2>4, <2>5, <2>6, <2>7, <2>8, <2>9,
               <2>10, <2>11, <2>12, <2>13, <2>14, <2>15, <2>16 DEF Execute
  <1>3. ASSUME NEW s \in Servers, Freeze(s) PROVE TypeOK'
    BY <1>3 DEF Freeze
  <1>4. ASSUME NEW s \in Servers, Crash(s) PROVE TypeOK'
    BY <1>4 DEF Crash
  <1>5. CASE UNCHANGED vars
    BY <1>5 DEF vars
  <1> QED BY <1>1, <1>2, <1>3, <1>4, <1>5 DEF Next

\* One executor's step leaves the others what they know, because their
\* temporary paths are theirs alone.
LEMMA Undisturbed ==
  ASSUME OwnServer, TypeOK, TypeOK', NEW e \in Executors, NEW f \in Executors,
         f # e, Knows(f), dst.exists => dst'.exists,
         pc'[f] = pc[f], left'[f] = left[f], nested'[f] = nested[f],
         thrown'[f] = thrown[f], outcome'[f] = outcome[f],
         \A s \in Servers : s # ServerOf[e] => temp'[s] = temp[s]
  PROVE  Knows(f)'
  <1>1. ServerOf[f] \in Servers /\ ServerOf[f] # ServerOf[e]
    BY ServerOfType DEF OwnServer
  <1>2. TempOf(f)' = TempOf(f)
    BY <1>1 DEF TempOf
  <1> QED BY <1>2 DEF Knows, Has

\* What a step of executor e does: it changes no other executor's frame and
\* no other server's temporary path, keeps the archive whole, and leaves e
\* knowing what it needs for its next step.
StepOf(e) ==
  /\ \A f \in Executors \ {e} :
       /\ pc'[f] = pc[f] /\ left'[f] = left[f] /\ nested'[f] = nested[f]
       /\ thrown'[f] = thrown[f] /\ outcome'[f] = outcome[f]
  /\ \A s \in Servers : s # ServerOf[e] => temp'[s] = temp[s]
  /\ dst.exists => dst'.exists
  /\ NeverPartial'
  /\ Knows(e)'
  /\ \A s \in Servers : local'[s] = "deleted" => dst'.exists

\* A step of an executor keeps what it knows itself about its temporary path,
\* its copy and the archive.
LEMMA ExecutorStep ==
  ASSUME TypeOK, TypeOK', NeverPartial, NEW e \in Executors, Knows(e),
         \A s \in Servers : local[s] = "deleted" => dst.exists,
         Start(e) \/ Execute(e)
  PROVE  StepOf(e)
  <1> USE ServerOfType
      DEF StepOf, Knows, TypeOK, NeverPartial, Whole, Has, Tree,
          NoTree, EmptyTree, TempOf, SetTemp, Goto, AfterCopy
  <1>1. CASE Start(e)
    BY <1>1 DEF Start
  <1>2. CASE SkipArchived(e)
    BY <1>2 DEF SkipArchived, IsArchived
  <1>3. CASE TransferNotArchived(e)
    BY <1>3 DEF TransferNotArchived
  <1>4. CASE Prepare(e)
    BY <1>4 DEF Prepare
  <1>5. CASE MakeDirectories(e)
    BY <1>5 DEF MakeDirectories
  <1>6. CASE PutFile(e)
    BY <1>6 DEF PutFile
  <1>7. CASE PurgeTemp(e)
    BY <1>7 DEF PurgeTemp
  <1>8. CASE OpenCopy(e)
    BY <1>8 DEF OpenCopy
  <1>9. CASE EndCopy(e)
    BY <1>9 DEF EndCopy
  <1>10. CASE Commit(e)
    BY <1>10 DEF Commit
  <1>11. CASE Rename(e)
    BY <1>11 DEF Rename
  <1>12. CASE RenameRefused(e)
    BY <1>12 DEF RenameRefused
  <1>13. CASE Throw(e)
    BY <1>13 DEF Throw, TransactionSteps
  <1>14. CASE Clean(e)
    BY <1>14 DEF Clean
  <1>15. CASE CleanThrows(e)
    BY <1>15 DEF CleanThrows
  <1>16. CASE DeleteLocal(e)
    BY <1>16 DEF DeleteLocal
  <1>17. ASSUME NEW p \in Parts, CopyPart(e, p)
        PROVE  StepOf(e)
    BY <1>17 DEF CopyPart
  <1> QED
    BY <1>1, <1>2, <1>3, <1>4, <1>5, <1>6, <1>7, <1>8, <1>9, <1>10, <1>11, <1>12, <1>13, <1>14, <1>15, <1>16, <1>17 DEF Execute

\* IInv is inductive.
LEMMA NextIInv ==
  ASSUME OwnServer
  PROVE  IInv /\ [Next]_vars => IInv'
  <1> SUFFICES ASSUME IInv, [Next]_vars PROVE IInv'
    OBVIOUS
  <1>1. TypeOK /\ TypeOK'
    BY TypeInvariant DEF IInv
  <1>2. ASSUME NEW e \in Executors, Start(e) \/ Execute(e)
        PROVE  IInv'
    <2>1. StepOf(e)
      BY <1>1, <1>2, ExecutorStep DEF IInv
    <2>2. ASSUME NEW f \in Executors
          PROVE  Knows(f)'
      <3>1. CASE f = e
        BY <2>1, <3>1 DEF StepOf
      <3>2. CASE f # e
        <4>1. Knows(f)
          BY DEF IInv
        <4> QED
          BY <1>1, <2>1, <3>2, <4>1, Undisturbed DEF StepOf
      <3> QED BY <3>1, <3>2
    <2> QED BY <1>1, <2>1, <2>2 DEF IInv, StepOf
  <1>3. ASSUME NEW s \in Servers, Freeze(s)
        PROVE  IInv'
    <2>1. UNCHANGED <<dst, temp, pc, left, nested, thrown, outcome>>
      BY <1>3 DEF Freeze
    <2>2. ASSUME NEW t \in Servers, local'[t] = "deleted"
          PROVE  dst'.exists
      BY <1>1, <1>3, <2>1, <2>2 DEF Freeze, IInv, TypeOK
    <2>3. ASSUME NEW e \in Executors
          PROVE  Knows(e)'
      BY <2>1 DEF IInv, Knows, Has, TempOf
    <2> QED BY <1>1, <2>1, <2>2, <2>3 DEF IInv, NeverPartial, Whole
  <1>4. ASSUME NEW s \in Servers, Crash(s)
        PROVE  IInv'
    <2>1. UNCHANGED <<dst, temp, local>>
      BY <1>4 DEF Crash
    <2>2. ASSUME NEW e \in Executors
          PROVE  Knows(e)'
      BY <1>1, <1>4, <2>1 DEF IInv, TypeOK, Knows, Has, TempOf, Crash
    <2> QED BY <1>1, <2>1, <2>2 DEF IInv, NeverPartial, Whole
  <1>5. CASE UNCHANGED vars
    <2>1. ASSUME NEW e \in Executors
          PROVE  Knows(e)'
      BY <1>5 DEF vars, IInv, Knows, Has, TempOf
    <2> QED BY <1>1, <1>5, <2>1 DEF vars, IInv, NeverPartial, Whole
  <1> QED BY <1>2, <1>3, <1>4, <1>5 DEF Next

\* The invariant holds in every state, when no two executors share a server.
LEMMA Invariance ==
  ASSUME OwnServer
  PROVE  Spec => []IInv
  <1>1. Init => IInv
    BY InitIInv
  <1>2. IInv /\ [Next]_vars => IInv'
    BY NextIInv
  <1> QED BY <1>1, <1>2, PTL DEF Spec

-----------------------------------------------------------------------------

\* Every variable keeps its type, whoever shares a temporary path.
THEOREM Typing == Spec => []TypeOK
  <1>1. Init => TypeOK
    BY ServerOfType DEF Init, TypeOK, Tree, NoTree, Steps
  <1>2. TypeOK /\ [Next]_vars => TypeOK'
    BY TypeInvariant
  <1> QED BY <1>1, <1>2, PTL DEF Spec

\* PutBucketTransaction never shows a reader a part of a bucket, as long as
\* its temporary path is its own.
THEOREM PublishedWhole ==
  ASSUME OwnServer
  PROVE  Spec => []NeverPartial
  <1>1. IInv => NeverPartial
    BY DEF IInv
  <1> QED BY <1>1, Invariance, PTL

\* BucketArchiver deletes a local bucket only when the archive has all of it.
THEOREM DeletedOnlyWhenArchived ==
  ASSUME OwnServer
  PROVE  Spec => []NoDataLoss
  <1>1. IInv => NoDataLoss
    BY DEF IInv, NoDataLoss, NeverPartial
  <1> QED BY <1>1, Invariance, PTL

\* The bucket at the archive path is never taken away and never shrinks, whoever
\* shares a temporary path: only a rename writes there, and it replaces nothing
\* that exists (HadoopArchiveFileSystem.java:74-86).
THEOREM ArchiveIsPermanent == Spec => ArchiveOnlyGrows
  <1>1. TypeOK /\ [Next]_vars
          => [dst.exists => dst'.exists /\ dst.files \subseteq dst'.files]_dst
    <2> SUFFICES ASSUME TypeOK, [Next]_vars, dst.exists
                 PROVE  dst' = dst \/ (dst'.exists /\ dst.files \subseteq dst'.files)
      OBVIOUS
    <2>1. ASSUME NEW e \in Executors, Rename(e)
          PROVE  dst'.exists /\ dst'.files = dst.files
      BY <2>1 DEF Rename, TypeOK, Tree
    <2>2. ASSUME NEW e \in Executors, Start(e) \/ (Execute(e) /\ ~Rename(e))
          PROVE  dst' = dst
      BY <2>2
      DEF Start, Execute, SkipArchived, TransferNotArchived, Prepare, MakeDirectories,
          PutFile, PurgeTemp, OpenCopy, EndCopy, Commit, RenameRefused, Throw, Clean,
          CleanThrows, DeleteLocal, CopyPart
    <2>3. ASSUME NEW s \in Servers, Freeze(s) \/ Crash(s)
          PROVE  dst' = dst
      BY <2>3 DEF Freeze, Crash
    <2>4. CASE UNCHANGED vars
      BY <2>4 DEF vars
    <2> QED BY <2>1, <2>2, <2>3, <2>4 DEF Next
  <1> QED BY <1>1, Typing, PTL DEF Spec, ArchiveOnlyGrows

(***************************************************************************)
(* The refinement.  A rename publishes, a deletion discards, and every     *)
(* other step at most changes a report, to "ok" only when the bucket is in *)
(* the archive.                                                            *)
(***************************************************************************)
Reporting ==
  /\ UNCHANGED <<dst, local>>
  /\ \A f \in Executors :
       outcome'[f] = "ok" /\ outcome[f] # "ok" => dst.exists

\* A step that neither renames nor deletes is one of the contract's Report steps,
\* or a step that the contract does not see.
LEMMA QuietStep ==
  ASSUME TypeOK, NEW e \in Executors, Knows(e), Start(e) \/ Execute(e),
         ~Rename(e), ~DeleteLocal(e)
  PROVE  Reporting
  <1> USE DEF Reporting, TypeOK
  <1>1. CASE Start(e)
    BY <1>1 DEF Start, Goto
  <1>2. CASE TransferNotArchived(e)
    BY <1>2 DEF TransferNotArchived, Goto
  <1>3. CASE Prepare(e)
    BY <1>3 DEF Prepare, Goto
  <1>4. CASE MakeDirectories(e)
    BY <1>4 DEF MakeDirectories, Goto
  <1>5. CASE PutFile(e)
    BY <1>5 DEF PutFile, Goto
  <1>6. CASE PurgeTemp(e)
    BY <1>6 DEF PurgeTemp, Goto
  <1>7. CASE OpenCopy(e)
    BY <1>7 DEF OpenCopy, Goto
  <1>8. CASE EndCopy(e)
    BY <1>8 DEF EndCopy, Goto
  <1>9. CASE Commit(e)
    BY <1>9 DEF Commit, Goto
  <1>10. CASE RenameRefused(e)
    BY <1>10 DEF RenameRefused, Goto
  <1>11. CASE SkipArchived(e)
    BY <1>11 DEF SkipArchived, Goto, IsArchived
  <1>12. CASE Throw(e)
    BY <1>12 DEF Throw, Goto
  <1>13. CASE Clean(e)
    BY <1>13 DEF Clean, Goto, Knows
  <1>14. CASE CleanThrows(e)
    BY <1>14 DEF CleanThrows, Goto
  <1>15. ASSUME NEW p \in Parts, CopyPart(e, p)
        PROVE  Reporting
    BY <1>15 DEF CopyPart
  <1> QED
    BY <1>1, <1>2, <1>3, <1>4, <1>5, <1>6, <1>7, <1>8, <1>9, <1>10, <1>11, <1>12, <1>13, <1>14, <1>15 DEF Execute

\* Nothing is archived, reported or given up in the beginning.
LEMMA InitPromise == Init => Promise!Init
  BY DEF Init, Promise!Init, NoTree

\* Every step publishes the whole bucket, reports, discards the local bucket of
\* an archived one, or changes nothing that the contract speaks of.
LEMMA StepPromise ==
  ASSUME IInv, IInv', [Next]_vars
  PROVE  [Promise!Next]_(Promise!promiseVars)
  <1> USE DEF Promise!promiseVars
  <1>1. /\ TypeOK /\ TypeOK'
        /\ dst.exists => Whole(dst)
        /\ dst'.exists => Whole(dst')
    BY DEF IInv, NeverPartial
  <1>2. ASSUME Reporting
        PROVE  [Promise!Next]_(Promise!promiseVars)
    <2>1. outcome' \in [Executors -> Promise!Reports]
      BY <1>1 DEF TypeOK, Promise!Reports
    <2>2. Promise!Report
      BY <1>1, <1>2, <2>1 DEF Reporting, Promise!Report, Whole
    <2> QED BY <2>2 DEF Promise!Next
  <1>3. ASSUME NEW e \in Executors, Start(e) \/ Execute(e)
        PROVE  [Promise!Next]_(Promise!promiseVars)
    <2>1. CASE Rename(e)
      <3>1. dst'.exists /\ UNCHANGED <<local, outcome>>
        BY <2>1, <1>1 DEF Rename, TypeOK, Tree
      <3>2. Promise!Publish
        BY <1>1, <3>1 DEF Promise!Publish
      <3> QED BY <3>2 DEF Promise!Next
    <2>2. CASE DeleteLocal(e)
      <3>1. dst.exists /\ UNCHANGED <<dst, outcome>>
        BY <2>2 DEF DeleteLocal, Goto, IInv, Knows
      <3>2. ServerOf[e] \in Servers
        BY ServerOfType
      <3>3. CASE local' = local
        BY <3>1, <3>3
      <3>4. CASE local' = [local EXCEPT ![ServerOf[e]] = "deleted"]
        <4>1. {s \in Servers : local'[s] # "deleted"}
                = {s \in Servers : local[s] # "deleted"} \ {ServerOf[e]}
          BY <1>1, <3>2, <3>4 DEF TypeOK
        <4>2. Promise!Discard(ServerOf[e])
          BY <1>1, <3>1, <4>1 DEF Promise!Discard
        <4> QED BY <3>2, <4>2 DEF Promise!Next
      <3> QED BY <2>2, <3>3, <3>4 DEF DeleteLocal
    <2>3. CASE ~Rename(e) /\ ~DeleteLocal(e)
      <3>1. Knows(e)
        BY DEF IInv
      <3> QED BY <1>1, <1>2, <1>3, <2>3, <3>1, QuietStep
    <2> QED BY <2>1, <2>2, <2>3
  <1>4. ASSUME NEW s \in Servers, Freeze(s)
        PROVE  [Promise!Next]_(Promise!promiseVars)
    <2>1. {t \in Servers : local'[t] # "deleted"}
            = {t \in Servers : local[t] # "deleted"}
      BY <1>1, <1>4 DEF Freeze, TypeOK
    <2> QED BY <1>4, <2>1 DEF Freeze
  <1>5. ASSUME NEW s \in Servers, Crash(s)
        PROVE  [Promise!Next]_(Promise!promiseVars)
    BY <1>1, <1>2, <1>5 DEF Crash, Reporting, TypeOK
  <1>6. CASE UNCHANGED vars
    BY <1>6 DEF vars
  <1> QED BY <1>3, <1>4, <1>5, <1>6 DEF Next

\* Servers that archive with temporary paths of their own implement the
\* contract: the bucket appears in the archive whole and in one step.
THEOREM Refinement ==
  ASSUME OwnServer
  PROVE  Spec => KeepsThePromise
  <1>1. Init => Promise!Init
    BY InitPromise
  <1>2. IInv /\ IInv' /\ [Next]_vars
          => [Promise!Next]_(Promise!promiseVars)
    BY StepPromise
  <1> QED
    BY <1>1, <1>2, Invariance, PTL DEF Spec, KeepsThePromise, Promise!Spec
=============================================================================
