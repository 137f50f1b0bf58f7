--------------------------- MODULE MetadataProofs ---------------------------
(***************************************************************************)
(* Proofs about Metadata for any number of servers and of threads that put *)
(* and read, any data, any faults, and any bound on them.                  *)
(*                                                                         *)
(* That nothing but data gets to the archive's path depends on the flat    *)
(* file, which the server's reader deletes and replaces while a putter     *)
(* writes and copies it: the invariant says what either thread knows of    *)
(* the paths that it is about to use.  It holds until two threads of one   *)
(* server have put at once, which overlapped remembers.                    *)
(***************************************************************************)
EXTENDS Metadata, TLAPS

\* What a path holds that is not to be half of something: data, or nothing.
Whole(content) == content \in Data \cup {"none"}

\* The flat file is whole from when it is written until it is copied, even when
\* it was written to after somebody had deleted it, and nothing is at the
\* temporary path when the copy begins.
PutterInv(p) ==
  /\ putter[p] \notin {"idle", "fail"} => value[p] \in Data
  /\ putter[p] = "write" /\ p \in unlinked => Whole(flat[server[p]])
  /\ putter[p] \in {"prepare", "mkdirs", "check", "purge", "copy"} =>
       Whole(flat[server[p]])
  /\ putter[p] \in {"copy", "send"} => temp[server[p]] # "dir"
  /\ putter[p] \in {"commit", "rename"} =>
       stored \in Data \/ temp[server[p]] \in Data
  /\ putter[p] = "clean" \/ put[p] = "ok" => stored \in Data
  /\ putter[p] # "cut"
  /\ p \in unlinked => putter[p] \in {"write", "send"}

\* A reader renames what it has received, or nothing.
ReaderInv(s) ==
  /\ reader[s] \in {"copy", "receive"} => transfer[s] # "dir"
  /\ reader[s] = "receive" => stored \in Data
  /\ reader[s] = "commit" => flat[s] # "none" \/ transfer[s] \in Data
  /\ reader[s] = "rename" => transfer[s] \in Data

\* While no two threads of a server have put at once, at most one is putting.
Alone ==
  \A p \in Putters : putter[p] # "idle" => \A q \in Others(p) : putter[q] = "idle"

Promise ==
  /\ Alone
  /\ Whole(stored)
  /\ \A p \in Putters : PutterInv(p)
  /\ \A s \in Servers : ReaderInv(s)

Inv == TypeOK /\ (~overlapped => Promise)

-----------------------------------------------------------------------------

\* Nothing is anywhere at first.
LEMMA InitEstablishesInv == Init => Inv
  <1> SUFFICES ASSUME Init PROVE Inv
    OBVIOUS
  <1>1. server \in [Putters -> Servers]
    BY MetadataServersAssumption DEF Init
  <1>2. TypeOK
    <2>1. ~overlapped /\ overlapped \in BOOLEAN /\ \A s \in Servers : flat[s] # "dir"
      BY DEF Init
    <2>2. /\ flat \in [Servers -> Data \cup NoData]
          /\ temp \in [Servers -> Data \cup NoData]
          /\ transfer \in [Servers -> Data \cup NoData]
          /\ value \in [Putters -> Data \cup NoData]
      BY DEF Init, NoData
    <2> QED
      BY <1>1, <2>1, <2>2, MetadataFaultsAssumption
      DEF Init, TypeOK, NoData, PutSteps, ReadSteps
  <1>3. Promise
    BY <1>1 DEF Init, Promise, Alone, Whole, PutterInv, ReaderInv
  <1> QED BY <1>2, <1>3 DEF Inv

\* No step of the putter, which writes to the archive's path last, breaks it.
LEMMA PutStepKeepsInv ==
  ASSUME Inv, NEW p \in Putters,
         \/ \E d \in DataOf[p] : Put(p, d)
         \/ CleanBucketTransfer(p)
         \/ PutStep(p)
  PROVE  Inv'
  <1> USE MetadataDataAssumption, MetadataFaultsAssumption
      DEF Inv, Promise, Alone, TypeOK, Whole, NoData, PutSteps, Others, PutterGoto,
          PutterGotoAndCut, Putting, Resend, Overlap, putVars, readVars, PutterInv,
          ReaderInv
  <1>1. ASSUME NEW d \in DataOf[p], Put(p, d) PROVE Inv'
    <2>1. TypeOK'
      BY <1>1 DEF Put
    <2>2. ASSUME ~overlapped' PROVE Alone'
      <3>1. \A q \in Others(p) : putter[q] = "idle"
        BY <1>1, <2>2 DEF Put
      <3>2. \A q \in Putters : q # p => putter'[q] = putter[q]
        BY <1>1 DEF Put
      <3>3. ~overlapped
        BY <1>1, <2>2 DEF Put
      <3> QED BY <1>1, <2>1, <3>1, <3>2, <3>3 DEF Put
    <2>3. ASSUME ~overlapped' PROVE Promise'
      BY <1>1, <2>2, <2>3 DEF Put
    <2> QED BY <2>1, <2>3
  <1>2. CASE CleanBucketTransfer(p)
    BY <1>2 DEF CleanBucketTransfer
  <1>3. CASE CreateFlatFile(p)
    BY <1>3 DEF CreateFlatFile
  <1>4. CASE OpenFlatFile(p)
    <2>1. TypeOK'
      BY <1>4 DEF OpenFlatFile
    <2>2. ASSUME ~overlapped' PROVE Promise'
      <3>1. \A q \in Others(p) : putter[q] # "send"
        BY <1>4, <2>2 DEF OpenFlatFile
      <3>2. \A q \in Putters : q # p => value'[q] = value[q]
        BY <1>4, <3>1 DEF OpenFlatFile
      <3>3. CASE putter'[p] = "write"
        <4>1. value'[p] = value[p] /\ unlinked' = unlinked /\ flat[server[p]] # "dir"
          BY <1>4, <3>3 DEF OpenFlatFile
        <4>2. \A q \in Putters : q # p => putter'[q] = putter[q]
          BY <1>4 DEF OpenFlatFile
        <4>3. Alone' /\ Whole(stored)' /\ \A s \in Servers : ReaderInv(s)'
          BY <1>4, <2>2, <3>3, <4>1, <4>2 DEF OpenFlatFile
        <4>4. PutterInv(p)'
          BY <1>4, <2>2, <3>3, <4>1 DEF OpenFlatFile
        <4>5. ASSUME NEW q \in Putters, q # p PROVE PutterInv(q)'
          <5>1. CASE server[q] = server[p]
            BY <1>4, <2>2, <3>2, <4>1, <4>2, <4>5, <5>1 DEF OpenFlatFile
          <5>2. CASE server[q] # server[p]
            BY <1>4, <2>2, <3>2, <4>1, <4>2, <4>5, <5>2 DEF OpenFlatFile
          <5> QED BY <5>1, <5>2
        <4> QED BY <4>3, <4>4, <4>5
      <3>4. CASE putter'[p] = "idle"
        BY <1>4, <2>2, <3>2, <3>4 DEF OpenFlatFile
      <3> QED BY <1>4, <3>3, <3>4 DEF OpenFlatFile
    <2> QED BY <2>1, <2>2
  <1>5. CASE WriteFlatFile(p)
    BY <1>5 DEF WriteFlatFile
  <1>6. CASE PreparePut(p)
    BY <1>6 DEF PreparePut
  <1>7. CASE MakeTempDirectory(p)
    BY <1>7 DEF MakeTempDirectory
  <1>8. CASE CheckOverwrite(p)
    BY <1>8 DEF CheckOverwrite
  <1>9. CASE PurgeTemp(p)
    BY <1>9 DEF PurgeTemp
  <1>10. CASE OpenCopy(p)
    BY <1>10 DEF OpenCopy
  <1>11. CASE EndCopy(p)
    BY <1>11 DEF EndCopy
  <1>12. CASE CommitPut(p)
    BY <1>12 DEF CommitPut
  <1>13. CASE RenameTemp(p)
    <2>1. TypeOK'
      BY <1>13 DEF RenameTemp
    <2>2. ASSUME ~overlapped' PROVE Promise'
      BY <1>13, <2>2 DEF RenameTemp
    <2> QED BY <2>1, <2>2
  <1>14. CASE CleanPut(p)
    <2>1. TypeOK'
      <3>1. temp' \in [Servers -> Data \cup NoData]
        BY <1>14 DEF CleanPut
      <3>2. putter' \in [Putters -> PutSteps]
        BY <1>14 DEF CleanPut
      <3>3. put' \in [Putters -> {"none", "ok", "failed"}]
        BY <1>14 DEF CleanPut, EndPut
      <3>4. /\ value' \in [Putters -> Data \cup NoData]
            /\ unlinked' \subseteq Putters
        BY <1>14 DEF CleanPut, EndPut
      <3> QED BY <1>14, <3>1, <3>2, <3>3, <3>4 DEF CleanPut, EndPut
    <2>2. ASSUME ~overlapped' PROVE Promise'
      BY <1>14, <2>2 DEF CleanPut, EndPut
    <2> QED BY <2>1, <2>2
  <1> QED
    BY <1>1, <1>2, <1>3, <1>4, <1>5, <1>6, <1>7, <1>8, <1>9, <1>10, <1>11,
       <1>12, <1>13, <1>14 DEF PutStep

\* No step of the reader breaks it, wherever the putter is.
LEMMA ReadStepKeepsInv ==
  ASSUME Inv, NEW s \in Servers, Read(s) \/ ReadStep(s)
  PROVE  Inv'
  <1> USE MetadataDataAssumption
      DEF Inv, Promise, Alone, TypeOK, Whole, NoData, ReadSteps, ReaderGoto,
          Reading, Others, putVars, Replace, PutterInv, ReaderInv
  <1>1. CASE Read(s)
    BY <1>1 DEF Read
  <1>2. CASE LookAtFlatFile(s)
    BY <1>2 DEF LookAtFlatFile
  <1>3. CASE DeleteFlatFile(s)
    BY <1>3 DEF DeleteFlatFile
  <1>4. CASE MakeTransferDirectory(s)
    BY <1>4 DEF MakeTransferDirectory
  <1>5. CASE PrepareGet(s)
    BY <1>5 DEF PrepareGet
  <1>6. CASE PurgeTransfer(s)
    BY <1>6 DEF PurgeTransfer
  <1>7. CASE OpenGet(s)
    BY <1>7 DEF OpenGet
  <1>8. CASE EndGet(s)
    BY <1>8 DEF EndGet
  <1>9. CASE CommitGet(s)
    BY <1>9 DEF CommitGet
  <1>10. CASE RenameTransfer(s)
    <2>1. TypeOK'
      <3>1. unlinked' \subseteq Putters
        BY <1>10 DEF RenameTransfer
      <3>2. ~overlapped' => \A r \in Servers : flat'[r] # "dir"
        BY <1>10 DEF RenameTransfer
      <3> QED BY <1>10, <3>1, <3>2 DEF RenameTransfer
    <2>2. ASSUME ~overlapped' PROVE Promise'
      BY <1>10, <2>2 DEF RenameTransfer
    <2> QED BY <2>1, <2>2
  <1>11. CASE CleanGet(s)
    BY <1>11 DEF CleanGet
  <1>12. CASE ReturnRead(s)
    BY <1>12 DEF ReturnRead, EndRead
  <1> QED
    BY <1>1, <1>2, <1>3, <1>4, <1>5, <1>6, <1>7, <1>8, <1>9, <1>10, <1>11,
       <1>12 DEF ReadStep

\* No exception, crash or start breaks it.
LEMMA FaultKeepsInv ==
  ASSUME Inv,
         \/ \E p \in Putters : PutFails(p)
         \/ \E s \in Servers : GetFails(s) \/ ServerCrashes(s) \/ ServerStarts(s)
  PROVE  Inv'
  <1> USE MetadataDataAssumption, MetadataFaultsAssumption
      DEF Inv, Promise, Alone, TypeOK, Whole, NoData, PutSteps, ReadSteps, Fault,
          Others, putVars, readVars, PutterInv, ReaderInv
  <1>1. ASSUME NEW p \in Putters, PutThrows(p) PROVE Inv'
    BY <1>1 DEF PutThrows
  <1>2. ASSUME NEW p \in Putters, PutThrowsUncleaned(p) PROVE Inv'
    BY <1>2 DEF PutThrowsUncleaned, PutterGoto, EndPut
  <1>3. ASSUME NEW s \in Servers, GetThrows(s) PROVE Inv'
    BY <1>3 DEF GetThrows, ReaderGoto
  <1>4. ASSUME NEW s \in Servers, ReceiveThrows(s) PROVE Inv'
    BY <1>4 DEF ReceiveThrows, ReaderGoto
  <1>5. ASSUME NEW s \in Servers, CleanGetThrows(s) PROVE Inv'
    BY <1>5 DEF CleanGetThrows, EndRead, ReaderGoto
  <1>6. ASSUME NEW s \in Servers, ServerCrashes(s) PROVE Inv'
    BY <1>6 DEF ServerCrashes
  <1>7. ASSUME NEW s \in Servers, ServerStarts(s) PROVE Inv'
    BY <1>7 DEF ServerStarts
  <1> QED BY <1>1, <1>2, <1>3, <1>4, <1>5, <1>6, <1>7 DEF PutFails, GetFails

\* Nor does a step that changes nothing.
LEMMA StutterKeepsInv == Inv /\ UNCHANGED vars => Inv'
  BY DEF vars, putVars, readVars, Inv, Promise, Alone, Others, TypeOK, Whole,
         PutterInv, ReaderInv

\* The invariant holds in every behaviour.
LEMMA InvIsInvariant == Spec => []Inv
  <1>1. Inv /\ [Next]_vars => Inv'
    BY PutStepKeepsInv, ReadStepKeepsInv, FaultKeepsInv, StutterKeepsInv
    DEF Next
  <1> QED BY InitEstablishesInv, <1>1, PTL DEF Spec

-----------------------------------------------------------------------------

\* The variables keep their types: no directory gets to where a flat file is, but
\* when two threads of a server have put at once.
THEOREM MetadataTyping == Spec => []TypeOK
  <1>1. Inv => TypeOK
    BY DEF Inv
  <1> QED BY InvIsInvariant, <1>1, PTL

\* A put that returns has left data in the archive (MetadataStore.put), whoever
\* else puts on other servers, and whatever the reader does to the flat file,
\* while no two threads of a server have put at once.
THEOREM PutsAreStored == Spec => []PutMeansStored
  <1>1. Inv => PutMeansStored
    BY DEF Inv, Promise, PutterInv, PutMeansStored
  <1> QED BY InvIsInvariant, <1>1, PTL

\* What is in the archive is never replaced nor deleted (HadoopArchiveFileSystem's
\* rename), whoever puts.
THEOREM StoredStays == Spec => NeverReplaced
  <1>1. ASSUME Next, stored # "none" PROVE stored' = stored
    <2>1. ASSUME NEW s \in Servers, GetFails(s) \/ ServerCrashes(s) \/ ServerStarts(s)
          PROVE  stored' = stored
      BY <2>1 DEF GetFails, GetThrows, ReceiveThrows, CleanGetThrows, EndRead,
                  ServerCrashes, ServerStarts
    <2>2. ASSUME NEW s \in Servers, Read(s) \/ ReadStep(s)
          PROVE  stored' = stored
      BY <2>2 DEF ReadStep, Read, LookAtFlatFile, DeleteFlatFile,
                  MakeTransferDirectory, PrepareGet, PurgeTransfer, OpenGet,
                  EndGet, CommitGet, RenameTransfer, CleanGet, ReturnRead,
                  EndRead, Reading
    <2>3. ASSUME NEW p \in Putters,
                 \/ \E d \in DataOf[p] : Put(p, d)
                 \/ CleanBucketTransfer(p) \/ PutStep(p) \/ PutFails(p)
          PROVE  stored' = stored
      BY <1>1, <2>3 DEF PutStep, Put, CleanBucketTransfer, CreateFlatFile,
                  OpenFlatFile, WriteFlatFile, PreparePut, MakeTempDirectory,
                  CheckOverwrite, PurgeTemp, OpenCopy, EndCopy, CommitPut,
                  RenameTemp, CleanPut, EndPut, PutFails, PutThrows,
                  PutThrowsUncleaned
    <2> QED BY <1>1, <2>1, <2>2, <2>3 DEF Next
  <1>2. [Next]_vars => [stored # "none" => stored' = stored]_stored
    BY <1>1 DEF vars
  <1> QED BY <1>2, PTL DEF Spec, NeverReplaced
=============================================================================
