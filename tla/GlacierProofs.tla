---------------------------- MODULE GlacierProofs ---------------------------
(***************************************************************************)
(* Proofs about Glacier for any number of servers, any lists of formats,   *)
(* any faults, and any bound on them.  What is said of ids being put holds *)
(* for any number of workers of a server.  What is said of the content of  *)
(* uploads needs OneWorker: two workers of a server share an export        *)
(* directory, and the run glacier_shared_export shows what becomes of it.  *)
(***************************************************************************)
EXTENDS Glacier, TLAPS

OneWorker == \A v, w \in Workers : ServerOf[v] = ServerOf[w] => v = w

\* What ids lead to when no two workers share an export directory.
Named(id, f) == OneWorker => Names(id, f)
IdsNamed == OneWorker => IdsNameExports

\* What a tool has left that seemed to succeed.
Exported(content) == content \in {"torn", "whole"}

\* Some id of the format is put, somewhere that survives a restart.
Put(f) ==
  \/ stored[Uploaded(f)] # 0
  \/ \E s \in Servers : flat[s][Uploaded(f)] # 0

\* The worker is at a format of its list.
AtFormat(w) == worker[w] \notin {"idle", "next", "delete"}

\* The worker's own export is what it takes it for, from when its tool begins
\* until it is uploaded, when nobody shares its directory.
ExportInv(w) ==
  LET s == ServerOf[w]
      f == Uploaded(Format(w))
  IN  OneWorker =>
        /\ worker[w] = "tool" => file[s][f] = w
        /\ worker[w] = "create" => Exported(file[s][f])
        /\ worker[w] = "prepare" /\ Format(w) # "splunk" => Exported(dir[s][f])
        /\ worker[w] = "upload" => Exported(dir[s][f])

\* What the worker has uploaded is put before anything appears at an archive
\* path because of it.
PutInv(w) ==
  /\ worker[w] \in {"flat", "mkdirs", "store"} =>
       value[w] # 0 /\ Named(value[w], Format(w))
  /\ worker[w] \in {"mkdirs", "store", "discard", "commit", "size"} =>
       Put(Format(w))

\* A format is put, unless the worker has not dealt with it or is going to throw
\* what it has collected.
LoopInv(w) ==
  /\ AtFormat(w) => todo[w] # <<>>
  /\ worker[w] = "clean" => failed[w] \/ Put(Format(w))
  /\ worker[w] = "delete" => ~failed[w] /\ todo[w] = <<>>
  /\ worker[w] # "idle" =>
       \A i \in DOMAIN order :
         \/ failed[w]
         \/ Put(order[i])
         \/ \E j \in DOMAIN todo[w] : todo[w][j] = order[i]

Inv ==
  /\ TypeOK
  /\ IdsNamed
  /\ \A f \in Archivable : tree[f] # "absent" => Put(f)
  /\ \A w \in Workers : ExportInv(w) /\ PutInv(w) /\ LoopInv(w)

-----------------------------------------------------------------------------

\* When every id names an upload, one that is put can be found.
LEMMA PutIsFindable ==
  ASSUME TypeOK, IdsNameExports, NEW f \in Archivable
  PROVE  Put(f) <=> Findable(f)
  <1>1. Uploaded(f) \in Archivable /\ Uploaded(Uploaded(f)) = Uploaded(f)
    BY DEF Uploaded, Archivable
  <1>2. ASSUME stored[Uploaded(f)] # 0 PROVE Findable(f)
    BY <1>1, <1>2 DEF IdsNameExports, Findable, Names
  <1>3. ASSUME NEW s \in Servers, flat[s][Uploaded(f)] # 0 PROVE Findable(f)
    BY <1>1, <1>3 DEF IdsNameExports, Findable, Names
  <1>4. Findable(f) => Put(f)
    BY DEF Findable, Put
  <1> QED BY <1>2, <1>3, <1>4 DEF Put

\* Nothing is exported, uploaded or put at first.
LEMMA InitEstablishesInv == Init => Inv
  <1> SUFFICES ASSUME Init PROVE Inv
    OBVIOUS
  <1> USE FormatsAssumption, GlacierFaultsAssumption, ExportServersAssumption
      DEF Init, ExportsInit
  <1>1. vault \in Seq([format : Formats, content : {"part", "torn", "whole"}])
        /\ Len(vault) = 0
    OBVIOUS
  <1>2. TypeOK
    BY <1>1 DEF TypeOK, ExportsTypeOK, Content, WorkerSteps, Ids
  <1> QED
    BY <1>2 DEF Inv, IdsNamed, IdsNameExports, ExportInv, PutInv, LoopInv, AtFormat

-----------------------------------------------------------------------------
(***************************************************************************)
(* What a step of one worker leaves to the others                          *)
(***************************************************************************)

\* The formats that a worker deals with.
LEMMA FormatType ==
  ASSUME TypeOK, NEW w \in Workers, todo[w] # <<>>
  PROVE  /\ Format(w) \in Archivable
         /\ Uploaded(Format(w)) \in Formats
         /\ Uploaded(Format(w)) \in Archivable
         /\ Uploaded(Uploaded(Format(w))) = Uploaded(Format(w))
         /\ Format(w) = todo[w][1]
         /\ Tail(todo[w]) \in Seq(Archivable)
         /\ \A f \in Archivable :
              (\E j \in DOMAIN todo[w] : todo[w][j] = f) =>
                \/ f = Format(w)
                \/ \E j \in DOMAIN Tail(todo[w]) : Tail(todo[w])[j] = f
  <1>1. todo[w] \in Seq(Archivable)
    BY DEF TypeOK
  <1>2. Format(w) = todo[w][1] /\ Format(w) \in Archivable
    BY <1>1 DEF Format
  <1>3. Tail(todo[w]) \in Seq(Archivable)
    BY <1>1
  <1>4. ASSUME NEW j \in DOMAIN todo[w], j # 1
        PROVE  j - 1 \in DOMAIN Tail(todo[w]) /\ Tail(todo[w])[j - 1] = todo[w][j]
    BY <1>1, <1>4
  <1> QED
    BY <1>2, <1>3, <1>4, FormatsAssumption DEF Uploaded, Archivable

\* What is uploaded keeps its id.
LEMMA AppendedUpload ==
  ASSUME TypeOK, NEW r \in [format : Formats, content : {"part", "torn", "whole"}],
         vault' = Append(vault, r)
  PROVE  /\ vault' \in Seq([format : Formats, content : {"part", "torn", "whole"}])
         /\ Len(vault') = Len(vault) + 1 /\ Len(vault') \in Ids' /\ Len(vault') # 0
         /\ vault'[Len(vault')] = r
         /\ Ids \subseteq Ids'
         /\ \A id \in Ids \ {0} : vault'[id] = vault[id]
  BY DEF TypeOK, Ids

\* Nothing happens to the other workers.
Frame(w) ==
  /\ order' = order
  /\ \A v \in Workers \ {w} :
       /\ worker'[v] = worker[v]
       /\ todo'[v] = todo[v]
       /\ failed'[v] = failed[v]
       /\ value'[v] = value[v]
       /\ OneWorker => UNCHANGED <<file[ServerOf[v]], dir[ServerOf[v]]>>

\* What is uploaded and put, stays.
Grows ==
  /\ \A f \in Archivable : Put(f) => Put(f)'
  /\ \A id \in Ids \ {0} : vault'[id] = vault[id]

\* The other workers know what they have known.
LEMMA OthersStay ==
  ASSUME Inv, Grows, order' = order, NEW v \in Workers,
         worker'[v] = worker[v], todo'[v] = todo[v], failed'[v] = failed[v],
         value'[v] = value[v],
         OneWorker => UNCHANGED <<file[ServerOf[v]], dir[ServerOf[v]]>>
  PROVE  ExportInv(v)' /\ PutInv(v)' /\ LoopInv(v)'
  <1> USE DEF Inv
  <1>1. Format(v)' = Format(v)
    BY DEF Format
  <1>2. ExportInv(v)'
    <2>1. ASSUME OneWorker
          PROVE  file'[ServerOf[v]] = file[ServerOf[v]] /\ dir'[ServerOf[v]] = dir[ServerOf[v]]
      BY <2>1
    <2> QED BY <1>1, <2>1 DEF ExportInv, OneWorker
  <1>3. AtFormat(v) => Format(v) \in Archivable
    BY FormatType DEF LoopInv
  <1>4. value[v] \in Ids
    BY DEF TypeOK
  <1>5. PutInv(v)'
    BY <1>1, <1>3, <1>4 DEF PutInv, Grows, Named, Names, AtFormat
  <1>6. \A i \in DOMAIN order : order[i] \in Archivable
    BY FormatsAssumption DEF TypeOK
  <1>7. LoopInv(v)'
    BY <1>1, <1>3, <1>6 DEF LoopInv, Grows, AtFormat
  <1> QED BY <1>2, <1>5, <1>7

\* A step of one worker keeps the invariant when it keeps the shared part, and
\* the worker's own.
LEMMA StepOfOne ==
  ASSUME Inv, Grows, NEW w \in Workers, Frame(w), TypeOK', IdsNamed',
         \A f \in Archivable : tree'[f] # "absent" => Put(f)',
         ExportInv(w)' /\ PutInv(w)' /\ LoopInv(w)'
  PROVE  Inv'
  <1>1. ASSUME NEW v \in Workers \ {w}
        PROVE  ExportInv(v)' /\ PutInv(v)' /\ LoopInv(v)'
    BY OthersStay DEF Frame
  <1> QED BY <1>1 DEF Inv

-----------------------------------------------------------------------------
(***************************************************************************)
(* Each step                                                               *)
(***************************************************************************)

\* Steps that change no file, id or path.
Local ==
  UNCHANGED <<exportVars, order, vault, tree, idVars, value>>

\* They change nothing of what is uploaded and put.
LEMMA LocalGrows ==
  ASSUME Inv, UNCHANGED <<vault, tree, idVars>>
  PROVE  /\ Grows
         /\ IdsNamed'
         /\ \A f \in Archivable : tree'[f] # "absent" => Put(f)'
  BY DEF Inv, Grows, idVars, Put, IdsNamed, IdsNameExports, Named, Names

\* An attempt begins, with all the configured formats to do.
LEMMA BeginKeepsInv ==
  ASSUME Inv, NEW w \in Workers, Begin(w)
  PROVE  Inv'
  <1> USE DEF Inv, Begin, Begins, Goto
  <1>1. Local
    BY DEF Local
  <1>2. TypeOK'
    BY FormatsAssumption DEF TypeOK, ExportsTypeOK, exportVars, idVars, WorkerSteps, Ids
  <1>3. Frame(w)
    BY DEF TypeOK, Frame, exportVars
  <1>4. ExportInv(w)' /\ PutInv(w)'
    BY DEF TypeOK, ExportInv, PutInv
  <1>5. todo'[w] = order' /\ worker'[w] = "next"
    BY DEF TypeOK
  <1>6. LoopInv(w)'
    BY <1>5 DEF LoopInv, AtFormat
  <1> QED BY <1>1, <1>2, <1>3, <1>4, <1>6, LocalGrows, StepOfOne DEF Local

\* isArchived is asked for the next format, and skips it or not.
LEMMA NextFormatKeepsInv ==
  ASSUME Inv, NEW w \in Workers, NextFormat(w)
  PROVE  Inv'
  <1> USE DEF Inv, NextFormat, Goto
  <1>1. Local
    BY DEF Local
  <1>2. TypeOK'
    BY FormatType DEF TypeOK, ExportsTypeOK, exportVars, idVars, WorkerSteps, Ids
  <1>3. Frame(w)
    BY DEF TypeOK, Frame, exportVars
  <1>4. ExportInv(w)' /\ PutInv(w)'
    BY DEF TypeOK, ExportInv, PutInv, Format
  <1>5. LoopInv(w)'
    <2>1. \A f \in Archivable : Put(f) => Put(f)'
      BY <1>1, LocalGrows DEF Local, Grows
    <2>2. \A i \in DOMAIN order : order[i] \in Archivable
      BY FormatsAssumption DEF TypeOK
    <2>3. CASE tree[Format(w)] = "filled" /\ todo' = [todo EXCEPT ![w] = Tail(@)]
      <3>1. Put(Format(w))
        BY <2>3, FormatType
      <3>2. todo'[w] = Tail(todo[w]) /\ worker'[w] = "next" /\ failed' = failed
            /\ order' = order
        BY <2>3 DEF TypeOK
      <3>3. worker[w] = "next"
        OBVIOUS
      <3> QED BY <2>1, <2>2, <3>1, <3>2, <3>3, FormatType DEF LoopInv, AtFormat
    <2>4. CASE UNCHANGED todo
      <3>1. worker[w] = "next" /\ worker'[w] \in {"next", "prepare", "export"}
        BY DEF TypeOK
      <3>2. failed' = failed /\ order' = order /\ todo' = todo /\ todo[w] # <<>>
        BY <2>4
      <3> QED BY <2>1, <2>2, <3>1, <3>2 DEF LoopInv, AtFormat
    <2> QED BY <2>3, <2>4
  <1> QED BY <1>1, <1>2, <1>3, <1>4, <1>5, LocalGrows, StepOfOne DEF Local

\* The end of the loop, the deletion of the bucket, and caught exceptions.
LEMMA EndingKeepsInv ==
  ASSUME Inv, NEW w \in Workers,
         EndFormats(w) \/ DeleteBucket(w) \/ CollectException(w)
  PROVE  Inv'
  <1> USE DEF Inv, EndFormats, DeleteBucket, CollectException, Catch, Goto
  <1>1. Local
    BY DEF Local
  <1>2. TypeOK'
    BY DEF TypeOK, ExportsTypeOK, exportVars, idVars, WorkerSteps, Ids
  <1>3. Frame(w)
    BY DEF TypeOK, Frame, exportVars
  <1>4. ExportInv(w)' /\ PutInv(w)'
    BY DEF TypeOK, ExportInv, PutInv
  <1>5. LoopInv(w)'
    <2>1. \A f \in Archivable : Put(f) => Put(f)'
      BY <1>1, LocalGrows DEF Local, Grows
    <2>2. \A i \in DOMAIN order : order[i] \in Archivable
      BY FormatsAssumption DEF TypeOK
    <2>3. CASE EndFormats(w)
      BY <2>1, <2>2, <2>3 DEF LoopInv, AtFormat, TypeOK
    <2>4. CASE DeleteBucket(w)
      BY <2>4 DEF LoopInv, AtFormat, TypeOK
    <2>5. CASE CollectException(w)
      BY <2>5 DEF LoopInv, AtFormat, TypeOK
    <2> QED BY <2>3, <2>4, <2>5
  <1> QED BY <1>1, <1>2, <1>3, <1>4, <1>5, LocalGrows, StepOfOne DEF Local

\* A worker at a format knows what it has known of the others, whatever it does
\* at the format.
LEMMA StillInLoop ==
  ASSUME Inv, Grows, NEW w \in Workers, AtFormat(w), order' = order,
         todo'[w] = todo[w], failed'[w] = failed[w],
         worker'[w] \notin {"clean", "delete"}
  PROVE  LoopInv(w)'
  <1>1. \A i \in DOMAIN order : order[i] \in Archivable
    BY FormatsAssumption DEF Inv, TypeOK
  <1> QED BY <1>1 DEF Inv, LoopInv, AtFormat, Grows

\* A step of a tool, or of a worker that moves or deletes its own export.
LEMMA ExportStep ==
  ASSUME Inv, NEW w \in Workers, AtFormat(w), Exporting,
         ExportsTypeOK', worker' \in [Workers -> WorkerSteps], faults' \in 0..MaxFaults,
         \A v \in Workers \ {w} : worker'[v] = worker[v],
         \A s \in Servers \ {ServerOf[w]} : file'[s] = file[s] /\ dir'[s] = dir[s],
         worker'[w] \in {"tool", "create", "idle", "throw", "upload", "prepare"},
         ExportInv(w)'
  PROVE  Inv'
  <1>1. Grows /\ IdsNamed' /\ \A f \in Archivable : tree'[f] # "absent" => Put(f)'
    BY LocalGrows DEF Exporting
  <1>2. TypeOK'
    BY DEF Inv, TypeOK, Exporting, idVars, Ids
  <1>3. Frame(w)
    BY ExportServersAssumption DEF OneWorker, Frame, Exporting
  <1>4. PutInv(w)'
    BY DEF PutInv
  <1>5. LoopInv(w)'
    BY <1>1, StillInLoop DEF Exporting
  <1> QED BY <1>1, <1>2, <1>3, <1>4, <1>5, StepOfOne

\* The tool is started in the bucket's export directory.
LEMMA StartExportKeepsInv ==
  ASSUME Inv, NEW w \in Workers, StartExport(w)
  PROVE  Inv'
  <1> USE DEF StartExport, StartTool, Goto
  <1>1. AtFormat(w) /\ todo[w] # <<>>
    BY DEF AtFormat, Inv, LoopInv
  <1>2. Uploaded(Format(w)) \in Formats /\ Format(w)' = Format(w)
    BY <1>1, FormatType DEF Inv, Format, Exporting
  <1>3. ServerOf[w] \in Servers
    BY ExportServersAssumption
  <1>4. ExportsTypeOK'
    BY <1>2, <1>3 DEF Inv, TypeOK, ExportsTypeOK, Content
  <1>5. worker' \in [Workers -> WorkerSteps] /\ worker'[w] = "tool"
        /\ \A v \in Workers \ {w} : worker'[v] = worker[v]
    BY DEF Inv, TypeOK, WorkerSteps
  <1>6. \A s \in Servers \ {ServerOf[w]} : file'[s] = file[s] /\ dir'[s] = dir[s]
    BY DEF Inv, TypeOK, ExportsTypeOK
  <1>7. ExportInv(w)'
    BY <1>2, <1>3, <1>5 DEF ExportInv, Inv, TypeOK, ExportsTypeOK
  <1>8. faults' \in 0..MaxFaults
    BY DEF Inv, TypeOK
  <1> QED BY <1>1, <1>4, <1>5, <1>6, <1>7, <1>8, ExportStep

\* The tool has succeeded, or seems to have.
LEMMA EndExportKeepsInv ==
  ASSUME Inv, NEW w \in Workers, EndExport(w) \/ TarFails(w)
  PROVE  Inv'
  <1>1. PICK content \in {"whole", "torn"} : EndTool(w, content)
    BY DEF EndExport, TarFails
  <1> USE DEF EndTool
  <1>2. Exporting /\ worker[w] = "tool" /\ worker' = [worker EXCEPT ![w] = "create"]
    BY DEF EndExport, TarFails, Goto
  <1>3. AtFormat(w) /\ todo[w] # <<>>
    BY <1>2 DEF AtFormat, Inv, LoopInv
  <1>4. Uploaded(Format(w)) \in Formats /\ Format(w)' = Format(w)
    BY <1>2, <1>3, FormatType DEF Inv, Format, Exporting
  <1>5. ServerOf[w] \in Servers
    BY ExportServersAssumption
  <1>6. ExportsTypeOK'
    BY <1>1, <1>5 DEF Inv, TypeOK, ExportsTypeOK, Content
  <1>7. worker' \in [Workers -> WorkerSteps] /\ worker'[w] = "create"
        /\ \A v \in Workers \ {w} : worker'[v] = worker[v]
    BY <1>2 DEF Inv, TypeOK, WorkerSteps
  <1>8. \A s \in Servers \ {ServerOf[w]} : file'[s] = file[s] /\ dir'[s] = dir[s]
    BY <1>1 DEF Inv, TypeOK, ExportsTypeOK
  <1>9. OneWorker => file'[ServerOf[w]][Uploaded(Format(w))] = content
    BY <1>1, <1>2, <1>4, <1>5 DEF ExportInv, Inv, TypeOK, ExportsTypeOK
  <1>10. ExportInv(w)'
    BY <1>4, <1>7, <1>9 DEF ExportInv, Exported, OneWorker
  <1>11. faults' \in 0..MaxFaults
    BY GlacierFaultsAssumption DEF Inv, TypeOK, EndExport, TarFails, Fault
  <1> QED BY <1>2, <1>3, <1>6, <1>7, <1>8, <1>10, <1>11, ExportStep

\* The csv tool fails and leaves what it has written.
LEMMA ToolFailsKeepsInv ==
  ASSUME Inv, NEW w \in Workers, ToolFails(w)
  PROVE  Inv'
  <1> USE DEF ToolFails, ExportThrows, Goto
  <1>1. AtFormat(w) /\ todo[w] # <<>>
    BY DEF AtFormat, Inv, LoopInv
  <1>2. Uploaded(Format(w)) \in Formats
    BY <1>1, FormatType DEF Inv
  <1>3. ServerOf[w] \in Servers
    BY ExportServersAssumption
  <1>4. ExportsTypeOK'
        /\ \A s \in Servers \ {ServerOf[w]} : file'[s] = file[s] /\ dir'[s] = dir[s]
    <2> USE <1>2, <1>3 DEF Inv, TypeOK, ExportsTypeOK, Content
    <2>1. CASE /\ file' = [file EXCEPT ![ServerOf[w]][Uploaded(Format(w))] = "none"]
               /\ UNCHANGED dir
      BY <2>1
    <2>2. CASE EndTool(w, "part")
      BY <2>2 DEF EndTool
    <2> QED BY <2>1, <2>2 DEF FailTool
  <1>5. worker' \in [Workers -> WorkerSteps] /\ worker'[w] \in {"idle", "throw"}
        /\ \A v \in Workers \ {w} : worker'[v] = worker[v]
    BY DEF Inv, TypeOK, WorkerSteps
  <1>6. ExportInv(w)'
    BY <1>5 DEF ExportInv
  <1>7. faults' \in 0..MaxFaults
    BY GlacierFaultsAssumption DEF Inv, TypeOK, Fault
  <1> QED BY <1>1, <1>4, <1>5, <1>6, <1>7, ExportStep

\* The worker's file is there, unless another one of the server has taken it away.
LEMMA CreateExportedKeepsInv ==
  ASSUME Inv, NEW w \in Workers, CreateExported(w)
  PROVE  Inv'
  <1> DEFINE s == ServerOf[w]
             f == Uploaded(Format(w))
  <1>1. worker[w] = "create" /\ Exporting /\ UNCHANGED faults
    BY DEF CreateExported
  <1>2. AtFormat(w) /\ todo[w] # <<>> /\ (OneWorker => Exported(file[s][f]))
    BY <1>1 DEF AtFormat, Inv, LoopInv, ExportInv
  <1>3. f \in Formats /\ Format(w)' = Format(w) /\ s \in Servers
    BY <1>1, <1>2, FormatType, ExportServersAssumption DEF Inv, Format, Exporting
  <1>4. faults' \in 0..MaxFaults
    BY <1>1 DEF Inv, TypeOK
  <1>5. CASE file[s][f] = "none"
    <2>1. worker' \in [Workers -> WorkerSteps] /\ worker'[w] \in {"idle", "throw"}
          /\ \A v \in Workers \ {w} : worker'[v] = worker[v]
      BY <1>5 DEF CreateExported, ExportThrows, Goto, Inv, TypeOK, WorkerSteps
    <2>2. ExportsTypeOK' /\ file' = file /\ dir' = dir
      BY <1>5 DEF CreateExported, exportVars, Inv, TypeOK, ExportsTypeOK
    <2>3. ExportInv(w)'
      BY <2>1 DEF ExportInv
    <2> QED BY <1>1, <1>2, <1>4, <2>1, <2>2, <2>3, ExportStep
  <1>6. CASE file[s][f] # "none"
    <2>1. worker' = [worker EXCEPT ![w] = IF Format(w) = "splunk" THEN "upload" ELSE "prepare"]
          /\ CreateBucketWithFile(w, f)
      BY <1>6 DEF CreateExported, Goto
    <2>2. ExportsTypeOK'
          /\ \A t \in Servers \ {s} : file'[t] = file[t] /\ dir'[t] = dir[t]
      BY <1>3, <2>1 DEF CreateBucketWithFile, Inv, TypeOK, ExportsTypeOK, Content
    <2>3. worker' \in [Workers -> WorkerSteps] /\ worker'[w] \in {"upload", "prepare"}
          /\ \A v \in Workers \ {w} : worker'[v] = worker[v]
      BY <2>1 DEF Inv, TypeOK, WorkerSteps
    <2>4. dir'[s][f] = file[s][f]
      BY <1>3, <2>1 DEF CreateBucketWithFile, Inv, TypeOK, ExportsTypeOK
    <2>5. ExportInv(w)'
      BY <1>2, <1>3, <2>3, <2>4 DEF ExportInv, OneWorker
    <2> QED BY <1>1, <1>2, <1>4, <2>2, <2>3, <2>5, ExportStep
  <1> QED BY <1>5, <1>6

\* Whether the archive path exists, and what throws, changes the worker only.
LEMMA PrepareKeepsInv ==
  ASSUME Inv, NEW w \in Workers, Prepare(w) \/ TransferThrows(w)
  PROVE  Inv'
  <1> USE DEF Prepare, TransferThrows, Goto, Transferring
  <1>1. Local
    BY DEF Local
  <1>2. AtFormat(w) /\ todo[w] # <<>> /\ Format(w) \in Archivable
    BY FormatType DEF Inv, AtFormat, LoopInv
  <1>3. TypeOK'
    <2>1. worker' \in [Workers -> WorkerSteps]
      BY DEF Inv, TypeOK, WorkerSteps
    <2>2. faults' \in 0..MaxFaults
      BY GlacierFaultsAssumption DEF Inv, TypeOK, Fault
    <2>3. UNCHANGED <<exportVars, order, vault, tree, idVars, local, todo, failed, value>>
      OBVIOUS
    <2> QED
      BY <2>1, <2>2, <2>3 DEF Inv, TypeOK, ExportsTypeOK, exportVars, idVars, Ids
  <1>4. Frame(w)
    BY DEF Inv, TypeOK, Frame, exportVars
  <1>5. Format(w)' = Format(w) /\ UNCHANGED <<todo, failed, order>>
    BY DEF Format
  <1>6. worker'[w] = "throw"
        \/ /\ worker[w] = "prepare"
           /\ \/ tree[Format(w)] # "absent" /\ worker'[w] = "commit"
              \/ Format(w) = "splunk" /\ worker'[w] = "export"
              \/ Format(w) # "splunk" /\ worker'[w] = "upload"
    BY DEF Inv, TypeOK
  <1>7. ExportInv(w)'
    BY <1>5, <1>6 DEF ExportInv, Inv, exportVars
  <1>8. PutInv(w)'
    BY <1>2, <1>5, <1>6, <1>1, LocalGrows DEF Local, PutInv, Inv, Grows
  <1>9. LoopInv(w)'
    BY <1>1, <1>2, <1>5, <1>6, LocalGrows, StillInLoop DEF Local
  <1> QED BY <1>1, <1>3, <1>4, <1>7, <1>8, <1>9, LocalGrows, StepOfOne DEF Local

\* What is uploaded is the only file of the bucket.  It is the worker's own, and
\* all of it is read, when nobody shares its directory.
LEMMA UploadsItsOwn ==
  ASSUME Inv, NEW w \in Workers, worker[w] = "upload",
         \E f \in Formats : FilesOf(ServerOf[w]) = {f}, Upload(w)
  PROVE  \E r \in [format : Formats, content : {"part", "torn", "whole"}] :
           /\ vault' = Append(vault, r)
           /\ OneWorker => r.format = Uploaded(Format(w)) /\ r.content # "part"
  <1> DEFINE s == ServerOf[w]
             f == Uploaded(Format(w))
  <1>1. PICK g \in Formats : FilesOf(s) = {g}
    OBVIOUS
  <1>2. (CHOOSE h \in Formats : h \in FilesOf(s)) = g
    BY <1>1
  <1>3. Read(dir[s][g]) \in {"part", "torn", "whole"}
    <2>1. dir[s][g] # "none" /\ dir[s][g] \in Content
      BY <1>1, ExportServersAssumption DEF FilesOf, Inv, TypeOK, ExportsTypeOK
    <2> QED BY <2>1 DEF Read, Content
  <1>4. vault' = Append(vault, [format |-> g, content |-> Read(dir[s][g])])
    BY <1>2 DEF Upload
  <1>5. ASSUME OneWorker PROVE g = f /\ Read(dir[s][g]) # "part"
    <2>1. todo[w] # <<>> /\ Exported(dir[s][f])
      BY <1>5 DEF Inv, LoopInv, AtFormat, ExportInv
    <2>2. f \in Formats
      BY <2>1, FormatType DEF Inv
    <2>3. g = f
      BY <1>1, <2>1, <2>2 DEF FilesOf, Exported
    <2>4. Read(dir[s][f]) = dir[s][f]
      BY <2>1, ExportServersAssumption DEF Read, Exported
    <2> QED BY <2>1, <2>3, <2>4 DEF Exported
  <1> QED BY <1>3, <1>4, <1>5

\* An upload is an addition to the vault.
LEMMA UploadBucketKeepsInv ==
  ASSUME Inv, NEW w \in Workers, UploadBucket(w)
  PROVE  Inv'
  <1> USE DEF Goto, Transferring
  <1>1. AtFormat(w) /\ todo[w] # <<>> /\ worker[w] = "upload"
    BY DEF UploadBucket, AtFormat, Inv, LoopInv
  <1>2. Format(w) \in Archivable /\ Format(w)' = Format(w) /\ ServerOf[w] \in Servers
    BY <1>1, FormatType, ExportServersAssumption DEF Inv, Format, UploadBucket
  <1>3. UNCHANGED <<exportVars, order, tree, stored, flat, local, todo, failed, faults>>
    BY DEF UploadBucket
  <1>4. CASE \E f \in Formats : FilesOf(ServerOf[w]) = {f}
    <2>1. /\ worker' = [worker EXCEPT ![w] = "flat"]
          /\ Upload(w)
          /\ cache' = [cache EXCEPT ![ServerOf[w]][Format(w)] = Len(vault')]
          /\ value' = [value EXCEPT ![w] = Len(vault')]
      BY <1>4 DEF UploadBucket
    <2>2. PICK r \in [format : Formats, content : {"part", "torn", "whole"}] :
            /\ vault' = Append(vault, r)
            /\ OneWorker => r.format = Uploaded(Format(w)) /\ r.content # "part"
      BY <1>1, <1>4, <2>1, UploadsItsOwn
    <2>3. /\ vault' \in Seq([format : Formats, content : {"part", "torn", "whole"}])
          /\ Len(vault') \in Ids' /\ Len(vault') # 0
          /\ vault'[Len(vault')] = r
          /\ Ids \subseteq Ids'
          /\ \A id \in Ids \ {0} : vault'[id] = vault[id]
      BY <2>2, AppendedUpload DEF Inv
    <2>4. Grows
      BY <1>3, <2>3 DEF Grows, Put
    <2>5. TypeOK'
      BY <1>2, <1>3, <2>1, <2>3
      DEF Inv, TypeOK, ExportsTypeOK, exportVars, WorkerSteps
    <2>6. OneWorker => /\ vault'[Len(vault')].format = Uploaded(Format(w))
                       /\ vault'[Len(vault')].content # "part"
      BY <2>2, <2>3
    <2>7. IdsNamed'
      <3>0. SUFFICES ASSUME OneWorker PROVE IdsNameExports'
        BY DEF IdsNamed, OneWorker
      <3>1. \A f \in Archivable :
              /\ stored[f] \in Ids
              /\ \A s \in Servers : flat[s][f] \in Ids /\ cache[s][f] \in Ids
        BY DEF Inv, TypeOK
      <3>2. \A f \in Archivable, id \in Ids \ {0} : Names(id, f) => Names(id, f)'
        BY <2>3 DEF Named, Names
      <3>3. \A f \in Archivable, s \in Servers :
              cache'[s][f] = cache[s][f]
              \/ (f = Format(w) /\ cache'[s][f] = Len(vault'))
        BY <1>2, <2>1 DEF Inv, TypeOK
      <3>4. ASSUME NEW f \in Archivable, NEW s \in Servers, cache'[s][f] # 0
            PROVE  Names(cache[s][f], f)'
        BY <2>6, <3>0, <3>1, <3>2, <3>3, <3>4 DEF Inv, IdsNamed, IdsNameExports, Names
      <3>5. ASSUME NEW f \in Archivable, NEW s \in Servers, flat[s][f] # 0
            PROVE  Names(flat[s][f], f)'
        BY <1>3, <3>0, <3>1, <3>2, <3>5 DEF Inv, IdsNamed, IdsNameExports
      <3>6. ASSUME NEW f \in Archivable, stored[f] # 0
            PROVE  Names(stored[f], f)'
        BY <1>3, <3>0, <3>1, <3>2, <3>6 DEF Inv, IdsNamed, IdsNameExports
      <3> QED BY <1>3, <3>4, <3>5, <3>6 DEF IdsNameExports
    <2>8. Frame(w)
      BY <1>3, <2>1 DEF Inv, TypeOK, Frame, exportVars
    <2>9. worker'[w] = "flat" /\ value'[w] = Len(vault')
      BY <2>1 DEF Inv, TypeOK
    <2>10. ExportInv(w)' /\ PutInv(w)'
      BY <1>2, <2>3, <2>6, <2>9 DEF ExportInv, PutInv, Named, Names
    <2>11. LoopInv(w)'
      BY <1>1, <1>3, <2>4, <2>9, StillInLoop
    <2>12. \A f \in Archivable : tree'[f] # "absent" => Put(f)'
      BY <1>3, <2>4 DEF Inv, Grows
    <2> QED BY <2>4, <2>5, <2>7, <2>8, <2>10, <2>11, <2>12, StepOfOne
  <1>5. CASE ~\E f \in Formats : FilesOf(ServerOf[w]) = {f}
    <2>1. worker' = [worker EXCEPT ![w] = "throw"] /\ UNCHANGED <<vault, cache, value>>
      BY <1>5 DEF UploadBucket
    <2>2. UNCHANGED <<vault, tree, idVars>>
      BY <1>3, <2>1 DEF idVars
    <2>3. TypeOK'
      BY <1>3, <2>1 DEF Inv, TypeOK, ExportsTypeOK, exportVars, WorkerSteps, Ids
    <2>4. Frame(w)
      BY <1>3, <2>1 DEF Inv, TypeOK, Frame, exportVars
    <2>5. worker'[w] = "throw"
      BY <2>1 DEF Inv, TypeOK
    <2>6. ExportInv(w)' /\ PutInv(w)' /\ LoopInv(w)'
      BY <1>1, <1>3, <2>2, <2>5, LocalGrows, StillInLoop DEF ExportInv, PutInv
    <2> QED BY <2>2, <2>3, <2>4, <2>6, LocalGrows, StepOfOne
  <1> QED BY <1>4, <1>5

\* An upload that throws may be in the vault, and no id of it is anywhere.
LEMMA UploadThrowsKeepsInv ==
  ASSUME Inv, NEW w \in Workers, UploadThrows(w)
  PROVE  Inv'
  <1> USE DEF Goto, Transferring
  <1>1. AtFormat(w) /\ todo[w] # <<>> /\ worker[w] = "upload"
    BY DEF UploadThrows, UploadFaults, AtFormat, Inv, LoopInv
  <1>2. /\ UNCHANGED <<exportVars, order, tree, idVars, local, todo, failed, value>>
        /\ worker' = [worker EXCEPT ![w] = "throw"]
        /\ faults' \in 0..MaxFaults
    BY GlacierFaultsAssumption
    DEF UploadThrows, UploadFaults, idVars, Fault, Inv, TypeOK
  <1>3. /\ vault' \in Seq([format : Formats, content : {"part", "torn", "whole"}])
        /\ Ids \subseteq Ids'
        /\ \A id \in Ids \ {0} : vault'[id] = vault[id]
    <2>1. CASE UNCHANGED vault
      BY <2>1 DEF Inv, TypeOK, Ids
    <2>2. CASE Upload(w)
      <3>1. PICK r \in [format : Formats, content : {"part", "torn", "whole"}] :
              vault' = Append(vault, r)
        BY <1>1, <2>2, UploadsItsOwn DEF UploadThrows, UploadFaults
      <3> QED BY <3>1, AppendedUpload DEF Inv
    <2> QED BY <2>1, <2>2 DEF UploadThrows, UploadFaults
  <1>4. Grows
    BY <1>2, <1>3 DEF Grows, Put, idVars
  <1>5. TypeOK'
    BY <1>2, <1>3 DEF Inv, TypeOK, ExportsTypeOK, exportVars, idVars, WorkerSteps
  <1>6. IdsNamed'
    <2>1. \A f \in Archivable :
            /\ stored[f] \in Ids
            /\ \A s \in Servers : flat[s][f] \in Ids /\ cache[s][f] \in Ids
      BY DEF Inv, TypeOK
    <2>2. \A f \in Archivable, id \in Ids \ {0} : Names(id, f) => Names(id, f)'
      BY <1>3 DEF Named, Names
    <2> QED BY <1>2, <2>1, <2>2 DEF Inv, IdsNamed, IdsNameExports, idVars
  <1>7. Frame(w)
    BY <1>2 DEF Inv, TypeOK, Frame, exportVars
  <1>8. worker'[w] = "throw"
    BY <1>2 DEF Inv, TypeOK
  <1>9. ExportInv(w)' /\ PutInv(w)' /\ LoopInv(w)'
    BY <1>1, <1>2, <1>4, <1>8, StillInLoop DEF ExportInv, PutInv
  <1>10. \A f \in Archivable : tree'[f] # "absent" => Put(f)'
    BY <1>2, <1>4 DEF Inv, Grows
  <1> QED BY <1>4, <1>5, <1>6, <1>7, <1>9, <1>10, StepOfOne

-----------------------------------------------------------------------------

\* A step that changes ids, and files of the worker's own server at most, and
\* takes the worker from one step of its transfer to the next.
LEMMA TransferStep ==
  ASSUME Inv, NEW w \in Workers, Transferring, TypeOK', AtFormat(w), vault' = vault,
         \A v \in Workers \ {w} : worker'[v] = worker[v] /\ value'[v] = value[v],
         \A s \in Servers \ {ServerOf[w]} : file'[s] = file[s] /\ dir'[s] = dir[s],
         \A f \in Archivable : Put(f) => Put(f)',
         worker'[w] \in {"mkdirs", "store", "discard", "commit", "size"},
         worker'[w] \in {"mkdirs", "store"} => value'[w] # 0 /\ Named(value'[w], Format(w)),
         Put(Format(w))',
         IdsNamed',
         \A f \in Archivable : tree'[f] # "absent" => Put(f)'
  PROVE  Inv'
  <1>1. Grows
    BY DEF Grows
  <1>2. Frame(w)
    BY ExportServersAssumption DEF Frame, OneWorker, Transferring, Inv, TypeOK
  <1>3. Format(w)' = Format(w)
    BY DEF Format, Transferring
  <1>4. ExportInv(w)'
    BY DEF ExportInv
  <1>5. PutInv(w)'
    BY <1>3 DEF PutInv, Named, Names
  <1>6. LoopInv(w)'
    BY <1>1, StillInLoop DEF Transferring
  <1> QED BY <1>1, <1>2, <1>4, <1>5, <1>6, StepOfOne

\* The id is put in the flat file first.
LEMMA WriteFlatFileKeepsInv ==
  ASSUME Inv, NEW w \in Workers, WriteFlatFile(w)
  PROVE  Inv'
  <1> DEFINE s == ServerOf[w]
             f == Uploaded(Format(w))
  <1>1. /\ worker[w] = "flat"
        /\ worker' = [worker EXCEPT ![w] = IF stored[f] = 0 THEN "mkdirs" ELSE "discard"]
        /\ flat' = [flat EXCEPT ![s][f] = value[w]]
        /\ Transferring
        /\ UNCHANGED <<exportVars, vault, tree, stored, cache, value, faults>>
    BY DEF WriteFlatFile, Goto
  <1>2. AtFormat(w) /\ value[w] # 0 /\ Named(value[w], Format(w)) /\ value[w] \in Ids
    BY <1>1 DEF Inv, AtFormat, PutInv, TypeOK
  <1>3. f \in Archivable /\ s \in Servers /\ Uploaded(f) = f /\ Format(w) \in Archivable
    BY <1>2, FormatType, ExportServersAssumption DEF Inv, LoopInv
  <1>4. TypeOK'
    BY <1>1, <1>2, <1>3
    DEF Inv, TypeOK, ExportsTypeOK, exportVars, WorkerSteps, Ids, Transferring
  <1>5. flat'[s][f] = value[w]
        /\ \A t \in Servers, g \in Archivable :
             flat'[t][g] = flat[t][g] \/ (t = s /\ g = f)
    BY <1>1, <1>3 DEF Inv, TypeOK
  <1>6. \A g \in Archivable : Put(g) => Put(g)'
    <2>1. \A g \in Archivable : Uploaded(g) \in Archivable
      BY DEF Uploaded, Archivable
    <2> QED BY <1>1, <1>2, <1>3, <1>5, <2>1 DEF Put
  <1>7. Put(Format(w))'
    <2>1. Format(w)' = Format(w)
      BY <1>1 DEF Format, Transferring
    <2> QED BY <1>2, <1>3, <1>5, <2>1 DEF Put
  <1>8. IdsNamed'
    BY <1>1, <1>2, <1>3, <1>5 DEF Inv, IdsNamed, IdsNameExports, Named, Names
  <1>9. worker'[w] \in {"mkdirs", "discard"}
        /\ \A v \in Workers \ {w} : worker'[v] = worker[v]
    BY <1>1 DEF Inv, TypeOK
  <1>10. \A g \in Archivable : tree'[g] # "absent" => Put(g)'
    BY <1>1, <1>6 DEF Inv
  <1> QED
    BY <1>1, <1>2, <1>4, <1>6, <1>7, <1>8, <1>9, <1>10, TransferStep DEF exportVars, Named, Names

\* The id is put in the archive.
LEMMA StoreIdKeepsInv ==
  ASSUME Inv, NEW w \in Workers, StoreId(w)
  PROVE  Inv'
  <1> DEFINE f == Uploaded(Format(w))
  <1>1. /\ worker[w] = "store"
        /\ worker' = [worker EXCEPT ![w] = "discard"]
        /\ stored' = [stored EXCEPT ![f] = IF @ = 0 THEN value[w] ELSE @]
        /\ Transferring
        /\ UNCHANGED <<exportVars, vault, tree, flat, cache, value, faults>>
    BY DEF StoreId, Goto
  <1>2. /\ AtFormat(w) /\ value[w] # 0 /\ Named(value[w], Format(w)) /\ value[w] \in Ids
        /\ Put(Format(w))
    BY <1>1 DEF Inv, AtFormat, PutInv, TypeOK
  <1>3. f \in Archivable /\ Uploaded(f) = f /\ Format(w) \in Archivable
    BY <1>2, FormatType DEF Inv, LoopInv
  <1>4. TypeOK'
    BY <1>1, <1>2, <1>3
    DEF Inv, TypeOK, ExportsTypeOK, exportVars, WorkerSteps, Ids, Transferring
  <1>5. \A g \in Archivable :
          stored'[g] = stored[g] \/ (g = f /\ stored[g] = 0 /\ stored'[g] = value[w])
    BY <1>1, <1>3 DEF Inv, TypeOK
  <1>6. \A g \in Archivable : Put(g) => Put(g)'
    <2>1. \A g \in Archivable : Uploaded(g) \in Archivable
      BY DEF Uploaded, Archivable
    <2> QED BY <1>1, <1>2, <1>5, <2>1 DEF Put
  <1>7. Put(Format(w))'
    <2>1. Format(w)' = Format(w)
      BY <1>1 DEF Format, Transferring
    <2> QED BY <1>2, <1>3, <1>6, <2>1
  <1>8. IdsNamed'
    BY <1>1, <1>2, <1>3, <1>5 DEF Inv, IdsNamed, IdsNameExports, Named, Names
  <1>9. worker'[w] = "discard" /\ \A v \in Workers \ {w} : worker'[v] = worker[v]
    BY <1>1 DEF Inv, TypeOK
  <1>10. \A g \in Archivable : tree'[g] # "absent" => Put(g)'
    BY <1>1, <1>6 DEF Inv
  <1> QED
    BY <1>1, <1>2, <1>4, <1>6, <1>7, <1>8, <1>9, <1>10, TransferStep DEF exportVars

\* An archive path appears when an id of its format is put already.
LEMMA PathAppearsKeepsInv ==
  ASSUME Inv, NEW w \in Workers, MakeParents(w) \/ Commit(w)
  PROVE  Inv'
  <1> DEFINE f == IF worker[w] = "mkdirs" THEN Uploaded(Format(w)) ELSE Format(w)
  <1>1. /\ \/ worker[w] = "mkdirs" /\ worker' = [worker EXCEPT ![w] = "store"]
           \/ worker[w] = "commit" /\ worker' = [worker EXCEPT ![w] = "size"]
        /\ Transferring
        /\ UNCHANGED <<exportVars, vault, idVars, value, faults>>
    BY DEF MakeParents, Commit, Goto
  <1>2. AtFormat(w) /\ Put(Format(w)) /\ value[w] \in Ids
        /\ (worker[w] = "mkdirs" => value[w] # 0 /\ Named(value[w], Format(w)))
    BY <1>1 DEF Inv, AtFormat, PutInv, TypeOK
  <1>3. Format(w) \in Archivable /\ f \in Archivable /\ Uploaded(f) = Uploaded(Format(w))
    BY <1>2, FormatType DEF Inv, LoopInv
  <1>4. PICK there \in {"empty", "filled", tree[f]} :
          /\ tree' = [tree EXCEPT ![f] = there]
          /\ there # tree[f] \/ there # "absent"
    BY DEF MakeParents, Commit, Goto
  <1>5. TypeOK'
    BY <1>1, <1>3, <1>4
    DEF Inv, TypeOK, ExportsTypeOK, exportVars, idVars, WorkerSteps, Ids, Transferring
  <1>6. \A g \in Archivable : Put(g) => Put(g)'
    BY <1>1 DEF Put, idVars
  <1>7. Format(w)' = Format(w)
    BY <1>1 DEF Format, Transferring
  <1>8. \A g \in Archivable : tree'[g] # "absent" => Put(g)'
    <2>1. Put(f)
      BY <1>2, <1>3 DEF Put
    <2>2. \A g \in Archivable : g = f \/ tree'[g] = tree[g]
      BY <1>3, <1>4 DEF Inv, TypeOK
    <2> QED BY <1>3, <1>6, <2>1, <2>2 DEF Inv
  <1>9. IdsNamed'
    BY <1>1 DEF Inv, IdsNamed, IdsNameExports, Named, Names, idVars
  <1>10. worker'[w] = (IF worker[w] = "mkdirs" THEN "store" ELSE "size")
         /\ \A v \in Workers \ {w} : worker'[v] = worker[v]
    BY <1>1 DEF Inv, TypeOK
  <1> QED
    BY <1>1, <1>2, <1>3, <1>5, <1>6, <1>7, <1>8, <1>9, <1>10, TransferStep
    DEF exportVars

\* Deleting an export touches no other server's.
LEMMA DeleteExportedType ==
  ASSUME TypeOK, NEW w \in Workers, NEW rest \in SUBSET Formats, DeleteExported(w, rest)
  PROVE  /\ ExportsTypeOK'
         /\ \A s \in Servers \ {ServerOf[w]} : file'[s] = file[s] /\ dir'[s] = dir[s]
  <1> DEFINE left == [f \in Formats |-> IF f \in rest THEN dir[ServerOf[w]][f] ELSE "none"]
  <1>1. ServerOf[w] \in Servers
    BY ExportServersAssumption
  <1>2. left \in [Formats -> Content]
    BY <1>1 DEF TypeOK, ExportsTypeOK, Content
  <1>3. dir' = [dir EXCEPT ![ServerOf[w]] = left] /\ file' = file
    BY DEF DeleteExported
  <1> HIDE DEF left
  <1> QED BY <1>1, <1>2, <1>3 DEF TypeOK, ExportsTypeOK

\* putBucket deletes the export of a bucket in Splunk's format.
LEMMA DiscardExportKeepsInv ==
  ASSUME Inv, NEW w \in Workers, DiscardExport(w)
  PROVE  Inv'
  <1>1. /\ worker[w] = "discard" /\ worker' = [worker EXCEPT ![w] = "commit"]
        /\ Transferring
        /\ UNCHANGED <<vault, tree, idVars, value, faults>>
        /\ DeleteExported(w, {}) \/ UNCHANGED exportVars
    BY DEF DiscardExport, Goto
  <1>2. AtFormat(w) /\ Put(Format(w))
    BY <1>1 DEF Inv, AtFormat, PutInv
  <1>3. Format(w) \in Archivable /\ ServerOf[w] \in Servers /\ Format(w)' = Format(w)
    BY <1>1, <1>2, FormatType, ExportServersAssumption
    DEF Inv, LoopInv, Format, Transferring
  <1>4. ExportsTypeOK'
        /\ \A s \in Servers \ {ServerOf[w]} : file'[s] = file[s] /\ dir'[s] = dir[s]
    <2>1. CASE DeleteExported(w, {})
      BY <1>3, <2>1, DeleteExportedType DEF Inv
    <2>2. CASE UNCHANGED exportVars
      BY <2>2 DEF Inv, TypeOK, ExportsTypeOK, exportVars
    <2> QED BY <1>1, <2>1, <2>2
  <1>5. TypeOK'
    BY <1>1, <1>4 DEF Inv, TypeOK, idVars, WorkerSteps, Ids, Transferring
  <1>6. Grows /\ IdsNamed' /\ \A f \in Archivable : tree'[f] # "absent" => Put(f)'
    BY <1>1, LocalGrows
  <1>7. worker'[w] = "commit" /\ \A v \in Workers \ {w} : worker'[v] = worker[v]
    BY <1>1 DEF Inv, TypeOK
  <1> QED BY <1>1, <1>2, <1>3, <1>4, <1>5, <1>6, <1>7, TransferStep DEF Grows

\* The size is put below the archive path.
LEMMA PutSizeKeepsInv ==
  ASSUME Inv, NEW w \in Workers, PutSize(w)
  PROVE  Inv'
  <1>1. /\ worker[w] = "size" /\ worker' = [worker EXCEPT ![w] = "clean"]
        /\ tree' = [tree EXCEPT ![Format(w)] = "filled"]
        /\ Transferring
        /\ UNCHANGED <<exportVars, vault, idVars, value, faults>>
    BY DEF PutSize, Goto
  <1>2. AtFormat(w) /\ Put(Format(w)) /\ Format(w) \in Archivable /\ Format(w)' = Format(w)
    BY <1>1, FormatType DEF Inv, AtFormat, PutInv, LoopInv, Format, Transferring
  <1>3. TypeOK'
    BY <1>1, <1>2
    DEF Inv, TypeOK, ExportsTypeOK, exportVars, idVars, WorkerSteps, Ids, Transferring
  <1>4. Grows /\ \A f \in Archivable : Put(f) => Put(f)'
    BY <1>1 DEF Grows, Put, idVars
  <1>5. \A f \in Archivable : tree'[f] # "absent" => Put(f)'
    BY <1>1, <1>2, <1>4 DEF Inv, TypeOK
  <1>6. IdsNamed'
    BY <1>1 DEF Inv, IdsNamed, IdsNameExports, Named, Names, idVars
  <1>7. Frame(w) /\ worker'[w] = "clean"
    BY <1>1 DEF Inv, TypeOK, Frame, Transferring, exportVars
  <1>8. ExportInv(w)' /\ PutInv(w)'
    BY <1>7 DEF ExportInv, PutInv
  <1>9. \A i \in DOMAIN order : order[i] \in Archivable
    BY FormatsAssumption DEF Inv, TypeOK
  <1>10. LoopInv(w)'
    BY <1>1, <1>2, <1>4, <1>7, <1>9 DEF Inv, LoopInv, AtFormat, Transferring
  <1> QED BY <1>3, <1>4, <1>5, <1>6, <1>7, <1>8, <1>10, StepOfOne

\* The export is deleted, and the loop goes on with the next format.
LEMMA CleanKeepsInv ==
  ASSUME Inv, NEW w \in Workers, Clean(w)
  PROVE  Inv'
  <1>1. /\ worker[w] = "clean" /\ worker' = [worker EXCEPT ![w] = "next"]
        /\ todo' = [todo EXCEPT ![w] = Tail(todo[w])]
        /\ UNCHANGED <<order, vault, tree, idVars, local, failed, value>>
    BY DEF Clean, Goto
  <1>2. todo[w] # <<>> /\ (failed[w] \/ Put(Format(w)))
    BY <1>1 DEF Inv, AtFormat, LoopInv
  <1>3. ExportsTypeOK'
        /\ \A s \in Servers \ {ServerOf[w]} : file'[s] = file[s] /\ dir'[s] = dir[s]
    <2>1. ASSUME NEW rest \in SUBSET Formats, DeleteExported(w, rest)
          PROVE  ExportsTypeOK'
                 /\ \A s \in Servers \ {ServerOf[w]} : file'[s] = file[s] /\ dir'[s] = dir[s]
      BY <2>1, DeleteExportedType DEF Inv
    <2>2. CASE UNCHANGED exportVars
      BY <2>2 DEF Inv, TypeOK, ExportsTypeOK, exportVars
    <2>3. FilesOf(ServerOf[w]) \subseteq Formats
      BY DEF FilesOf
    <2> QED BY <2>1, <2>2, <2>3 DEF Clean
  <1>4. Tail(todo[w]) \in Seq(Archivable) /\ Format(w) \in Archivable
    BY <1>2, FormatType DEF Inv
  <1>5. faults' \in 0..MaxFaults
    BY GlacierFaultsAssumption DEF Inv, TypeOK, Clean, Fault
  <1>6. TypeOK'
    BY <1>1, <1>3, <1>4, <1>5 DEF Inv, TypeOK, idVars, WorkerSteps, Ids
  <1>7. Grows /\ IdsNamed' /\ \A f \in Archivable : tree'[f] # "absent" => Put(f)'
    BY <1>1, LocalGrows
  <1>8. Frame(w) /\ worker'[w] = "next" /\ todo'[w] = Tail(todo[w])
    BY <1>1, <1>3, ExportServersAssumption DEF Inv, TypeOK, Frame, OneWorker
  <1>9. ExportInv(w)' /\ PutInv(w)'
    BY <1>8 DEF ExportInv, PutInv
  <1>10. LoopInv(w)'
    <2>1. \A i \in DOMAIN order : order[i] \in Archivable
      BY FormatsAssumption DEF Inv, TypeOK
    <2>2. \A f \in Archivable :
            (\E j \in DOMAIN todo[w] : todo[w][j] = f) =>
              f = Format(w) \/ \E j \in DOMAIN Tail(todo[w]) : Tail(todo[w])[j] = f
      BY <1>2, FormatType DEF Inv
    <2>3. ASSUME NEW i \in DOMAIN order
          PROVE  \/ failed[w]
                 \/ Put(order[i])'
                 \/ \E j \in DOMAIN Tail(todo[w]) : Tail(todo[w])[j] = order[i]
      BY <1>1, <1>2, <1>7, <2>1, <2>2 DEF Inv, LoopInv, Grows
    <2> QED BY <1>1, <1>8, <2>3 DEF LoopInv, AtFormat
  <1> QED BY <1>6, <1>7, <1>8, <1>9, <1>10, StepOfOne

\* A thaw looks for the id and remembers it.
LEMMA FindArchiveIdKeepsInv ==
  ASSUME Inv, NEW s \in Thawers, NEW f \in Archivable, FindArchiveId(s, f)
  PROVE  Inv'
  <1> DEFINE id == IF flat[s][f] # 0 THEN flat[s][f] ELSE stored[f]
  <1>1. /\ id # 0
        /\ flat' = [flat EXCEPT ![s][f] = id]
        /\ cache' = [cache EXCEPT ![s][f] = id]
        /\ UNCHANGED <<exportVars, order, vault, tree, stored, local, workerVars, faults>>
    BY DEF FindArchiveId
  <1>2. s \in Servers
    BY GlacierFaultsAssumption
  <1>3. id \in Ids /\ Named(id, f)
    BY <1>1, <1>2 DEF Inv, TypeOK, Named, IdsNamed, IdsNameExports
  <1> HIDE DEF id
  <1>4. TypeOK'
    BY <1>1, <1>2, <1>3
    DEF Inv, TypeOK, ExportsTypeOK, exportVars, workerVars, WorkerSteps, Ids
  <1>5. \A t \in Servers, g \in Archivable :
          /\ flat'[t][g] = flat[t][g] \/ (t = s /\ g = f /\ flat'[t][g] = id)
          /\ cache'[t][g] = cache[t][g] \/ (t = s /\ g = f /\ cache'[t][g] = id)
    BY <1>1, <1>2 DEF Inv, TypeOK
  <1>6. Grows
    <2>1. \A g \in Archivable : Uploaded(g) \in Archivable
      BY DEF Uploaded, Archivable
    <2> QED BY <1>1, <1>5, <2>1 DEF Grows, Put
  <1>7. IdsNamed'
    BY <1>1, <1>3, <1>5 DEF Inv, IdsNamed, IdsNameExports, Named, Names
  <1>8. \A v \in Workers : ExportInv(v)' /\ PutInv(v)' /\ LoopInv(v)'
    BY <1>1, <1>6, OthersStay DEF workerVars, exportVars
  <1>9. \A g \in Archivable : tree'[g] # "absent" => Put(g)'
    BY <1>1, <1>6 DEF Inv, Grows
  <1> QED BY <1>4, <1>7, <1>8, <1>9 DEF Inv

\* A server forgets the ids that it has in memory.
LEMMA ServerRestartsKeepsInv ==
  ASSUME Inv, NEW s \in Servers, ServerRestarts(s)
  PROVE  Inv'
  <1> DEFINE died == {w \in Workers : ServerOf[w] = s}
             Left(files) == [f \in Formats |-> IF files[f] \in died THEN "part" ELSE files[f]]
  <1>1. /\ worker' = [w \in Workers |-> IF w \in died THEN "idle" ELSE worker[w]]
        /\ cache' = [cache EXCEPT ![s] = [f \in Archivable |-> 0]]
        /\ file' = [file EXCEPT ![s] = Left(file[s])]
        /\ dir' = [dir EXCEPT ![s] = Left(dir[s])]
        /\ UNCHANGED <<order, vault, tree, stored, flat, local, todo, failed, value>>
        /\ faults' \in 0..MaxFaults
    BY GlacierFaultsAssumption DEF ServerRestarts, Fault, Inv, TypeOK
  <1>2. Left(file[s]) \in [Formats -> Content] /\ Left(dir[s]) \in [Formats -> Content]
    BY DEF Inv, TypeOK, ExportsTypeOK, Content
  <1> HIDE DEF Left
  <1>3. ExportsTypeOK'
    BY <1>1, <1>2 DEF Inv, TypeOK, ExportsTypeOK
  <1>4. TypeOK'
    BY <1>1, <1>3 DEF Inv, TypeOK, WorkerSteps, Ids
  <1>5. Grows
    BY <1>1 DEF Grows, Put
  <1>6. IdsNamed'
    <2>1. \A t \in Servers, f \in Archivable : cache'[t][f] \in {cache[t][f], 0}
      BY <1>1 DEF Inv, TypeOK
    <2> QED BY <1>1, <2>1 DEF Inv, IdsNamed, IdsNameExports, Named, Names
  <1>7. \A f \in Archivable : tree'[f] # "absent" => Put(f)'
    BY <1>1, <1>5 DEF Inv, Grows
  <1>8. ASSUME NEW v \in Workers
        PROVE  ExportInv(v)' /\ PutInv(v)' /\ LoopInv(v)'
    <2>1. CASE v \in died
      <3>1. worker'[v] = "idle"
        BY <1>1, <2>1
      <3> QED BY <3>1 DEF ExportInv, PutInv, LoopInv, AtFormat
    <2>2. CASE v \notin died
      <3>1. ServerOf[v] \in Servers \ {s} /\ worker'[v] = worker[v]
        BY <1>1, <2>2, ExportServersAssumption
      <3>2. file'[ServerOf[v]] = file[ServerOf[v]] /\ dir'[ServerOf[v]] = dir[ServerOf[v]]
        BY <1>1, <3>1 DEF Inv, TypeOK, ExportsTypeOK
      <3> QED BY <1>1, <1>5, <3>1, <3>2, OthersStay
    <2> QED BY <2>1, <2>2
  <1> QED BY <1>4, <1>6, <1>7, <1>8 DEF Inv

\* Every step keeps the invariant.
LEMMA NextKeepsInv ==
  ASSUME Inv, [Next]_vars
  PROVE  Inv'
  <1>1. ASSUME NEW w \in Workers, WorkerStep(w) PROVE Inv'
    BY <1>1, NextFormatKeepsInv, EndingKeepsInv, StartExportKeepsInv, EndExportKeepsInv,
       CreateExportedKeepsInv, PrepareKeepsInv, UploadBucketKeepsInv,
       WriteFlatFileKeepsInv, PathAppearsKeepsInv, StoreIdKeepsInv,
       DiscardExportKeepsInv, PutSizeKeepsInv, CleanKeepsInv
    DEF WorkerStep
  <1>2. ASSUME NEW w \in Workers, WorkerFault(w) PROVE Inv'
    BY <1>2, EndExportKeepsInv, ToolFailsKeepsInv, UploadThrowsKeepsInv, PrepareKeepsInv
    DEF WorkerFault
  <1>3. ASSUME UNCHANGED vars PROVE Inv'
    <2>1. UNCHANGED <<exportVars, order, vault, tree, idVars, local, workerVars, faults>>
      BY <1>3 DEF vars
    <2>2. TypeOK'
      BY <2>1 DEF Inv, TypeOK, ExportsTypeOK, exportVars, idVars, workerVars, Ids
    <2>3. \A v \in Workers : ExportInv(v)' /\ PutInv(v)' /\ LoopInv(v)'
      BY <2>1, LocalGrows, OthersStay DEF exportVars, workerVars
    <2> QED BY <2>1, <2>2, <2>3, LocalGrows DEF Inv
  <1> QED
    BY <1>1, <1>2, <1>3, BeginKeepsInv, FindArchiveIdKeepsInv, ServerRestartsKeepsInv
    DEF Next

\* The whole invariant.
LEMMA Invariance == Spec => []Inv
  <1>1. Inv /\ [Next]_vars => Inv'
    BY NextKeepsInv
  <1> QED BY <1>1, InitEstablishesInv, PTL DEF Spec

(***************************************************************************)
(* Theorems                                                                *)
(***************************************************************************)

\* Glacier's variables keep their types: every id is that of an upload, and no
\* step takes the first format of an empty list (GlacierClient.java:59-71).
THEOREM GlacierTyping == Spec => []TypeOK
  BY Invariance, PTL DEF Inv

\* When no two workers share a server, what isArchived takes for archived can be
\* found when every server has lost its memory: the flat file is written before a
\* path appears in the archive (MetadataStore.java:64-87), and no file is uploaded
\* before its tool has ended (GlacierArchiveFileSystem.java:84-111).
THEOREM ArchivedCanBeFound == ASSUME OneWorker PROVE Spec => []ArchivedIsFindable
  <1>1. Inv => ArchivedIsFindable
    BY PutIsFindable DEF Inv, IdsNamed, ArchivedIsFindable
  <1> QED BY <1>1, Invariance, PTL

-----------------------------------------------------------------------------
(***************************************************************************)
(* The promise                                                             *)
(***************************************************************************)

\* What is put stays put, and only DeleteBucket deletes the bucket.
LEMMA StepPuts ==
  ASSUME Inv, [Next]_vars
  PROVE  /\ order' = order
         /\ \A f \in Archivable : Put(f) => Put(f)'
         /\ local' = local \/ \E w \in Workers : DeleteBucket(w)
  <1> USE DEF Put, idVars
  <1>0. \A f \in Archivable : Uploaded(f) \in Archivable
    BY DEF Uploaded, Archivable
  <1>1. ASSUME NEW w \in Workers,
               WorkerFault(w) \/ Begin(w) \/ NextFormat(w) \/ EndFormats(w) \/ DeleteBucket(w)
        PROVE  UNCHANGED <<order, stored, flat>> /\ (local' = local \/ DeleteBucket(w))
    BY <1>1
    DEF WorkerFault, TarFails, ToolFails, UploadThrows, UploadFaults, TransferThrows,
        Exporting, Transferring, Begin, Begins, NextFormat, EndFormats, DeleteBucket
  <1>2. ASSUME NEW w \in Workers,
               \/ StartExport(w) \/ EndExport(w) \/ CreateExported(w) \/ Prepare(w)
               \/ UploadBucket(w) \/ MakeParents(w) \/ DiscardExport(w) \/ Commit(w)
               \/ PutSize(w) \/ CollectException(w) \/ Clean(w)
        PROVE  UNCHANGED <<order, stored, flat, local>>
    BY <1>2
    DEF StartExport, EndExport, CreateExported, Prepare, UploadBucket, MakeParents,
        DiscardExport, Commit, PutSize, CollectException, Catch, Clean, Exporting,
        Transferring
  <1>3. ASSUME NEW w \in Workers, WriteFlatFile(w) \/ StoreId(w)
        PROVE  UNCHANGED <<order, local>> /\ \A f \in Archivable : Put(f) => Put(f)'
    <2>1. worker[w] \in {"flat", "store"}
      BY <1>3 DEF WriteFlatFile, StoreId, Goto
    <2>2. value[w] # 0
      BY <2>1 DEF Inv, PutInv
    <2>3. CASE WriteFlatFile(w)
      BY <1>0, <2>2, <2>3 DEF WriteFlatFile, Transferring, Inv, TypeOK
    <2>4. CASE StoreId(w)
      BY <1>0, <2>2, <2>4 DEF StoreId, Transferring, Inv, TypeOK
    <2> QED BY <1>3, <2>3, <2>4
  <1>4. ASSUME NEW s \in Thawers, NEW f \in Archivable, FindArchiveId(s, f)
        PROVE  UNCHANGED <<order, local>> /\ \A g \in Archivable : Put(g) => Put(g)'
    BY <1>0, <1>4, GlacierFaultsAssumption DEF FindArchiveId, Inv, TypeOK
  <1>5. ASSUME NEW s \in Servers, ServerRestarts(s)
        PROVE  UNCHANGED <<order, stored, flat, local>>
    BY <1>5 DEF ServerRestarts
  <1>6. CASE UNCHANGED vars
    BY <1>6 DEF vars
  <1>7. ASSUME UNCHANGED <<stored, flat>>
        PROVE  \A f \in Archivable : Put(f) => Put(f)'
    BY <1>7
  <1> QED BY <1>1, <1>2, <1>3, <1>4, <1>5, <1>6, <1>7 DEF Next, WorkerStep

\* Every step publishes the bucket, deletes it when it is published, or does
\* nothing of what the promise is about.
LEMMA StepKeepsPromise ==
  ASSUME OneWorker, Inv, Inv', [Next]_vars
  PROVE  [Promise!Next]_(Promise!promiseVars)
  <1> DEFINE All == \A i \in DOMAIN order : Findable(order[i])
  <1>0. OneWorker'
    BY DEF OneWorker
  <1>1. \A i \in DOMAIN order : order[i] \in Archivable
    BY FormatsAssumption DEF Inv, TypeOK
  <1>2. \A f \in Archivable : Findable(f) => Put(f)
    BY PutIsFindable DEF Inv, IdsNamed
  <1>3. \A f \in Archivable : Put(f)' => Findable(f)'
    <2>1. \A f \in Archivable : Uploaded(f) \in Archivable /\ Uploaded(Uploaded(f)) = Uploaded(f)
      BY DEF Uploaded, Archivable
    <2> SUFFICES ASSUME NEW f \in Archivable, Put(f)'
                 PROVE  Findable(f)'
      OBVIOUS
    <2> DEFINE g == Uploaded(f)
    <2>2. \/ stored'[g] # 0
          \/ \E s \in Servers : flat'[s][g] # 0
      BY DEF Put
    <2>3. /\ stored'[g] # 0 => Names(stored[g], g)'
          /\ \A s \in Servers : flat'[s][g] # 0 => Names(flat[s][g], g)'
      BY <2>1, <1>0 DEF Inv, IdsNamed, IdsNameExports
    <2>4. CASE stored'[g] # 0
      <3>1. Names(stored[g], f)'
        BY <2>1, <2>3, <2>4 DEF Names
      <3> QED BY <2>4, <3>1 DEF Findable
    <2>5. ASSUME NEW s \in Servers, flat'[s][g] # 0
          PROVE  Findable(f)'
      <3>1. Names(flat[s][g], f)'
        BY <2>1, <2>3, <2>5 DEF Names
      <3> QED BY <2>5, <3>1 DEF Findable
    <2> QED BY <2>2, <2>4, <2>5
  <1>4. All => All'
    BY <1>1, <1>2, <1>3, StepPuts
  <1>5. ASSUME NEW w \in Workers, DeleteBucket(w)
        PROVE  All /\ local' = local \ {ServerOf[w]}
    <2>1. \A i \in DOMAIN order : Put(order[i])
      BY <1>5 DEF DeleteBucket, Goto, Inv, LoopInv
    <2>2. All
      BY <1>1, <2>1, PutIsFindable DEF Inv, IdsNamed
    <2> QED BY <1>5, <2>2, ExportServersAssumption DEF DeleteBucket
  <1>6. CASE \E w \in Workers : DeleteBucket(w)
    <2>1. PICK w \in Workers : DeleteBucket(w)
      BY <1>6
    <2>2. All /\ All' /\ local' = local \ {ServerOf[w]}
      BY <1>4, <1>5, <2>1
    <2>3. Promise!Discard(ServerOf[w])
      BY <2>2 DEF Promise!Discard
    <2> QED BY <2>3 DEF Promise!Next
  <1>7. CASE local' = local /\ All'
    <2>1. CASE All
      BY <1>7, <2>1 DEF Promise!promiseVars
    <2>2. CASE ~All
      BY <1>7, <2>2 DEF Promise!Publish, Promise!Next
    <2> QED BY <2>1, <2>2
  <1>8. CASE local' = local /\ ~All'
    <2>1. ~All
      BY <1>4, <1>8
    <2> QED BY <1>8, <2>1 DEF Promise!promiseVars
  <1> QED BY <1>6, <1>7, <1>8, StepPuts

\* However many workers a server has and whatever they upload, a server deletes its
\* bucket only when an id is kept for it in every configured format, where it
\* survives restarts, and none of them is dropped (BucketCopier.java:48-57).
THEOREM IdsBeforeDeletion ==
  Spec => [][\A f \in Archivable : Put(f) => Put(f)']_vars
       /\ [][local' # local => \A i \in DOMAIN order : Put(order[i])]_vars
  <1>1. Inv /\ [Next]_vars =>
          /\ [\A f \in Archivable : Put(f) => Put(f)']_vars
          /\ [local' # local => \A i \in DOMAIN order : Put(order[i])]_vars
    <2> SUFFICES ASSUME Inv, [Next]_vars
                 PROVE  /\ \A f \in Archivable : Put(f) => Put(f)'
                        /\ local' # local => \A i \in DOMAIN order : Put(order[i])
      OBVIOUS
    <2>1. ASSUME NEW w \in Workers, DeleteBucket(w)
          PROVE  \A i \in DOMAIN order : Put(order[i])
      BY <2>1 DEF DeleteBucket, Goto, Inv, LoopInv
    <2> QED BY <2>1, StepPuts
  <1> QED BY <1>1, Invariance, PTL DEF Spec

\* When no two workers share a server, archiving in Glacier implements
\* ArchivePromise for all the formats together: the bucket does not leave the archive again, and no server deletes its own
\* before it can be found there in each (BucketCopier.java:48-57).
THEOREM GlacierRefinement ==
  ASSUME OneWorker, <<>> \notin Orders
  PROVE  Spec => KeepsThePromise
  <1>1. Init => Promise!Init
    <2> SUFFICES ASSUME Init PROVE Promise!Init
      OBVIOUS
    <2>1. 1 \in DOMAIN order /\ order[1] \in Archivable
      BY FormatsAssumption DEF Init
    <2>2. ~Findable(order[1])
      BY <2>1 DEF Init, Findable, Uploaded, Archivable
    <2> QED BY <2>1, <2>2 DEF Init, Promise!Init
  <1>2. Inv /\ Inv' /\ [Next]_vars => [Promise!Next]_(Promise!promiseVars)
    BY StepKeepsPromise
  <1> QED BY <1>1, <1>2, Invariance, PTL DEF Spec, KeepsThePromise, Promise!Spec
=============================================================================
