------------------------------ MODULE Exports -------------------------------
(***************************************************************************)
(* The export directory that each server has for a bucket in Splunk's      *)
(* format.  A tool writes the bucket to a file in it, and the file is then *)
(* moved into a directory of the bucket's name: that is the exported       *)
(* bucket.  Every format is exported to the same directory, as the name of *)
(* that does not depend on the format.                                     *)
(***************************************************************************)

CONSTANTS Servers,   \* indexers
          Workers,   \* threads that export the bucket
          ServerOf,  \* the server of each
          Formats    \* those that a bucket is exported to

ASSUME ExportServersAssumption ==
  /\ ServerOf \in [Workers -> Servers]
  /\ Workers \cap {"none", "part", "torn", "whole"} = {}

VARIABLES
  file,  \* the file of each format in a server's export directory
  dir    \* the file of each format in the directory of the exported bucket

exportVars == <<file, dir>>

\* A file is absent, written to by a worker's tool, what a tool left that
\* failed, what it left when nobody noticed that it failed, or all of it.
Content == {"none", "part", "torn", "whole"} \cup Workers

ExportsTypeOK ==
  /\ file \in [Servers -> [Formats -> Content]]
  /\ dir \in [Servers -> [Formats -> Content]]

ExportsInit ==
  /\ file = [s \in Servers |-> [f \in Formats |-> "none"]]
  /\ dir = file

\* The files of the exported bucket.
FilesOf(s) == {f \in Formats : dir[s][f] # "none"}

\* getExportFile deletes the file that is there.  The tool creates its own.
StartTool(w, f) ==
  /\ file' = [file EXCEPT ![ServerOf[w]][f] = w]
  /\ UNCHANGED dir

\* The tool ends and has left this in the file that it has open, wherever that
\* has been moved.
EndTool(w, content) ==
  LET Ended(files) == [f \in Formats |-> IF files[f] = w THEN content ELSE files[f]]
  IN  /\ file' = [file EXCEPT ![ServerOf[w]] = Ended(@)]
      /\ dir' = [dir EXCEPT ![ServerOf[w]] = Ended(@)]

\* A tool exits with an error.  createTgz deletes the file, the exporter of csv
\* files leaves it.
FailTool(w, f) ==
  \/ /\ file' = [file EXCEPT ![ServerOf[w]][f] = "none"]
     /\ f = "tgz"
     /\ UNCHANGED dir
  \/ /\ f # "tgz"
     /\ EndTool(w, "part")

\* createBucketWithFile: the file is moved into the directory, beside what is
\* there.
CreateBucketWithFile(w, f) ==
  LET s == ServerOf[w]
  IN  /\ file[s][f] # "none"
      /\ dir' = [dir EXCEPT ![s][f] = file[s][f]]
      /\ file' = [file EXCEPT ![s][f] = "none"]

\* deleteBucket deletes the directory, or what can be deleted of it, and
\* ignores the rest.
DeleteExported(w, rest) ==
  /\ rest \subseteq FilesOf(ServerOf[w])
  /\ dir' = [dir EXCEPT ![ServerOf[w]] =
               [f \in Formats |-> IF f \in rest THEN @[f] ELSE "none"]]
  /\ UNCHANGED file
=============================================================================
