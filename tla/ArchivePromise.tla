--------------------------- MODULE ArchivePromise ---------------------------
(***************************************************************************)
(* What archiving one bucket in one format promises, whatever the number   *)
(* of servers that try: the bucket appears in the archive whole and at     *)
(* once, it never leaves the archive again, an attempt reports success     *)
(* only when the bucket is there, and a server gives up its local copy     *)
(* only when the bucket is there.  The contract is the one stated by the   *)
(* comments of Transaction.java and by ArchiveBucketTransferer.java:94-101.*)
(***************************************************************************)

CONSTANTS Executors,  \* the threads that shuttl the bucket
          Servers     \* the Shuttl servers, one per indexer

VARIABLES data,    \* "absent" or "complete": the bucket in the archive
          report,  \* what the last attempt of each executor reported
          kept     \* the servers that still have their local copy

promiseVars == <<data, report, kept>>

Reports == {"none", "ok", "failed"}

TypeOK ==
  /\ data \in {"absent", "complete"}
  /\ report \in [Executors -> Reports]
  /\ kept \subseteq Servers

Init ==
  /\ data = "absent"
  /\ report = [e \in Executors |-> "none"]
  /\ kept = Servers

\* The bucket is published, all of it in one step.
Publish ==
  /\ data' = "complete"
  /\ UNCHANGED <<report, kept>>

\* Attempts begin, end or die together with their server.
Report ==
  /\ report' \in [Executors -> Reports]
  /\ \A e \in Executors :
       report'[e] = "ok" /\ report[e] # "ok" => data = "complete"
  /\ UNCHANGED <<data, kept>>

\* A server deletes its local copy.
Discard(s) ==
  /\ data = "complete"
  /\ kept' = kept \ {s}
  /\ UNCHANGED <<data, report>>

Next == Publish \/ Report \/ \E s \in Servers : Discard(s)

Spec == Init /\ [][Next]_promiseVars
=============================================================================
