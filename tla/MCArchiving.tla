---------------------------- MODULE MCArchiving -----------------------------
(* Instances of Archiving for TLC. *)
EXTENDS Archiving, FiniteSets, TLC

CONSTANTS b1, b2, b3, f1, f2, c1, c2, w1, w2

NoBuckets  == {}
OneBucket  == {b1}
ThreeBuckets == {b1, b2, b3}

\* b1 is an original, b2 a replica, and b3 one that has raw data only.
Replicas == {b2, b3}
RawOnes  == {b3}

\* Every bucket alone with all the faults, and two together with none.
AloneOrTogether ==
  {[buckets |-> {b}, faults |-> MaxFaults] : b \in Buckets}
    \cup {[buckets |-> {b1, b3}, faults |-> 0]}
OneFormat  == {f1}
TwoFormats == {f1, f2}
OneFreezer  == {c1}
TwoFreezers == {c1, c2}
OneWorker  == {w1}
TwoWorkers == {w1, w2}

ActorsOf == Freezers \cup Workers
ProcessOfActor ==
  [a \in ActorsOf |-> IF a \in Workers THEN Server ELSE a]

\* A lock file for each bucket, one for each actor that has another one open,
\* and one for each lock that may leak.
EnoughInodes == 1..(Cardinality(Buckets) + Cardinality(ActorsOf) + MaxFaults)

AllFaults == {"move", "copy", "delete", "configure", "server_name",
              "freezer_crash", "server_crash"}
ServerFaults  == {"server_name", "server_crash"}
CopyFaults    == {"copy"}
=============================================================================
