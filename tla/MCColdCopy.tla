----------------------------- MODULE MCColdCopy ------------------------------
(* Instances of ColdCopy for TLC. *)
EXTENDS ColdCopy, FiniteSets

CONSTANTS b1, f1, f2, c1, c2, w1, w2

OneBucket  == {b1}
TwoFormats == {f1, f2}
TwoCopiers == {c1, c2}
TwoWorkers == {w1, w2}

ActorsOf == Copiers \cup Workers
ProcessOfActor ==
  [a \in ActorsOf |-> IF a \in Workers THEN Server ELSE a]

\* A lock file for each bucket, one for each actor that has another one open,
\* and one for each lock that may leak.
EnoughInodes == 1..(Cardinality(Buckets) + Cardinality(ActorsOf) + MaxFaults)

AllFaults == {"copy", "configure", "receipt", "copier_crash", "server_crash"}
=============================================================================
