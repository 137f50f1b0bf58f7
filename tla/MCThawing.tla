----------------------------- MODULE MCThawing ------------------------------
(* Instances of Thawing for TLC. *)
EXTENDS Thawing, FiniteSets, TLC

CONSTANTS b1, b2, f1, f2, t1, t2, g1

TwoBuckets  == {b1, b2}
TwoFormats  == {f1, f2}
TwoThawers  == {t1, t2}
OneFlusher  == {g1}

\* The format that has to be imported.
TgzFormat   == {f2}

\* One bucket in Splunk's format, one in the other.
OneFormatEach == [b \in {b1, b2} |-> IF b = b1 THEN {f1} ELSE {f2}]

OneAtATime == {{b} : b \in Buckets}

\* Lock files are deleted only when nobody has them open.
EnoughInodes == 1..(Cardinality(Keys) + MaxFaults)

AllFaults     == {"get", "clean", "import", "size", "delete", "server_crash"}
=============================================================================
