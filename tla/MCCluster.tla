----------------------------- MODULE MCCluster ------------------------------
(* Instances of Cluster for TLC. *)
EXTENDS Cluster, TLC

CONSTANTS b1, b2, i1, i2, n1, n2, splunk, tgz

TwoBuckets  == {b1, b2}
TwoIndexers == {i1, i2}
TwoFormats  == {splunk, tgz}
TwoNames    == {n1, n2}

\* b1 is of i1, which archives in both formats and lists; b2 is of i2,
\* which has a replica of b1.
Origins == (b1 :> i1) @@ (b2 :> i2)
Holders == (b1 :> TwoIndexers) @@ (b2 :> {i2})
OneHasTwoFormats == (i1 :> TwoFormats) @@ (i2 :> {tgz})
NamesAtFirst == (i1 :> n1) @@ (i2 :> n2)

TgzFirst  == {<<tgz>>}
\* A day has two instants, midnight and noon.  Both buckets have events on the
\* first day, b2 from noon on.
Spans == (b1 :> <<0, 2>>) @@ (b2 :> <<1, 3>>)
FirstDate == [form |-> "date", value |-> 0]
Noon == [form |-> "millis", value |-> 1]
\* The first day alone, which the code takes for its midnight; and no time, as the
\* range is the wrong way round.
FirstDayAndNone == {<<FirstDate, FirstDate>>, <<Noon, FirstDate>>}
TheFirst == {i1}

AllFaults ==
  {"lookup", "delete", "transfer", "export", "restart", "lose", "list"}
=============================================================================
