-------------------------- MODULE MCBucketTransfer --------------------------
(* Instances of BucketTransfer for TLC. *)
EXTENDS BucketTransfer

CONSTANTS a1, a2, c1, s1, s2, s3, p1, p2

\* Indexers that archive, or copy, their copies of one replicated bucket.
TwoArchivers  == {a1, a2}
ThreeServers  == {s1, s2, s3}
OnThreeServers ==
  [e \in {a1, a2, c1} |-> CASE e = a1 -> s1 [] e = a2 -> s2 [] e = c1 -> s3]

\* One indexer whose copy and archive threads meet on one bucket.
OneArchiver == {a1}
OneCopier   == {c1}
OneServer   == {s1}
OnOneServer == [e \in {a1, c1} |-> s1]

TwoParts == {p1, p2}
=============================================================================
