---------------------------- MODULE MCMetadata ----------------------------
(***************************************************************************)
(* Instances of Metadata: two threads that put the metadata of one bucket, *)
(* on two servers that have replicas of it, or one that copies and one     *)
(* that archives it on the server that thaws it as well.                   *)
(***************************************************************************)
EXTENDS Metadata, TLC

CONSTANTS s1, s2, p1, p2, d1, d2

TwoServers   == {s1, s2}
SecondServer == {s2}
TwoThreads   == {p1, p2}
TwoData      == {d1, d2}
OneEach      == (p1 :> {d1}) @@ (p2 :> {d2})

ApartOrTogether == {(p1 :> s1) @@ (p2 :> s2), [p \in TwoThreads |-> s2]}

AllFaults == {"put", "get", "receive", "crash", "receive_crash"}
===========================================================================
