------------------------------ MODULE MCGlacier -----------------------------
(* Instances of Glacier: servers with replicas of a bucket and one thread    *)
(* each (glacier), or one server with a thread that copies the bucket and    *)
(* one that archives it (glacier_shared_export).                             *)
EXTENDS Glacier

CONSTANTS s1, s2

OneServer    == {s1}
TwoServers   == {s1, s2}
SecondServer == {s2}
OwnServer    == [s \in Workers |-> s]
SameServer   == [s \in Workers |-> s1]

Exportable == {"tgz", "csv"}
TwoOrders  == {<<"csv", "splunk">>, <<"splunk", "tgz">>}
OnlyTgz    == {<<"tgz">>}
AllFaults  == {"tar", "tool", "upload", "put", "delete", "crash"}
NoFaults   == {}
=============================================================================
