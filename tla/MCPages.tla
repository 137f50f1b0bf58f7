------------------------------ MODULE MCPages ------------------------------
(* An instance of Pages: the empty form and another one. *)
EXTENDS Pages

CONSTANTS everything, range

TwoCriteria == {everything, range}
=============================================================================
