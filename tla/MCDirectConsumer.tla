-------------------------- MODULE MCDirectConsumer --------------------------
(***************************************************************************)
(* A bulk_create of two events beside a create of one.                     *)
(***************************************************************************)
EXTENDS DirectConsumer, TLC

CONSTANTS s1, s2

TwoAndOne == s1 :> 2 @@ s2 :> 1
=============================================================================
