------------------------------- MODULE MCOutput -------------------------------
(* Three types that come and go, one of which is not supported. *)
EXTENDS Output
=============================================================================
