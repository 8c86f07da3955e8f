------------------------------- MODULE MCLog --------------------------------
(* Instances of Log for TLC; the .cfg files give the constants. *)
EXTENDS Log

=============================================================================
