------------------------------ MODULE MCLabeler ------------------------------
(* Instances of Labeler for TLC; the bounds are in the .cfg files.            *)
EXTENDS Labeler
=============================================================================
