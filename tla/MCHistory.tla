----------------------------- MODULE MCHistory ------------------------------
(* Two branches of one repository.                                         *)
EXTENDS MergeHistory
CONSTANTS main, topic
=============================================================================
