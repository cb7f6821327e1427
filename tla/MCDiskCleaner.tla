--------------------------- MODULE MCDiskCleaner ---------------------------
(* Instances of DiskCleaner for TLC: the constants are all in the .cfg. *)
EXTENDS DiskCleaner
=============================================================================
