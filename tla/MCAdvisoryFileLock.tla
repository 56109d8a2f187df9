------------------------- MODULE MCAdvisoryFileLock -------------------------
(* AdvisoryFileLock for TLC. *)
EXTENDS AdvisoryFileLock

=============================================================================
