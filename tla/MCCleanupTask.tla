--------------------------- MODULE MCCleanupTask ---------------------------
(* A small instance of CleanupTask for TLC. *)
EXTENDS CleanupTask

CONSTANTS x, y
=============================================================================
