----------------------------- MODULE MCCleanup ------------------------------
(* An instance of Cleanup for TLC.  An object's part in cleanup depends on *)
(* its kind, its policy and its namespace only, and the initial states     *)
(* give these every combination.                                           *)
EXTENDS Cleanup
=============================================================================
