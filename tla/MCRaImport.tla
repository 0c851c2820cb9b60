----------------------------- MODULE MCRaImport -----------------------------
(* Two interfaces with two addresses each and two workers: workers compete *)
(* for the channel, and the timeout can fire at any point of their work.   *)
EXTENDS RaImport
=============================================================================
