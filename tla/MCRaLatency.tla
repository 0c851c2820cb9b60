---------------------------- MODULE MCRaLatency -----------------------------
(* One subnet with two pods, which two export workers can take routes of;  *)
(* one interface with one address: RaImport.cfg has the import half in the *)
(* large.                                                                  *)
EXTENDS RaLatency, TLC

CONSTANTS s1, c1

Single == s1 :> c1
TwoPods == s1 :> 2
=============================================================================
