---------------------------- MODULE MCCudnLatency ---------------------------
(* Instances of CudnLatency for TLC: the constants are given in the cfgs,  *)
(* the names are interchangeable.                                          *)
EXTENDS CudnLatency, TLC

NameSymmetry == Permutations(Names)
=============================================================================
