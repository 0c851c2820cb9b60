----------------------------- MODULE MCPingAll ------------------------------
(* pingAllCudns for three pods, two threads and two attempts: a pod has to *)
(* wait for a slot, and two goroutines can meet at the mutex.              *)
EXTENDS PingAll
=============================================================================
