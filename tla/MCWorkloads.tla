---------------------------- MODULE MCWorkloads ----------------------------
(***************************************************************************)
(* One instance for two workloads of Kernel: clients that block in every   *)
(* way, and a server and clients that die, are spawned again, suspended    *)
(* and reprioritised.  A behaviour keeps to one of them.                   *)
(***************************************************************************)
EXTENDS MCKernel

VARIABLE workload

WorkloadNext ==
  /\ \/ workload = "waits" /\ WaitNext
     \/ workload = "life" /\ LifeNext(Unblocked)
  /\ UNCHANGED workload

WorkloadSpec ==
  Init /\ workload \in {"waits", "life"} /\ [][WorkloadNext]_<<vars, workload>>
=============================================================================
