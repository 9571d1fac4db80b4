------------------------------ MODULE MCMachine ------------------------------
(***************************************************************************)
(* What runs on the machines of the workers.  A behaviour is either that   *)
(* of a worker process against a hub that says anything at any time, or    *)
(* that of the runs of a task on two machines: the two share no state, and *)
(* one run checks both.                                                    *)
(***************************************************************************)
EXTENDS Worker, TaskRun, TLC

CONSTANTS t1, t2, worker, m1, m2, p1, p2

VARIABLE part

MachineInit == part \in {"worker", "run"} /\ WorkerInit /\ StateFileInit /\ TaskRunInit

MachineNext ==
  /\ \/ part = "worker" /\ WorkerNext /\ UNCHANGED taskVars
     \/ part = "run" /\ TaskRunNext /\ UNCHANGED <<workerVars, stateFile>>
  /\ UNCHANGED part

MachineSpec == MachineInit /\ [][MachineNext]_<<part, workerVars, stateFile, taskVars>>

MCSymmetry == Permutations(Machines) \cup Permutations(Pieces)

=============================================================================
