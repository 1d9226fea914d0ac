------------------------------- MODULE Faults -------------------------------
(***************************************************************************)
(* The environment's budget of failures: a database call that returns an   *)
(* error, a Gmail call that fails, a broken AMQP connection, a process that *)
(* is killed.  Every action that models one spends a unit of the budget, so *)
(* that retries (Nack with requeue, container restarts) cannot go on for    *)
(* ever.  Nothing in the code depends on the counter.                       *)
(***************************************************************************)
EXTENDS Naturals

CONSTANT MaxFaults      \* bound: how many failures a behaviour may contain

ASSUME MaxFaultsAssumption == MaxFaults \in Nat

VARIABLE faults         \* failures that have happened so far

FaultsTypeOK == faults \in 0 .. MaxFaults

FaultsInit == faults = 0

Fault ==
  /\ faults < MaxFaults
  /\ faults' = faults + 1

=============================================================================
