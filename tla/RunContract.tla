----------------------------- MODULE RunContract -----------------------------
(***************************************************************************)
(* What a pipeline promises about one triggered run: its status goes from  *)
(* pending over scheduled and running to a final one, which it keeps until *)
(* the run is deleted together with its pipeline.                          *)
(***************************************************************************)
CONSTANT Runs

VARIABLE state

Final == {"success", "timeout", "failure", "unknown"}

ContractInit == state = [r \in Runs |-> "absent"]

Move(r, from, to) == state[r] \in from /\ state' = [state EXCEPT ![r] = to]

Trigger(r) == Move(r, {"absent"}, "pending")
Schedule(r) == Move(r, {"pending"}, "scheduled")
GiveUp(r) == Move(r, {"pending"}, "unknown")
Start(r) == Move(r, {"scheduled"}, "running")
Finish(r) == \E f \in Final : Move(r, {"scheduled", "running"}, f)

\* All runs of a pipeline are deleted at once.
Delete(R) ==
    /\ \A r \in R : state[r] # "absent"
    /\ state' = [r \in Runs |-> IF r \in R THEN "deleted" ELSE state[r]]

ContractNext ==
    \/ \E r \in Runs : Trigger(r) \/ Schedule(r) \/ GiveUp(r) \/ Start(r) \/ Finish(r)
    \/ \E R \in SUBSET Runs : Delete(R)

ContractSpec == ContractInit /\ [][ContractNext]_state

=============================================================================
