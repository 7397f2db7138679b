--------------------------- MODULE SessionContract ---------------------------
(***************************************************************************)
(* What the session component promises about one session id, whatever      *)
(* interleaves with it: it is requested once, listed at most once, and     *)
(* once it is no longer listed it never comes back; it leaves the list     *)
(* before its workload is taken down, never the other way round.           *)
(***************************************************************************)
CONSTANT Sessions

VARIABLE status

Statuses ==
    {"absent",    \* nobody asked for it
     "starting",  \* its request is running, nothing is listed yet
     "running",   \* listed: users can connect to it
     "orphaned",  \* not listed, parts of its workload are still in the cluster
     "gone"}      \* not listed and nothing left in the cluster

ContractInit == status = [s \in Sessions |-> "absent"]

Move(s, from, to) == status[s] = from /\ status' = [status EXCEPT ![s] = to]

Ask(s) == Move(s, "absent", "starting") \/ Move(s, "absent", "gone")
Publish(s) == Move(s, "starting", "running")
Withdraw(s) == Move(s, "running", "orphaned")
Reap(s) == Move(s, "orphaned", "gone")

\* Several requests end at once when their process does.
GiveUp(S) ==
    /\ \A s \in S : status[s] = "starting"
    /\ \E left \in [S -> {"orphaned", "gone"}] :
          status' = [s \in Sessions |-> IF s \in S THEN left[s] ELSE status[s]]

ContractNext ==
    \/ \E s \in Sessions : Ask(s) \/ Publish(s) \/ Withdraw(s) \/ Reap(s)
    \/ \E S \in SUBSET Sessions : GiveUp(S)

ContractSpec == ContractInit /\ [][ContractNext]_status

=============================================================================
