-------------------------- MODULE MCCloudLifecycle --------------------------
(***************************************************************************)
(* The paid-access tables for TLC, each operation in one step.  In one     *)
(* part every operation runs, for one user with two purchases and a gift   *)
(* or for two users with one of each; in the other one user's account runs *)
(* down, on two gifts, or on one with a stop or an overlap of the job.     *)
(***************************************************************************)
EXTENDS CloudLifecycle

VARIABLE part      \* "tables" or "rundown"

Some(S) == CHOOSE x \in S : TRUE
Bought == {p \in Payments : payment[p].status # "absent"}
Given == {g \in ManualGrants : grant[g].status # "absent"}
Holders == {grant[g].user : g \in Grants} \cup {payment[p].user : p \in Payments}

\* Bounds of the two parts; identities are used in an order.
TablesStay ==
    /\ Given \subseteq {Some(ManualGrants)}
    /\ Bought \subseteq {Some(Payments)} \/ Holders \subseteq {Some(Users), None}

RundownStays ==
    /\ Bought = {} /\ Holders \subseteq {Some(Users), None}
    /\ overlaps + stops = 0 \/ Cardinality(Given) <= 1

TablesInit == part \in {"tables", "rundown"} /\ LifecycleInit

TablesNext ==
    /\ UNCHANGED part
    /\ \/ part = "tables" /\ UNCHANGED jobVars /\ Next /\ TablesStay'
       \/ part = "rundown" /\ UNCHANGED payment /\ LifecycleNext /\ RundownStays'

\* The job is fair where it runs.
TablesSpec ==
    /\ TablesInit /\ [][TablesNext]_<<part, lifecycleVars>>
    /\ WF_lifecycleVars(part = "rundown" /\ \E x \in Runs : BeginJob(x))
    /\ \A x \in Runs : WF_lifecycleVars(WorkOff(x)) /\ WF_lifecycleVars(Purge(x))
=============================================================================
