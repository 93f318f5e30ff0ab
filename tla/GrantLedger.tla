---------------------------- MODULE GrantLedger ----------------------------
(***************************************************************************)
(* What the table cloud_entitlement_grants promises, whoever writes it: an *)
(* append-only ledger of paid terms.  A grant is credited once, to one     *)
(* user, for a term that begins no earlier than any term of that user that *)
(* is still in force, and may later be withdrawn for good.  No entry is    *)
(* ever rewritten, deleted or put back.                                    *)
(*                                                                         *)
(* CloudEntitlement implements this specification with ledger <- grant.    *)
(***************************************************************************)
EXTENDS Integers

CONSTANTS Users, Grants, Horizon

VARIABLE ledger

InForce(g, u) == ledger[g].status = "active" /\ ledger[g].user = u

Init == \A g \in Grants : ledger[g].status = "absent"

\* The term <<s, e>> is credited to user u under the identity g.
Credit(g, u, s, e) ==
    /\ ledger[g].status = "absent"
    /\ s < e
    /\ \A h \in Grants : InForce(h, u) => ledger[h].endsAt <= s
    /\ ledger' = [ledger EXCEPT ![g] = [user |-> u, startsAt |-> s,
                                        endsAt |-> e, status |-> "active"]]

Withdraw(g) ==
    /\ ledger[g].status = "active"
    /\ ledger' = [ledger EXCEPT ![g].status = "revoked"]

Next ==
    \/ \E g \in Grants, u \in Users, s, e \in 0..Horizon : Credit(g, u, s, e)
    \/ \E g \in Grants : Withdraw(g)

Spec == Init /\ [][Next]_ledger
=============================================================================
