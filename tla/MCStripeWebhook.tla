-------------------------- MODULE MCStripeWebhook ---------------------------
(***************************************************************************)
(* Cloud purchases for TLC.  Each behaviour runs one part and leaves the   *)
(* others where they start: the webhook of a small shop, with two          *)
(* purchases at one price, which may supersede each other, expire and be   *)
(* refunded, or one purchase and one gift, with every kind of event and a  *)
(* change of price; the tabs that visitors sign in and buy with; and the   *)
(* page a buyer returns to.                                                *)
(***************************************************************************)
EXTENDS StripeWebhook, WebSession, TLC

VARIABLE part      \* the part that runs

TwoPurchases ==
    /\ price = 1
    /\ \A e \in emitted : e.kind \in {"paid", "expired", "refunded"}
    /\ \A g \in ManualGrants : grant[g].status = "absent"

OnePurchase ==
    /\ now <= 1
    /\ Cardinality({p \in Payments : payment[p].status # "absent"}) <= 1

\* Bound: the states TLC goes on from.
Small == TwoPurchases \/ OnePurchase

PurchaseInit ==
    /\ part \in {"webhook", "tabs", "return"}
    /\ WebhookInit /\ SessionInit

PurchaseNext ==
    \/ part = "webhook" /\ WebhookNext /\ UNCHANGED <<part, sessionVars>>
    \/ part = "tabs" /\ SessionNext /\ UNCHANGED <<part, allVars, returnVars>>
    \/ part = "return" /\ SessionNext /\ UNCHANGED <<part, allVars, webVars>>

PurchaseSpec == PurchaseInit /\ [][PurchaseNext]_<<part, allVars, sessionVars>>

\* Purchases, tabs and visitors are interchangeable.
Interchangeable ==
    Permutations(Payments) \cup Permutations(WebTabs) \cup Permutations(Visitors)
=============================================================================
