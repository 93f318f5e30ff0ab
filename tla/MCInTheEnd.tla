----------------------------- MODULE MCInTheEnd -----------------------------
(***************************************************************************)
(* What must come about in the end, for TLC: what is paid is granted, and  *)
(* the API listens.  Each behaviour runs one part and leaves the other     *)
(* where it starts; the part that does not run has nothing left to do.     *)
(***************************************************************************)
EXTENDS StripeWebhook, ServerStart

VARIABLE part      \* the part that runs

\* The API listens on a whole catalogue.
Started ==
    /\ fixtures = 5 /\ printers = TRUE /\ imported = "all" /\ dataset = TRUE
    /\ starter = [p \in Starters |-> IF p = "api" THEN "up" ELSE "down"]
    /\ cuts = 0 /\ torn = FALSE

EndInit ==
    /\ part \in {"webhook", "start"} /\ WebhookInit
    /\ IF part = "start" THEN StartInit ELSE Started

EndNext ==
    \/ part = "webhook" /\ WebhookNext /\ UNCHANGED <<part, startVars>>
    \/ part = "start" /\ StartNext /\ UNCHANGED <<part, allVars>>

EndSpec ==
    /\ EndInit /\ [][EndNext]_<<part, allVars, startVars>>
    /\ WebhookFairness /\ StartFairness
=============================================================================
