--------------------------- MODULE StripeWebhook ----------------------------
(***************************************************************************)
(* Buying Cloud access: the checkout handler, Stripe, and the webhook      *)
(* handler of apps/api/src/routes-cloud.ts over the tables of              *)
(* CloudEntitlement.                                                       *)
(*                                                                         *)
(* Stripe (external) keeps its own record of every session, emits an event *)
(* for each change and delivers events in any order, more than once, and   *)
(* again as long as the answer is not 2xx.  The server is one thread: a    *)
(* handler gives way only where it awaits.  For these events the webhook   *)
(* handler awaits only before its first write, so it runs alone, one write *)
(* per step; the process may stop between any two writes.  The checkout    *)
(* handler awaits Stripe between creating the pending row and storing the  *)
(* session id.                                                             *)
(***************************************************************************)
EXTENDS CloudEntitlement

CONSTANTS
    Prices,       \* values config.priceCents takes over the deployments
    OpenWindow,   \* how long findOpenPendingCheckout takes a row for open
    Kinds,        \* bound: the events Stripe has reason to send
    LastTick,     \* bound: the clock stops here
    MaxRestarts   \* bound: how often the process stops and starts again

ASSUME WebhookParameters ==
    /\ LastTick \in Time
    /\ OpenWindow \in Nat
    /\ Kinds \subseteq {"pending", "paid", "expired", "failed", "refunded",
                        "partially_refunded", "disputed"}
    /\ "paid" \in Kinds
    /\ MaxRestarts \in Nat

VARIABLES
    stripe,       \* external: Stripe's record of each checkout session
    emitted,      \* external: the events Stripe has generated
    acked,        \* external: those it was answered 2xx for
    event,        \* processed_webhook_events: processing_status per event
    worker,       \* the webhook request in progress and how far it is
    creating,     \* checkout handlers waiting for Stripe to create a session
    checkoutId,   \* the payments whose providerCheckoutId is stored
    quote,        \* amountCents and createdAt of each payment row
    price,        \* config.priceCents of the running process
    restarts

stripeVars   == <<stripe, emitted, acked>>
checkoutVars == <<creating, checkoutId, quote>>
tableVars    == <<payment, grant, row>>
allVars == <<now, payment, grant, row, stripe, emitted, acked, event, worker,
             creating, checkoutId, quote, price, restarts>>

Events == [kind : Kinds, payment : Payments]
Idle   == [event |-> None, at |-> "idle"]
Quotes == [amount : Prices, created : Time]

Sessions == [session : {"none", "open", "pending", "paid", "expired", "failed"},
             created : Time,
             refund : {"none", "partial", "full"},
             disputed : BOOLEAN]

WebhookTypeOK ==
    /\ TypeOK
    /\ stripe \in [Payments -> Sessions]
    /\ emitted \subseteq Events /\ acked \subseteq emitted
    /\ event \in [Events -> {"none", "received", "processed", "failed"}]
    /\ worker = Idle \/ /\ worker.event \in emitted
                        /\ worker.at \in {"begun", "apply", "revoke",
                                          "recompute", "finish"}
    /\ creating \subseteq Payments /\ checkoutId \subseteq Payments
    /\ quote \in [Payments -> Quotes \cup {None}]
    /\ price \in Prices
    /\ restarts \in 0..MaxRestarts
-----------------------------------------------------------------------------
(* Stripe and its customer.                                                *)

NoSession == [session |-> "none", created |-> 0, refund |-> "none",
              disputed |-> FALSE]

Emit(kind, p) ==
    /\ kind \in Kinds
    /\ emitted' = emitted \cup {[kind |-> kind, payment |-> p]}

ServerUnchanged == UNCHANGED <<now, payment, grant, row, acked, event, worker,
                               creating, checkoutId, quote, price, restarts>>

CreateSession(p) ==
    /\ p \in creating
    /\ stripe[p].session = "none"
    /\ stripe' = [stripe EXCEPT ![p].session = "open", ![p].created = now]
    /\ UNCHANGED emitted
    /\ ServerUnchanged

\* The customer learns the address of the session from the checkout answer,
\* and completes it as long as Stripe keeps it open, superseded or not.  Some
\* payment methods settle later: then the completed session is unpaid.
CompleteSession(p, outcome) ==
    /\ stripe[p].session = "open"
    /\ p \in checkoutId
    /\ stripe' = [stripe EXCEPT ![p].session = outcome]
    /\ Emit(outcome, p)
    /\ ServerUnchanged

SettleSession(p, outcome) ==
    /\ stripe[p].session = "pending"
    /\ stripe' = [stripe EXCEPT ![p].session = outcome]
    /\ Emit(outcome, p)
    /\ ServerUnchanged

ExpireSession(p) ==
    /\ stripe[p].session = "open"
    /\ stripe' = [stripe EXCEPT ![p].session = "expired"]
    /\ Emit("expired", p)
    /\ ServerUnchanged

RefundCharge(p, refund) ==
    /\ stripe[p].session = "paid"
    /\ stripe[p].refund # "full"
    /\ stripe[p].refund # refund
    /\ stripe' = [stripe EXCEPT ![p].refund = refund]
    /\ Emit(IF refund = "full" THEN "refunded" ELSE "partially_refunded", p)
    /\ ServerUnchanged

DisputeCharge(p) ==
    /\ stripe[p].session = "paid"
    /\ ~stripe[p].disputed
    /\ stripe' = [stripe EXCEPT ![p].disputed = TRUE]
    /\ Emit("disputed", p)
    /\ ServerUnchanged
-----------------------------------------------------------------------------
(* The checkout handler.                                                   *)

\* findOpenPendingCheckout: the rows it looks at, and the newest of them.
OpenCheckouts(u) ==
    {q \in checkoutId : /\ payment[q].status = "pending"
                        /\ payment[q].user = u
                        /\ now - quote[q].created <= OpenWindow}

BeginCheckout(u, p) ==
    /\ worker = Idle
    /\ payment[p].status = "absent"
    /\ \/ /\ OpenCheckouts(u) = {}
          /\ payment' = [payment EXCEPT
                           ![p] = [NoPayment EXCEPT !.user = u,
                                                    !.status = "pending"]]
       \/ \E q \in OpenCheckouts(u) :
             /\ \A r \in OpenCheckouts(u) : quote[r].created <= quote[q].created
             /\ payment' = [payment EXCEPT
                              ![q].status = "cancelled",
                              ![p] = [NoPayment EXCEPT !.user = u,
                                                       !.status = "pending"]]
    /\ quote' = [quote EXCEPT ![p] = [amount |-> price, created |-> now]]
    /\ creating' = creating \cup {p}
    /\ UNCHANGED <<now, grant, row, stripe, emitted, acked, event, worker,
                   checkoutId, price, restarts>>

\* Stripe answered: the session id is stored and its address returned.
EndCheckout(p) ==
    /\ worker = Idle
    /\ p \in creating
    /\ stripe[p].session # "none"
    /\ checkoutId' = checkoutId \cup {p}
    /\ creating' = creating \ {p}
    /\ UNCHANGED <<now, payment, grant, row, stripe, emitted, acked, event,
                   worker, quote, price, restarts>>

\* The call to Stripe failed; the row stays pending without a session id.
FailCheckout(p) ==
    /\ worker = Idle
    /\ p \in creating
    /\ creating' = creating \ {p}
    /\ UNCHANGED <<now, payment, grant, row, stripe, emitted, acked, event,
                   worker, checkoutId, quote, price, restarts>>
-----------------------------------------------------------------------------
(* The webhook handler, one write per step.                                *)

At(step, kinds) == worker.at = step /\ worker.event.kind \in kinds
Subject == worker.event.payment
Goto(step) == worker' = [worker EXCEPT !.at = step]
Elsewhere == UNCHANGED <<now, stripe, emitted, creating, checkoutId, quote,
                         price, restarts>>

\* Answer 2xx and be done; or record the failure, for which the answer is an
\* error.
Finish(status) ==
    /\ event' = [event EXCEPT ![worker.event] = status]
    /\ acked' = IF status = "processed" THEN acked \cup {worker.event} ELSE acked
    /\ worker' = Idle

\* beginWebhookEvent: an event already on record, whatever became of it, is
\* answered as a duplicate.
BeginEvent(e) ==
    /\ worker = Idle
    /\ \/ /\ event[e] # "none"
          /\ acked' = acked \cup {e}
          /\ UNCHANGED <<event, worker>>
       \/ /\ event[e] = "none"
          /\ event' = [event EXCEPT ![e] = "received"]
          /\ worker' = [event |-> e, at |-> "begun"]
          /\ UNCHANGED acked
    /\ UNCHANGED tableVars
    /\ Elsewhere

\* Mutant of IgnorePending: a completed session is taken for a paid one.
IgnorePending_Grant ==
    /\ At("begun", {"pending"})
    /\ Goto("apply")
    /\ UNCHANGED <<tableVars, event, acked>>
    /\ Elsewhere

\* A completed but unpaid session: nothing is granted yet.
IgnorePending ==
    /\ At("begun", {"pending"})
    /\ Goto("finish")
    /\ UNCHANGED <<tableVars, event, acked>>
    /\ Elsewhere

\* Mutant of Acceptable: only a payment still pending is accepted.
Acceptable_PendingOnly(p) ==
    quote[p].amount = price /\ payment[p].status = "pending"

\* The amount paid is compared with today's price, not with the quote.
Acceptable(p) == quote[p].amount = price

\* Mutant of CheckPaid: the snapshot is not recomputed before it is read.
CheckPaid_NoRecompute ==
    /\ At("begun", {"paid"})
    /\ \/ ~Acceptable(Subject) /\ Finish("failed")
       \/ Acceptable(Subject) /\ Goto("apply") /\ UNCHANGED <<event, acked>>
    /\ UNCHANGED tableVars
    /\ Elsewhere

\* applyPaidCloudPayment recomputes the snapshot before it reads it.
CheckPaid ==
    /\ At("begun", {"paid"})
    /\ \/ /\ ~Acceptable(Subject)
          /\ Finish("failed")
          /\ UNCHANGED tableVars
       \/ /\ Acceptable(Subject)
          /\ Goto("apply")
          /\ UNCHANGED <<payment, grant, event, acked>>
          /\ Recompute(payment[Subject].user)
    /\ Elsewhere

\* Mutant of WritePaid: without the transaction the second write may be lost.
WritePaid_NoTransaction(p, from) ==
    /\ payment' = [payment EXCEPT ![p].status = "paid", ![p].linked = TRUE]
    /\ \/ UNCHANGED grant
       \/ grant' = [grant EXCEPT
                      ![p] = NewGrant(payment[p].user, from, AccessTerm)]

WritePaid(p, from) ==
    /\ payment' = [payment EXCEPT ![p].status = "paid", ![p].linked = TRUE]
    /\ grant' = [grant EXCEPT ![p] = NewGrant(payment[p].user, from, AccessTerm)]

ApplyPaid ==
    LET p == Subject
        from == StackFrom(row[payment[p].user].paidUntil, stripe[p].created) IN
    /\ worker.at = "apply"
    /\ from + AccessTerm <= Horizon
    /\ IF AlreadyApplied(p) THEN UNCHANGED <<payment, grant>>
                            ELSE WritePaid(p, from)
    /\ Goto("recompute")
    /\ UNCHANGED <<row, event, acked>>
    /\ Elsewhere

\* checkout_expired and checkout_failed find the row by the stored session id.
CloseCheckout ==
    LET p == Subject IN
    /\ At("begun", {"expired", "failed"})
    /\ \/ p \in checkoutId /\ ClosePending(p, worker.event.kind)
       \/ /\ p \notin checkoutId \/ payment[p].status # "pending"
          /\ UNCHANGED tableVars
    /\ Goto("finish")
    /\ UNCHANGED <<event, acked>>
    /\ Elsewhere

\* A refund or dispute finds the row by Stripe's payment id, which only a paid
\* row carries; an unknown one is passed over.
MarkCharge ==
    LET p == Subject IN
    /\ At("begun", {"refunded", "partially_refunded", "disputed"})
    /\ \/ /\ ~payment[p].linked
          /\ UNCHANGED payment
          /\ Goto("finish")
       \/ /\ payment[p].linked
          /\ payment' = [payment EXCEPT
                           ![p].status = worker.event.kind,
                           ![p].review = @ \/ worker.event.kind # "refunded"]
          /\ Goto(CASE worker.event.kind = "refunded"           -> "revoke"
                    [] worker.event.kind = "disputed"           -> "recompute"
                    [] worker.event.kind = "partially_refunded" -> "finish")
    /\ UNCHANGED <<grant, row, event, acked>>
    /\ Elsewhere

RevokeRefunded ==
    /\ worker.at = "revoke"
    /\ RevokeGrant(Subject)
    /\ Goto("recompute")
    /\ UNCHANGED <<payment, row, event, acked>>
    /\ Elsewhere

RecomputeSubject ==
    /\ worker.at = "recompute"
    /\ Goto("finish")
    /\ UNCHANGED <<payment, grant, event, acked>>
    /\ Recompute(payment[Subject].user)
    /\ Elsewhere

FinishEvent ==
    /\ worker.at = "finish"
    /\ Finish("processed")
    /\ UNCHANGED tableVars
    /\ Elsewhere

HandleEvent ==
    \/ IgnorePending \/ CheckPaid \/ ApplyPaid \/ CloseCheckout
    \/ MarkCharge \/ RevokeRefunded \/ RecomputeSubject \/ FinishEvent
-----------------------------------------------------------------------------
(* Everything else that happens to the server.                             *)

EnvironmentUnchanged ==
    UNCHANGED <<stripe, emitted, acked, event, worker, creating, checkoutId,
                quote, price, restarts>>

\* The process stops, in the middle of a request or not, and starts again,
\* perhaps with another price; waiting checkout requests are lost.
Restart(newPrice) ==
    /\ restarts < MaxRestarts
    /\ restarts' = restarts + 1
    /\ worker' = Idle
    /\ creating' = {}
    /\ price' = newPrice
    /\ UNCHANGED <<now, payment, grant, row, stripe, emitted, acked, event,
                   checkoutId, quote>>

Clock == now < LastTick /\ Tick /\ EnvironmentUnchanged

\* Mutant of CronRecompute: the purge does not recompute the row it looks at.
CronRecompute_Stale(u) ==
    /\ worker = Idle
    /\ UNCHANGED <<now, payment, grant, row>>
    /\ EnvironmentUnchanged

\* Every daily run of purgeExpiredCloudInventories recomputes each row; so does
\* the user's own refresh.
CronRecompute(u) ==
    /\ worker = Idle
    /\ RefreshEntitlement(u)
    /\ EnvironmentUnchanged

Administer ==
    /\ worker = Idle
    /\ \/ \E u \in Users, g \in ManualGrants, term \in ManualTerms :
             GrantManualAccess(u, g, term)
       \/ \E g \in Grants : grant[g].status = "active" /\ RevokeAccess(g)
    /\ EnvironmentUnchanged

WebhookInit ==
    /\ Init
    /\ stripe = [p \in Payments |-> NoSession]
    /\ emitted = {} /\ acked = {}
    /\ event = [e \in Events |-> "none"]
    /\ worker = Idle
    /\ creating = {} /\ checkoutId = {}
    /\ quote = [p \in Payments |-> None]
    /\ price \in Prices
    /\ restarts = 0

StripeNext ==
    \E p \in Payments :
        \/ CreateSession(p) \/ ExpireSession(p) \/ DisputeCharge(p)
        \/ \E outcome \in {"pending", "paid"} : CompleteSession(p, outcome)
        \/ \E outcome \in {"paid", "failed"} : SettleSession(p, outcome)
        \/ \E refund \in {"partial", "full"} : RefundCharge(p, refund)

CheckoutNext ==
    \E p \in Payments : \/ \E u \in Users : BeginCheckout(u, p)
                        \/ EndCheckout(p)
                        \/ FailCheckout(p)

WebhookNext ==
    \/ StripeNext
    \/ CheckoutNext
    \/ \E e \in emitted : BeginEvent(e)
    \/ HandleEvent
    \/ Administer
    \/ \E u \in Users : CronRecompute(u)
    \/ \E newPrice \in Prices : Restart(newPrice)
    \/ Clock

WebhookSpec == WebhookInit /\ [][WebhookNext]_allVars

\* The running process finishes the request it is serving, the cron job comes
\* round, and Stripe retries an event until it is answered 2xx: a retry meets
\* an idle server again and again.
WebhookFairness ==
    /\ WF_allVars(HandleEvent)
    /\ \A u \in Users : WF_allVars(CronRecompute(u))
    /\ \A e \in Events : SF_allVars(e \in emitted \ acked /\ BeginEvent(e))

FairWebhookSpec == WebhookSpec /\ WebhookFairness
-----------------------------------------------------------------------------
(* What must hold, restarts, repeated and reordered events included.       *)

\* A purchase is granted only when Stripe has its money: a completed session
\* that settles later, an expired or superseded one, whatever the order of its
\* events, writes no grant (the payment_status check of mapPaidSession).
GrantIsPaidFor ==
    \A p \in Payments :
        grant[p].status # "absent" => stripe[p].session = "paid"

\* Two purchases of a user are never stacked on the same time, even when a
\* process that stopped between writing a grant and recomputing the snapshot
\* left the snapshot behind (the first recompute of applyPaidCloudPayment).
PurchasesNeverOverlap ==
    \A p, q \in Payments :
        /\ p # q /\ grant[p].user = grant[q].user
        /\ grant[p].status = "active" /\ grant[q].status = "active"
        => \/ grant[p].endsAt <= grant[q].startsAt
           \/ grant[q].endsAt <= grant[p].startsAt

\* A paid event on record as processed, which Stripe will not send again, has
\* left its grant, however often the process stopped on the way.
ProcessedMeansDone ==
    \A p \in Payments :
        event[[kind |-> "paid", payment |-> p]] = "processed"
            => grant[p].status # "absent"

\* Between two requests of a process that was never stopped the snapshot is
\* up to date and no refunded payment still buys access, although the handler
\* writes the three tables one after the other.
QuietMeansConsistent ==
    worker = Idle /\ restarts = 0 => SnapshotAgrees /\ RefundEndsGrant

\* The snapshot, left behind the ledger by a process that stopped between the
\* two writes, catches up: the daily job recomputes it.
SnapshotCatchesUp == []<>SnapshotAgrees

\* Who paid is granted access in the end, superseded, expired or repeated as
\* the checkouts may be.  docs/MY_SPOOLS_CLOUD_ARCHITECTURE.md promises it
\* without exception: one ledger row per successful payment.
PaidIsGranted ==
    \A p \in Payments :
        stripe[p].session = "paid" ~> grant[p].status # "absent"

\* There is exactly one way to lose a payment: the process stopped with its
\* event on record as received.  A stop before that, in the checkout or in
\* another event, is made up for by Stripe's retries.
PaidIsGrantedUnlessStopped ==
    \A p \in Payments :
        stripe[p].session = "paid" ~>
            \/ grant[p].status # "absent"
            \/ /\ event[[kind |-> "paid", payment |-> p]] = "received"
               /\ worker = Idle
=============================================================================
