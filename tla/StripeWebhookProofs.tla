------------------------ MODULE StripeWebhookProofs -------------------------
(***************************************************************************)
(* Theorems about StripeWebhook, for any users, payments, gifts, prices,   *)
(* terms and number of restarts; and about WebSession, for any visitors,   *)
(* tabs, sign-ins, losses and number of times a payment is asked for.      *)
(***************************************************************************)
EXTENDS StripeWebhook, WebSession, CloudEntitlementProofs, SequenceTheorems

-----------------------------------------------------------------------------
(* The inductive invariant.                                                *)

Steps == {"begun", "apply", "revoke", "recompute", "finish"}

\* A request serves an event that Stripe has sent.
WorkerServes == worker = Idle \/ worker \in [event : emitted, at : Steps]

\* Stripe keeps sessions of payment rows only.
SessionsAreOfPayments ==
    \A p \in Payments :
        p \in creating \/ stripe[p].session # "none" => payment[p].status # "absent"

\* Stripe says "paid" of paid sessions.
PaidEventsAreTrue ==
    \A e \in emitted : e.kind = "paid" => stripe[e.payment].session = "paid"

\* A snapshot that is up to date, for one user.
Agrees(u) ==
    /\ row[u].paidUntil = MaxPaidUntil(u, grant)
    /\ row[u].startsAt = MinStartsAt(u, grant)

\* How far the request is tells what it has done: the snapshot is fresh when a
\* grant is about to be stacked on it, and after that the grant is there.
RequestIsInOrder ==
    /\ worker.at = "apply" =>
          worker.event.kind = "paid" /\ Agrees(payment[Subject].user)
    /\ worker.at = "revoke" => worker.event.kind = "refunded"
    /\ worker.at \in {"recompute", "finish"} /\ worker.event.kind = "paid" =>
          grant[Subject].status # "absent"

\* In a process that never stopped only the request at work has written one table
\* and not yet the other.
OnlyRequestIsBehind ==
    restarts = 0 =>
        /\ \A u \in Users :
              \/ Agrees(u)
              \/ worker.at = "recompute" /\ payment[Subject].user = u
        /\ \A p \in Payments :
              payment[p].status = "refunded" =>
                  \/ grant[p].status = "revoked"
                  \/ worker.at = "revoke" /\ Subject = p

WebhookIInv ==
    /\ WebhookTypeOK /\ WorkerServes /\ PaymentsAreOwned /\ SettledHasGrant
    /\ SessionsAreOfPayments /\ PaidEventsAreTrue
    /\ GrantIsPaidFor /\ PurchasesNeverOverlap /\ ProcessedMeansDone
    /\ RequestIsInOrder /\ OnlyRequestIsBehind
-----------------------------------------------------------------------------
(* What the steps share.                                                   *)

\* The invariant holds of an empty database and a Stripe without sessions.
LEMMA InitWebhookIInv == WebhookInit => WebhookIInv
<1> SUFFICES ASSUME WebhookInit PROVE WebhookIInv
  OBVIOUS
<1>1. TypeOK
  BY InitTypeOK DEF WebhookInit
<1>2. WebhookTypeOK /\ WorkerServes
  BY <1>1, WebhookParameters, ParametersAreTicks
     DEF WebhookInit, WebhookTypeOK, WorkerServes, Sessions, NoSession, Idle, Time
<1>3. \A p \in Payments : /\ payment[p].status = "absent" /\ ~payment[p].linked
                          /\ stripe[p].session = "none"
  BY DEF WebhookInit, Init, NoPayment, NoSession
<1>4. \A g \in Grants : grant[g].status = "absent"
  BY DEF WebhookInit, Init, NoGrant
<1>5. \A u \in Users : Agrees(u)
  <2>1. \A u \in Users : ActiveGrants(u, grant) = {}
    BY <1>4 DEF ActiveGrants
  <2>2. \A u \in Users : row[u] = NewRow
    BY DEF WebhookInit, Init
  <2> QED BY <2>1, <2>2 DEF Agrees, NewRow, MaxPaidUntil, MinStartsAt
<1>6. PaymentsAreOwned /\ SettledHasGrant /\ SessionsAreOfPayments
  BY <1>3, <1>4 DEF PaymentsAreOwned, SettledHasGrant, SessionsAreOfPayments,
                    Settled, Grants, WebhookInit
<1>7. GrantIsPaidFor /\ PurchasesNeverOverlap
  BY <1>4 DEF GrantIsPaidFor, PurchasesNeverOverlap, Grants
<1>8. PaidEventsAreTrue /\ ProcessedMeansDone
  BY WebhookParameters DEF PaidEventsAreTrue, ProcessedMeansDone, WebhookInit,
                           Events
<1>9. RequestIsInOrder /\ OnlyRequestIsBehind
  BY <1>3, <1>5 DEF RequestIsInOrder, OnlyRequestIsBehind, WebhookInit, Idle
<1> QED BY <1>2, <1>6, <1>7, <1>8, <1>9 DEF WebhookIInv

\* A request at one of its steps serves an event that was sent, and is not idle.
LEMMA RequestServes ==
    ASSUME WebhookIInv, worker.at # "idle"
    PROVE  /\ worker.event \in emitted /\ worker.event \in Events
           /\ worker.at \in Steps /\ Subject \in Payments
           /\ worker # Idle
           /\ worker \in [event : emitted, at : Steps]
BY DEF WebhookIInv, WorkerServes, WebhookTypeOK, Idle, Steps, Events, Subject

\* What a request at work on a paid event knows: Stripe has the money, and the
\* payment row exists and has an owner.
LEMMA PaidSubjectIsOwned ==
    ASSUME WebhookIInv, worker.at # "idle", worker.event.kind = "paid"
    PROVE  /\ stripe[Subject].session = "paid"
           /\ payment[Subject].status # "absent"
           /\ payment[Subject].user \in Users
BY RequestServes DEF WebhookIInv, PaidEventsAreTrue, SessionsAreOfPayments,
                     PaymentsAreOwned, Subject

\* A snapshot stays up to date when its row stays and no grant of the user in
\* force comes, goes or changes.
LEMMA AgreementIsKept ==
    ASSUME TypeOK, grant' \in [Grants -> GrantRow], NEW v \in Users, Agrees(v),
           row'[v] = row[v],
           \A g \in Grants :
              \/ grant'[g] = grant[g]
              \/ /\ grant'[g].user # v \/ grant'[g].status # "active"
                 /\ grant[g].user # v \/ grant[g].status # "active"
    PROVE  Agrees(v)'
<1>1. ActiveGrants(v, grant') = ActiveGrants(v, grant)
  BY DEF ActiveGrants
<1>2. \A g \in ActiveGrants(v, grant) : grant'[g] = grant[g]
  BY DEF ActiveGrants
<1>3. /\ MaxPaidUntil(v, grant') = MaxPaidUntil(v, grant)
      /\ MinStartsAt(v, grant') = MinStartsAt(v, grant)
  BY <1>1, <1>2, SnapshotDependsOnOwnGrants DEF TypeOK
<1> QED BY <1>3 DEF Agrees

\* Recomputing u's row makes it agree, and keeps the others in agreement when
\* no grant of theirs was touched.
LEMMA RecomputeAgrees ==
    ASSUME TypeOK, grant' \in [Grants -> GrantRow], NEW u, NEW v \in Users,
           Recompute(u), v = u \/ Agrees(v),
           \A g \in Grants : \/ grant'[g] = grant[g]
                             \/ /\ grant'[g].user = u
                                /\ \/ grant[g].user = u
                                   \/ grant[g].status = "absent"
    PROVE  Agrees(v)'
<1>1. CASE v = u
  BY <1>1 DEF Agrees, Recompute, Recomputed, TypeOK
<1>2. CASE v # u
  <2>1. row'[v] = row[v]
    BY <1>2 DEF Recompute, TypeOK
  <2>2. \A g \in Grants :
           \/ grant'[g] = grant[g]
           \/ /\ grant'[g].user # v \/ grant'[g].status # "active"
              /\ grant[g].user # v \/ grant[g].status # "active"
    BY <1>2
  <2> QED BY <1>2, <2>1, <2>2, AgreementIsKept
<1> QED BY <1>1, <1>2

\* A recomputed table is well typed.
LEMMA RecomputeType ==
    ASSUME TypeOK, grant' \in [Grants -> GrantRow], NEW u, Recompute(u)
    PROVE  row' \in [Users -> SnapshotRow]
<1>1. Recomputed(u, payment', grant') \in SnapshotRow
  BY RecomputedType
<1> QED BY <1>1 DEF Recompute, TypeOK
-----------------------------------------------------------------------------
(* One lemma for each kind of step.                                        *)

\* Stripe may do what it likes to a session as long as a paid one stays paid,
\* only a checkout in progress gets a new one, and it says "paid" of paid ones.
LEMMA StripeStepKeeps ==
    ASSUME WebhookIInv, ServerUnchanged,
           stripe' \in [Payments -> Sessions],
           \A p \in Payments :
              /\ stripe[p].session = "paid" => stripe'[p].session = "paid"
              /\ stripe'[p].session # "none" =>
                    stripe[p].session # "none" \/ p \in creating,
           emitted \subseteq emitted', emitted' \subseteq Events,
           \A e \in emitted' \ emitted :
              e.kind = "paid" => stripe'[e.payment].session = "paid"
    PROVE  WebhookIInv'
<1> USE DEF WebhookIInv, ServerUnchanged
<1>1. WebhookTypeOK' /\ WorkerServes'
  BY DEF WebhookTypeOK, TypeOK, WorkerServes, Idle
<1>2. PaymentsAreOwned' /\ SettledHasGrant' /\ PurchasesNeverOverlap'
      /\ ProcessedMeansDone'
  BY DEF PaymentsAreOwned, SettledHasGrant, PurchasesNeverOverlap,
         ProcessedMeansDone
<1>3. SessionsAreOfPayments' /\ GrantIsPaidFor'
  BY DEF SessionsAreOfPayments, GrantIsPaidFor
<1>4. PaidEventsAreTrue'
  BY DEF PaidEventsAreTrue, Events
<1>5. RequestIsInOrder' /\ OnlyRequestIsBehind'
  BY DEF RequestIsInOrder, OnlyRequestIsBehind, Agrees, Subject
<1> QED BY <1>1, <1>2, <1>3, <1>4, <1>5

\* Every step of Stripe and its customer is of that sort.
LEMMA StripeStep == WebhookIInv /\ StripeNext => WebhookIInv'
<1> SUFFICES ASSUME WebhookIInv, StripeNext PROVE WebhookIInv'
  OBVIOUS
<1>t. /\ stripe \in [Payments -> Sessions] /\ now \in Time
      /\ emitted \subseteq Events /\ stripe \in [Payments -> Sessions]
  BY DEF WebhookIInv, WebhookTypeOK, TypeOK
<1> USE <1>t
<1>1. ASSUME NEW p \in Payments, CreateSession(p) PROVE WebhookIInv'
  <2>1. stripe' \in [Payments -> Sessions]
    BY <1>1 DEF CreateSession, Sessions
  <2>2. \A q \in Payments :
           /\ stripe[q].session = "paid" => stripe'[q].session = "paid"
           /\ stripe'[q].session # "none" =>
                 stripe[q].session # "none" \/ q \in creating
    BY <1>1 DEF CreateSession, Sessions
  <2> QED BY <1>1, <2>1, <2>2, StripeStepKeeps DEF CreateSession
<1>2. ASSUME NEW p \in Payments, NEW kind \in Kinds,
             NEW s \in Sessions, s.session # "none",
             stripe[p].session \in {"open", "pending"} \/
                (stripe[p].session = "paid" /\ s.session = "paid"),
             kind = "paid" => s.session = "paid",
             stripe' = [stripe EXCEPT ![p] = s], Emit(kind, p),
             ServerUnchanged
      PROVE  WebhookIInv'
  <2>1. stripe' \in [Payments -> Sessions]
    BY <1>2
  <2>2. \A q \in Payments :
           /\ stripe[q].session = "paid" => stripe'[q].session = "paid"
           /\ stripe'[q].session # "none" =>
                 stripe[q].session # "none" \/ q \in creating
    BY <1>2
  <2>3. emitted \subseteq emitted' /\ emitted' \subseteq Events
    BY <1>2 DEF Emit, Events
  <2>4. \A e \in emitted' \ emitted :
           e.kind = "paid" => stripe'[e.payment].session = "paid"
    BY <1>2 DEF Emit
  <2> QED BY <1>2, <2>1, <2>2, <2>3, <2>4, StripeStepKeeps
<1>3. ASSUME NEW p \in Payments, NEW outcome \in {"pending", "paid", "failed"},
             stripe[p].session \in {"open", "pending"},
             stripe' = [stripe EXCEPT ![p].session = outcome],
             Emit(outcome, p), ServerUnchanged
      PROVE  WebhookIInv'
  <2> DEFINE s == [stripe[p] EXCEPT !.session = outcome]
  <2>1. s \in Sessions /\ s.session = outcome
    BY <1>3 DEF Sessions
  <2>2. stripe' = [stripe EXCEPT ![p] = s]
    BY <1>3
  <2> HIDE DEF s
  <2> QED BY <1>2, <1>3, <2>1, <2>2 DEF Emit
<1>4. ASSUME NEW p \in Payments, ExpireSession(p) PROVE WebhookIInv'
  <2> DEFINE s == [stripe[p] EXCEPT !.session = "expired"]
  <2>1. s \in Sessions /\ s.session = "expired"
    BY DEF Sessions
  <2>2. stripe' = [stripe EXCEPT ![p] = s]
    BY <1>4 DEF ExpireSession
  <2> HIDE DEF s
  <2> QED BY <1>2, <1>4, <2>1, <2>2 DEF ExpireSession, Emit
<1>5. ASSUME NEW p \in Payments, NEW refund \in {"partial", "full"},
             RefundCharge(p, refund)
      PROVE  WebhookIInv'
  <2> DEFINE s == [stripe[p] EXCEPT !.refund = refund]
             kind == IF refund = "full" THEN "refunded" ELSE "partially_refunded"
  <2>1. s \in Sessions /\ s.session = stripe[p].session /\ kind # "paid"
    BY DEF Sessions
  <2>2. /\ stripe' = [stripe EXCEPT ![p] = s] /\ stripe[p].session = "paid"
        /\ Emit(kind, p) /\ ServerUnchanged
    BY <1>5 DEF RefundCharge
  <2> HIDE DEF s, kind
  <2> QED BY <1>2, <2>1, <2>2 DEF Emit
<1>6. ASSUME NEW p \in Payments, DisputeCharge(p) PROVE WebhookIInv'
  <2> DEFINE s == [stripe[p] EXCEPT !.disputed = TRUE]
  <2>1. s \in Sessions /\ s.session = stripe[p].session
    BY DEF Sessions
  <2>2. stripe' = [stripe EXCEPT ![p] = s]
    BY <1>6 DEF DisputeCharge
  <2> HIDE DEF s
  <2> QED BY <1>2, <1>6, <2>1, <2>2 DEF DisputeCharge, Emit
<1>7. ASSUME NEW p \in Payments, NEW outcome \in {"pending", "paid", "failed"},
             CompleteSession(p, outcome) \/ SettleSession(p, outcome)
      PROVE  WebhookIInv'
  BY <1>3, <1>7 DEF CompleteSession, SettleSession
<1> QED BY <1>1, <1>4, <1>5, <1>6, <1>7 DEF StripeNext

\* What depends on the tables and on Stripe alone stays when they stay.
LEMMA TablesKept ==
    ASSUME WebhookIInv, UNCHANGED tableVars, UNCHANGED stripe
    PROVE  /\ PaymentsAreOwned' /\ SettledHasGrant' /\ GrantIsPaidFor'
           /\ PurchasesNeverOverlap'
BY DEF WebhookIInv, tableVars, PaymentsAreOwned, SettledHasGrant,
       GrantIsPaidFor, PurchasesNeverOverlap

\* A new checkout: a new row, an open one perhaps cancelled.
LEMMA BeginCheckoutKeeps ==
    ASSUME WebhookIInv, NEW u \in Users, NEW p \in Payments, BeginCheckout(u, p)
    PROVE  WebhookIInv'
<1>t. WebhookTypeOK /\ TypeOK
  BY DEF WebhookIInv, WebhookTypeOK
<1> DEFINE Opened ==
             /\ payment' \in [Payments -> PaymentRow]
             /\ payment'[p].status = "pending" /\ payment'[p].user = u
             /\ ~payment'[p].linked /\ payment[p].status = "absent"
             /\ \A q \in Payments :
                   q # p => \/ payment'[q] = payment[q]
                            \/ /\ payment[q].status = "pending"
                               /\ payment'[q].status = "cancelled"
                               /\ payment'[q].user = payment[q].user
                               /\ payment'[q].linked = payment[q].linked
<1>1. Opened
  <2>1. [NoPayment EXCEPT !.user = u, !.status = "pending"] \in PaymentRow
    BY DEF NoPayment, PaymentRow, PaymentStatus
  <2>2. OpenCheckouts(u) \subseteq {q \in Payments : payment[q].status = "pending"}
    BY <1>t DEF OpenCheckouts, WebhookTypeOK
  <2>3. CASE payment' = [payment EXCEPT
                           ![p] = [NoPayment EXCEPT !.user = u,
                                                    !.status = "pending"]]
    BY <2>1, <2>3, <1>t DEF BeginCheckout, TypeOK, NoPayment
  <2>4. ASSUME NEW q \in OpenCheckouts(u),
               payment' = [payment EXCEPT
                              ![q].status = "cancelled",
                              ![p] = [NoPayment EXCEPT !.user = u,
                                                       !.status = "pending"]]
        PROVE  Opened
    <3>1. q \in Payments /\ payment[q].status = "pending"
      BY <2>2
    <3>2. payment[p].status = "absent" /\ q # p
      BY <3>1 DEF BeginCheckout
    <3>3. [payment[q] EXCEPT !.status = "cancelled"] \in PaymentRow
      BY <3>1, <1>t DEF TypeOK, PaymentRow, PaymentStatus, Closed
    <3> QED BY <2>1, <2>4, <3>1, <3>2, <3>3, <1>t DEF TypeOK, NoPayment, PaymentRow
  <2> QED BY <2>3, <2>4 DEF BeginCheckout
<1>2. /\ UNCHANGED <<now, grant, row, stripe, emitted, acked, event, worker,
                     checkoutId, price, restarts>>
      /\ worker = Idle /\ creating' = creating \cup {p}
      /\ quote' \in [Payments -> Quotes \cup {None}]
  BY <1>t DEF BeginCheckout, WebhookTypeOK, TypeOK, Quotes
<1>3. WebhookTypeOK' /\ WorkerServes'
  BY <1>1, <1>2, <1>t DEF WebhookTypeOK, TypeOK, WorkerServes, Idle
<1> USE DEF WebhookIInv
<1>4. PaymentsAreOwned' /\ SessionsAreOfPayments'
  BY <1>1, <1>2 DEF PaymentsAreOwned, SessionsAreOfPayments
<1>5. SettledHasGrant'
  BY <1>1, <1>2 DEF SettledHasGrant, Settled
<1>6. GrantIsPaidFor' /\ PurchasesNeverOverlap' /\ PaidEventsAreTrue'
      /\ ProcessedMeansDone'
  BY <1>2 DEF GrantIsPaidFor, PurchasesNeverOverlap, PaidEventsAreTrue,
              ProcessedMeansDone
<1>7. RequestIsInOrder' /\ OnlyRequestIsBehind'
  BY <1>1, <1>2 DEF RequestIsInOrder, OnlyRequestIsBehind, Agrees, Idle
<1> QED BY <1>3, <1>4, <1>5, <1>6, <1>7

\* A checkout that got its session, or failed to.
LEMMA CheckoutEnds ==
    ASSUME WebhookIInv, NEW p \in Payments, EndCheckout(p) \/ FailCheckout(p)
    PROVE  WebhookIInv'
<1>1. /\ UNCHANGED <<now, payment, grant, row, stripe, emitted, acked, event,
                     worker, quote, price, restarts>>
      /\ worker = Idle /\ creating' = creating \ {p}
      /\ checkoutId' \subseteq checkoutId \cup {p}
  BY DEF EndCheckout, FailCheckout
<1> USE DEF WebhookIInv
<1>2. WebhookTypeOK' /\ WorkerServes'
  BY <1>1 DEF WebhookTypeOK, TypeOK, WorkerServes, Idle
<1>3. SessionsAreOfPayments' /\ PaidEventsAreTrue' /\ ProcessedMeansDone'
  BY <1>1 DEF SessionsAreOfPayments, PaidEventsAreTrue, ProcessedMeansDone
<1>4. RequestIsInOrder' /\ OnlyRequestIsBehind'
  BY <1>1 DEF RequestIsInOrder, OnlyRequestIsBehind, Agrees, Idle
<1> QED BY <1>1, <1>2, <1>3, <1>4, TablesKept DEF tableVars

\* Taking an event up, or answering it as a duplicate, writes no table.
LEMMA BeginEventKeeps ==
    ASSUME WebhookIInv, NEW e \in emitted, BeginEvent(e)
    PROVE  WebhookIInv'
<1> USE DEF WebhookIInv, BeginEvent, Elsewhere, tableVars
<1>1. WebhookTypeOK' /\ WorkerServes'
  BY DEF WebhookTypeOK, TypeOK, WorkerServes, Idle, Steps
<1>2. SessionsAreOfPayments' /\ PaidEventsAreTrue'
  BY DEF SessionsAreOfPayments, PaidEventsAreTrue
<1>3. ProcessedMeansDone'
  <2>1. event \in [Events -> {"none", "received", "processed", "failed"}]
    BY DEF WebhookTypeOK
  <2>2. \A f \in Events : event'[f] = "processed" => event[f] = "processed"
    BY <2>1
  <2>3. \A p \in Payments : [kind |-> "paid", payment |-> p] \in Events
    BY WebhookParameters DEF Events
  <2> QED BY <2>2, <2>3 DEF ProcessedMeansDone
<1>4. RequestIsInOrder' /\ OnlyRequestIsBehind'
  BY DEF RequestIsInOrder, OnlyRequestIsBehind, Agrees, Idle
<1> QED BY <1>1, <1>2, <1>3, <1>4, TablesKept

\* An unpaid session is passed over.
LEMMA IgnorePendingKeeps ==
    ASSUME WebhookIInv, IgnorePending PROVE WebhookIInv'
<1>1. /\ worker.at = "begun" /\ worker.event.kind = "pending"
      /\ worker' = [worker EXCEPT !.at = "finish"]
      /\ UNCHANGED tableVars /\ UNCHANGED <<event, acked>> /\ Elsewhere
  BY DEF IgnorePending, At, Goto
<1>2. worker' = [event |-> worker.event, at |-> "finish"]
      /\ worker.event \in emitted
  BY <1>1, RequestServes
<1> USE DEF WebhookIInv, Elsewhere, tableVars
<1>3. WebhookTypeOK' /\ WorkerServes'
  BY <1>1, <1>2 DEF WebhookTypeOK, TypeOK, WorkerServes, Steps
<1>4. SessionsAreOfPayments' /\ PaidEventsAreTrue' /\ ProcessedMeansDone'
  BY <1>1 DEF SessionsAreOfPayments, PaidEventsAreTrue, ProcessedMeansDone
<1>5. RequestIsInOrder' /\ OnlyRequestIsBehind'
  BY <1>1, <1>2 DEF RequestIsInOrder, OnlyRequestIsBehind, Agrees, Subject
<1> QED BY <1>1, <1>3, <1>4, <1>5, TablesKept

\* A request that ends makes the server idle; a paid event is on record as
\* processed only when its grant is there.
LEMMA RequestEnds ==
    ASSUME WebhookIInv, NEW status \in {"processed", "failed"},
           worker.at # "idle",
           worker.at \in {"begun", "finish"},
           status = "processed" /\ worker.event.kind = "paid"
              => grant[Subject].status # "absent",
           Finish(status), UNCHANGED tableVars, Elsewhere
    PROVE  WebhookIInv'
<1>1. worker.event \in emitted /\ worker.event \in Events /\ worker' = Idle
  BY RequestServes DEF Finish
<1>2. /\ event \in [Events -> {"none", "received", "processed", "failed"}]
      /\ event' = [event EXCEPT ![worker.event] = status]
  BY DEF Finish, WebhookIInv, WebhookTypeOK
<1> USE DEF WebhookIInv, Elsewhere, tableVars
<1>3. WebhookTypeOK' /\ WorkerServes'
  BY <1>1, <1>2 DEF WebhookTypeOK, TypeOK, WorkerServes, Finish
<1>4. SessionsAreOfPayments' /\ PaidEventsAreTrue'
  BY DEF SessionsAreOfPayments, PaidEventsAreTrue
<1>5. ProcessedMeansDone'
  <2> SUFFICES ASSUME NEW p \in Payments,
                      event'[[kind |-> "paid", payment |-> p]] = "processed"
               PROVE  grant[p].status # "absent"
    BY DEF ProcessedMeansDone
  <2> DEFINE e == [kind |-> "paid", payment |-> p]
  <2>1. e \in Events /\ e.kind = "paid" /\ e.payment = p
    BY WebhookParameters DEF Events
  <2>2. CASE event[e] = "processed"
    BY <2>2 DEF ProcessedMeansDone
  <2>3. CASE event[e] # "processed"
    <3> HIDE DEF e
    <3>1. e = worker.event /\ status = "processed"
      BY <1>2, <2>1, <2>3 DEF e
    <3> QED BY <2>1, <3>1 DEF Subject
  <2> QED BY <2>2, <2>3
<1>6. RequestIsInOrder' /\ OnlyRequestIsBehind'
  BY <1>1 DEF RequestIsInOrder, OnlyRequestIsBehind, Agrees, Idle
<1> QED BY <1>3, <1>4, <1>5, <1>6, TablesKept

\* The last step of a request records the event as processed.
LEMMA FinishEventKeeps ==
    ASSUME WebhookIInv, FinishEvent PROVE WebhookIInv'
BY RequestEnds DEF FinishEvent, WebhookIInv, RequestIsInOrder

\* A verified payment is refused, or its user's snapshot is brought up to date
\* before anything is stacked on it.
LEMMA CheckPaidKeeps ==
    ASSUME WebhookIInv, CheckPaid PROVE WebhookIInv'
<1>1. CASE Finish("failed") /\ UNCHANGED tableVars
  BY <1>1, RequestEnds DEF CheckPaid, At
<1>2. CASE /\ Goto("apply") /\ UNCHANGED <<payment, grant, event, acked>>
           /\ Recompute(payment[Subject].user)
  <2> DEFINE u == payment[Subject].user
  <2>1. worker.at = "begun" /\ worker.event.kind = "paid" /\ Elsewhere
    BY DEF CheckPaid, At
  <2>2. /\ worker' = [event |-> worker.event, at |-> "apply"]
        /\ worker.event \in emitted /\ u \in Users /\ Subject \in Payments
    BY <1>2, <2>1, RequestServes, PaidSubjectIsOwned DEF Goto
  <2>t. TypeOK /\ grant' \in [Grants -> GrantRow]
    BY <1>2 DEF WebhookIInv, WebhookTypeOK, TypeOK
  <2>3. row' \in [Users -> SnapshotRow]
    BY <1>2, <2>t, RecomputeType
  <2>4. \A v \in Users : v = u \/ Agrees(v) => Agrees(v)'
    BY <1>2, <2>t, RecomputeAgrees
  <2> HIDE DEF u
  <2> USE DEF WebhookIInv, Elsewhere
  <2>5. WebhookTypeOK' /\ WorkerServes'
    BY <1>2, <2>1, <2>2, <2>3 DEF WebhookTypeOK, TypeOK, WorkerServes, Steps
  <2>6. PaymentsAreOwned' /\ SettledHasGrant' /\ SessionsAreOfPayments'
    BY <1>2, <2>1 DEF PaymentsAreOwned, SettledHasGrant, SessionsAreOfPayments
  <2>7. GrantIsPaidFor' /\ PurchasesNeverOverlap' /\ PaidEventsAreTrue'
        /\ ProcessedMeansDone'
    BY <1>2, <2>1 DEF GrantIsPaidFor, PurchasesNeverOverlap, PaidEventsAreTrue,
                      ProcessedMeansDone
  <2>8. RequestIsInOrder'
    <3>1. /\ row'[u].paidUntil = MaxPaidUntil(u, grant')
          /\ row'[u].startsAt = MinStartsAt(u, grant')
      BY <2>2, <2>4 DEF Agrees
    <3>2. payment'[worker'.event.payment].user = u
      BY <1>2, <2>2 DEF Subject, u
    <3> QED BY <2>1, <2>2, <3>1, <3>2 DEF RequestIsInOrder, Agrees, Subject
  <2>9. OnlyRequestIsBehind'
    <3>1. ASSUME restarts = 0 PROVE \A v \in Users : Agrees(v)
      BY <2>1, <3>1 DEF OnlyRequestIsBehind
    <3> QED BY <1>2, <2>1, <2>2, <2>4, <3>1 DEF OnlyRequestIsBehind
  <2> QED BY <2>5, <2>6, <2>7, <2>8, <2>9
<1> QED BY <1>1, <1>2 DEF CheckPaid

\* The grant of a purchase is stacked on a fresh snapshot: it overlaps nothing,
\* and Stripe has the money.
LEMMA ApplyPaidKeeps ==
    ASSUME WebhookIInv, ApplyPaid PROVE WebhookIInv'
<1> DEFINE p == Subject
           u == payment[p].user
           from == StackFrom(row[u].paidUntil, stripe[p].created)
<1>1. /\ worker.at = "apply" /\ worker.event.kind = "paid" /\ Agrees(u)
      /\ p \in Payments /\ p \in Grants /\ u \in Users
      /\ payment[p].status # "absent" /\ stripe[p].session = "paid"
      /\ worker.event \in emitted
  BY RequestServes, PaidSubjectIsOwned
     DEF ApplyPaid, WebhookIInv, RequestIsInOrder, Grants
<1>2. /\ from + AccessTerm <= Horizon
      /\ \/ AlreadyApplied(p) /\ UNCHANGED <<payment, grant>>
         \/ ~AlreadyApplied(p) /\ WritePaid(p, from)
      /\ UNCHANGED <<row, event, acked>> /\ Elsewhere
      /\ worker' = [event |-> worker.event, at |-> "recompute"]
  BY RequestServes DEF ApplyPaid, Goto
<1>3. /\ from = StackFrom(MaxPaidUntil(u, grant), stripe[p].created)
      /\ from \in Time
      /\ \A h \in ActiveGrants(u, grant) : grant[h].endsAt <= from
  <2>1. stripe[p].created \in Time
    BY <1>1 DEF WebhookIInv, WebhookTypeOK, Sessions
  <2> QED BY <1>1, <2>1, StackFromCovers DEF WebhookIInv, WebhookTypeOK, Agrees
<1>4. /\ (Subject)' = Subject
      /\ payment' \in [Payments -> PaymentRow]
      /\ grant' \in [Grants -> GrantRow]
  <2> HIDE DEF from
  <2>1. from + AccessTerm \in Time
    BY <1>2, <1>3, ParametersAreTicks DEF Time
  <2>2. NewGrant(u, from, AccessTerm) \in GrantRow
    BY <1>1, <1>3, <2>1 DEF NewGrant, GrantRow
  <2>3. [payment[p] EXCEPT !.status = "paid", !.linked = TRUE] \in PaymentRow
    BY <1>1 DEF WebhookIInv, WebhookTypeOK, TypeOK, PaymentRow, PaymentStatus,
                Settled
  <2>4. payment \in [Payments -> PaymentRow] /\ grant \in [Grants -> GrantRow]
    BY DEF WebhookIInv, WebhookTypeOK, TypeOK
  <2>5. (Subject)' = Subject
    BY <1>2 DEF Subject
  <2> HIDE DEF p, u
  <2>6. CASE UNCHANGED <<payment, grant>>
    BY <2>4, <2>5, <2>6
  <2>7. CASE WritePaid(p, from)
    <3>1. payment' \in [Payments -> PaymentRow]
      BY <1>1, <2>3, <2>4, <2>7 DEF WritePaid
    <3>2. grant' \in [Grants -> GrantRow]
      BY <1>1, <2>2, <2>4, <2>7 DEF WritePaid, u
    <3> QED BY <2>5, <3>1, <3>2
  <2> QED BY <1>2, <2>6, <2>7
<1>5. \/ grant[p].status # "absent" /\ UNCHANGED <<payment, grant>>
      \/ /\ grant[p].status = "absent" /\ grant'[p].status = "active"
         /\ grant'[p].user = u /\ grant'[p].startsAt = from
         /\ grant'[p].endsAt \in Time
         /\ payment'[p].status = "paid" /\ payment'[p].linked
         /\ payment'[p].user = u
         /\ \A q \in Payments : q # p => payment'[q] = payment[q]
         /\ \A g \in Grants : g # p => grant'[g] = grant[g]
  <2>1. CASE AlreadyApplied(p) /\ UNCHANGED <<payment, grant>>
    BY <1>1, <2>1 DEF AlreadyApplied, WebhookIInv, SettledHasGrant, Settled
  <2>2. CASE ~AlreadyApplied(p) /\ WritePaid(p, from)
    <3> HIDE DEF from
    <3>1. grant'[p] \in GrantRow
      BY <1>1, <1>4
    <3> QED BY <1>1, <2>2, <3>1 DEF AlreadyApplied, WritePaid, NewGrant,
               WebhookIInv, WebhookTypeOK, TypeOK, GrantRow, PaymentRow
  <2> QED BY <1>2, <2>1, <2>2
<1> HIDE DEF from, u, p
<1> USE DEF WebhookIInv, Elsewhere
<1>6. WebhookTypeOK' /\ WorkerServes'
  BY <1>1, <1>2, <1>4 DEF WebhookTypeOK, TypeOK, WorkerServes, Steps
<1>7. PaymentsAreOwned' /\ SessionsAreOfPayments' /\ PaidEventsAreTrue'
  BY <1>1, <1>2, <1>5 DEF PaymentsAreOwned, SessionsAreOfPayments,
                          PaidEventsAreTrue
<1>8. SettledHasGrant'
  BY <1>5 DEF SettledHasGrant, Settled, Grants
<1>9. GrantIsPaidFor' /\ ProcessedMeansDone'
  BY <1>1, <1>2, <1>5 DEF GrantIsPaidFor, ProcessedMeansDone, Grants
<1>10. PurchasesNeverOverlap'
  <2>1. CASE UNCHANGED grant
    BY <2>1 DEF PurchasesNeverOverlap
  <2>2. CASE /\ grant'[p].status = "active"
             /\ grant'[p].user = u /\ grant'[p].startsAt = from
             /\ \A g \in Grants : g # p => grant'[g] = grant[g]
    BY <1>1, <1>3, <2>2 DEF PurchasesNeverOverlap, ActiveGrants, Grants
  <2> QED BY <1>5, <2>1, <2>2
<1>11. RequestIsInOrder'
  BY <1>1, <1>2, <1>4, <1>5 DEF RequestIsInOrder, p
<1>12. OnlyRequestIsBehind'
  <2> SUFFICES ASSUME restarts = 0
               PROVE  /\ \A v \in Users : \/ Agrees(v)'
                                          \/ payment'[Subject].user = v
                      /\ \A q \in Payments :
                            payment'[q].status = "refunded" =>
                               grant'[q].status = "revoked"
    BY <1>2, <1>4 DEF OnlyRequestIsBehind
  <2>1. /\ \A v \in Users : Agrees(v)
        /\ \A q \in Payments :
              payment[q].status = "refunded" => grant[q].status = "revoked"
    BY <1>1 DEF OnlyRequestIsBehind
  <2>2. payment'[p].user = u
    BY <1>5 DEF u
  <2>3. \A v \in Users : v # u => Agrees(v)'
    <3>1. \A g \in Grants :
             \/ grant'[g] = grant[g]
             \/ grant'[g].user = u /\ grant[g].status = "absent"
      BY <1>5
    <3>2. TypeOK /\ UNCHANGED row
      BY <1>2 DEF WebhookTypeOK
    <3> QED BY <1>4, <2>1, <3>1, <3>2, AgreementIsKept
  <2>4. \A q \in Payments :
           payment'[q].status = "refunded" => grant'[q].status = "revoked"
    BY <1>5, <2>1 DEF Grants
  <2> QED BY <2>2, <2>3, <2>4 DEF p
<1> QED BY <1>6, <1>7, <1>8, <1>9, <1>10, <1>11, <1>12

\* An expired or failed session closes a pending row and nothing else.
LEMMA CloseCheckoutKeeps ==
    ASSUME WebhookIInv, CloseCheckout PROVE WebhookIInv'
<1> DEFINE p == Subject
<1>1. /\ worker.at = "begun" /\ worker.event.kind \in {"expired", "failed"}
      /\ worker' = [event |-> worker.event, at |-> "finish"]
      /\ worker.event \in emitted /\ p \in Payments
      /\ UNCHANGED <<now, grant, row, event, acked>> /\ Elsewhere
      /\ \/ ClosePending(p, worker.event.kind)
         \/ UNCHANGED tableVars
  BY RequestServes DEF CloseCheckout, At, Goto, Elsewhere, ClosePending, tableVars
<1>t. /\ payment \in [Payments -> PaymentRow]
      /\ SettledHasGrant
  BY DEF WebhookIInv, WebhookTypeOK, TypeOK
<1>2. /\ payment' \in [Payments -> PaymentRow]
      /\ \A q \in Payments :
            \/ payment'[q] = payment[q]
            \/ /\ payment[q].status = "pending"
               /\ payment'[q].status \in {"expired", "failed"}
               /\ payment'[q].user = payment[q].user
               /\ payment'[q].linked = payment[q].linked
  <2> HIDE DEF p
  <2>1. CASE UNCHANGED tableVars
    BY <1>t, <2>1 DEF tableVars
  <2>2. CASE ClosePending(p, worker.event.kind)
    <3>1. [payment[p] EXCEPT !.status = worker.event.kind] \in PaymentRow
      BY <1>1, <1>t DEF PaymentRow, PaymentStatus, Closed
    <3>2. payment[p] \in PaymentRow
      BY <1>1, <1>t
    <3> QED BY <1>1, <1>t, <2>2, <3>1, <3>2 DEF ClosePending, PaymentRow
  <2> QED BY <1>1, <2>1, <2>2
<1> HIDE DEF p
<1> USE DEF WebhookIInv, Elsewhere
<1>3. WebhookTypeOK' /\ WorkerServes'
  BY <1>1, <1>2 DEF WebhookTypeOK, TypeOK, WorkerServes, Steps
<1>4. PaymentsAreOwned' /\ SessionsAreOfPayments' /\ PaidEventsAreTrue'
  BY <1>1, <1>2 DEF PaymentsAreOwned, SessionsAreOfPayments, PaidEventsAreTrue
<1>5. SettledHasGrant'
  BY <1>1, <1>2 DEF SettledHasGrant, Settled
<1>6. GrantIsPaidFor' /\ PurchasesNeverOverlap' /\ ProcessedMeansDone'
  BY <1>1 DEF GrantIsPaidFor, PurchasesNeverOverlap, ProcessedMeansDone
<1>7. RequestIsInOrder' /\ OnlyRequestIsBehind'
  BY <1>1, <1>2 DEF RequestIsInOrder, OnlyRequestIsBehind, Agrees
<1> QED BY <1>3, <1>4, <1>5, <1>6, <1>7

\* A refund or dispute marks the payment; a full refund leaves the grant to the
\* next step.
LEMMA MarkChargeKeeps ==
    ASSUME WebhookIInv, MarkCharge PROVE WebhookIInv'
<1> DEFINE p == Subject
           kind == worker.event.kind
<1>1. /\ worker.at = "begun"
      /\ kind \in {"refunded", "partially_refunded", "disputed"}
      /\ worker.event \in emitted /\ p \in Payments
      /\ UNCHANGED <<grant, row, event, acked>> /\ Elsewhere
  BY RequestServes DEF MarkCharge, At
<1>t. payment \in [Payments -> PaymentRow] /\ payment[p] \in PaymentRow
  BY <1>1 DEF WebhookIInv, WebhookTypeOK, TypeOK
<1>2. /\ payment' \in [Payments -> PaymentRow]
      /\ worker' \in [event : {worker.event},
                      at : {"revoke", "recompute", "finish"}]
      /\ worker'.at = "revoke" => kind = "refunded"
      /\ \/ payment' = payment
         \/ /\ payment[p].linked /\ payment'[p].linked
            /\ payment'[p].status = kind
            /\ payment'[p].user = payment[p].user
            /\ kind = "refunded" => worker'.at = "revoke"
            /\ \A q \in Payments : q # p => payment'[q] = payment[q]
  <2> DEFINE new == [payment[p] EXCEPT !.status = kind,
                                       !.review = @ \/ kind # "refunded"]
  <2>1. CASE UNCHANGED payment /\ Goto("finish")
    BY <1>1, <1>t, <2>1, RequestServes DEF Goto
  <2>2. CASE /\ payment[p].linked
             /\ payment' = [payment EXCEPT
                              ![p].status = kind,
                              ![p].review = @ \/ kind # "refunded"]
             /\ Goto(CASE kind = "refunded"           -> "revoke"
                       [] kind = "disputed"           -> "recompute"
                       [] kind = "partially_refunded" -> "finish")
    <3>1. worker' \in [event : {worker.event},
                       at : {"revoke", "recompute", "finish"}]
          /\ (kind = "refunded" <=> worker'.at = "revoke")
      BY <1>1, <2>2, RequestServes DEF Goto
    <3>2. (payment[p].review \/ kind # "refunded") \in BOOLEAN
      OBVIOUS
    <3> HIDE DEF p, kind
    <3>3. new \in PaymentRow /\ new.status = kind /\ new.user = payment[p].user
          /\ new.linked = payment[p].linked
      BY <1>1, <1>t, <3>2 DEF PaymentRow, PaymentStatus, Settled
    <3>4. payment' = [payment EXCEPT ![p] = new]
      BY <1>1, <1>t, <2>2
    <3> HIDE DEF new
    <3> QED BY <1>1, <1>t, <2>2, <3>1, <3>3, <3>4
  <2> QED BY <2>1, <2>2 DEF MarkCharge
<1>3. (Subject)' = Subject
  BY <1>2 DEF Subject
<1> HIDE DEF p, kind
<1> USE DEF WebhookIInv, Elsewhere
<1>4. WebhookTypeOK' /\ WorkerServes'
  BY <1>1, <1>2 DEF WebhookTypeOK, TypeOK, WorkerServes, Steps
<1>5. SettledHasGrant'
  BY <1>1, <1>2 DEF SettledHasGrant, Settled
<1>6. PaymentsAreOwned' /\ SessionsAreOfPayments' /\ PaidEventsAreTrue'
  BY <1>1, <1>2 DEF PaymentsAreOwned, SessionsAreOfPayments, PaidEventsAreTrue,
                    SettledHasGrant, Settled
<1>7. GrantIsPaidFor' /\ PurchasesNeverOverlap' /\ ProcessedMeansDone'
  BY <1>1 DEF GrantIsPaidFor, PurchasesNeverOverlap, ProcessedMeansDone
<1>8. RequestIsInOrder'
  BY <1>1, <1>2 DEF RequestIsInOrder, kind
<1>9. OnlyRequestIsBehind'
  <2> SUFFICES ASSUME restarts = 0
               PROVE  /\ \A v \in Users : Agrees(v)'
                      /\ \A q \in Payments :
                            payment'[q].status = "refunded" =>
                               \/ grant'[q].status = "revoked"
                               \/ worker'.at = "revoke" /\ Subject = q
    BY <1>1, <1>3 DEF OnlyRequestIsBehind
  <2>1. /\ \A v \in Users : Agrees(v)
        /\ \A q \in Payments :
              payment[q].status = "refunded" => grant[q].status = "revoked"
    BY <1>1 DEF OnlyRequestIsBehind
  <2>2. \A v \in Users : Agrees(v)'
    BY <1>1, <2>1 DEF Agrees
  <2>3. \A q \in Payments :
           payment'[q].status = "refunded" =>
              \/ grant'[q].status = "revoked"
              \/ worker'.at = "revoke" /\ Subject = q
    BY <1>1, <1>2, <2>1 DEF p
  <2> QED BY <2>2, <2>3
<1> QED BY <1>4, <1>5, <1>6, <1>7, <1>8, <1>9

\* Revoking the grant of a refunded payment.
LEMMA RevokeRefundedKeeps ==
    ASSUME WebhookIInv, RevokeRefunded PROVE WebhookIInv'
<1> DEFINE p == Subject
<1>1. /\ worker.at = "revoke" /\ worker.event.kind = "refunded"
      /\ worker' = [event |-> worker.event, at |-> "recompute"]
      /\ worker.event \in emitted /\ p \in Payments /\ p \in Grants
      /\ UNCHANGED <<payment, row, event, acked>> /\ Elsewhere
  BY RequestServes DEF RevokeRefunded, Goto, Grants, WebhookIInv,
                       RequestIsInOrder
<1>t. grant \in [Grants -> GrantRow] /\ TypeOK
  BY DEF WebhookIInv, WebhookTypeOK, TypeOK
<1>2. /\ grant' \in [Grants -> GrantRow]
      /\ \A g \in Grants :
            \/ grant'[g] = grant[g] /\ (g = p => grant[g].status # "active")
            \/ /\ g = p /\ grant[p].status = "active"
               /\ grant'[p].status = "revoked"
               /\ grant'[p].user = grant[p].user
  BY <1>1, <1>t DEF RevokeRefunded, RevokeGrant, GrantRow
<1>3. (Subject)' = Subject
  BY <1>1 DEF Subject
<1> HIDE DEF p
<1> USE DEF WebhookIInv, Elsewhere
<1>4. WebhookTypeOK' /\ WorkerServes'
  BY <1>1, <1>2 DEF WebhookTypeOK, TypeOK, WorkerServes, Steps
<1>5. SettledHasGrant'
  BY <1>1, <1>2 DEF SettledHasGrant, Settled, Grants
<1>6. PaymentsAreOwned' /\ SessionsAreOfPayments' /\ PaidEventsAreTrue'
  BY <1>1 DEF PaymentsAreOwned, SessionsAreOfPayments, PaidEventsAreTrue
<1>7. GrantIsPaidFor' /\ ProcessedMeansDone'
  BY <1>1, <1>2 DEF GrantIsPaidFor, ProcessedMeansDone, Grants
<1>8. PurchasesNeverOverlap'
  BY <1>2 DEF PurchasesNeverOverlap, Grants
<1>9. RequestIsInOrder'
  BY <1>1 DEF RequestIsInOrder
<1>10. OnlyRequestIsBehind'
  <2> SUFFICES ASSUME restarts = 0
               PROVE  /\ \A v \in Users : \/ Agrees(v)'
                                          \/ payment'[p].user = v
                      /\ \A q \in Payments :
                            payment'[q].status = "refunded" =>
                               grant'[q].status = "revoked"
    BY <1>1, <1>3 DEF OnlyRequestIsBehind, p
  <2>1. /\ \A v \in Users : Agrees(v)
        /\ \A q \in Payments :
              payment[q].status = "refunded" =>
                 grant[q].status = "revoked" \/ q = p
    BY <1>1 DEF OnlyRequestIsBehind, p
  <2>2. ASSUME NEW v \in Users, v # payment[p].user PROVE Agrees(v)'
    <3>1. \A g \in Grants :
             \/ grant'[g] = grant[g]
             \/ grant'[g].user # v /\ grant[g].user # v
      BY <1>1, <1>2, <2>2 DEF SettledHasGrant
    <3>2. row'[v] = row[v] /\ Agrees(v)
      BY <1>1, <2>1
    <3> QED BY <1>2, <1>t, <3>1, <3>2, AgreementIsKept
  <2>3. \A q \in Payments :
           payment'[q].status = "refunded" => grant'[q].status = "revoked"
    BY <1>1, <1>2, <1>t, <2>1 DEF SettledHasGrant, Settled, Grants, GrantRow
  <2> QED BY <1>1, <2>2, <2>3
<1> QED BY <1>4, <1>5, <1>6, <1>7, <1>8, <1>9, <1>10

\* The request's last write brings the snapshot up to date.
LEMMA RecomputeSubjectKeeps ==
    ASSUME WebhookIInv, RecomputeSubject PROVE WebhookIInv'
<1> DEFINE u == payment[Subject].user
<1>1. /\ worker.at = "recompute"
      /\ worker' = [event |-> worker.event, at |-> "finish"]
      /\ worker.event \in emitted /\ Recompute(u)
      /\ UNCHANGED <<payment, grant, event, acked>> /\ Elsewhere
  BY RequestServes DEF RecomputeSubject, Goto
<1>t. TypeOK /\ grant' \in [Grants -> GrantRow]
  BY <1>1 DEF WebhookIInv, WebhookTypeOK, TypeOK
<1> HIDE DEF u
<1>2. row' \in [Users -> SnapshotRow]
  BY <1>1, <1>t, RecomputeType
<1>3. \A v \in Users : v = u \/ Agrees(v) => Agrees(v)'
  BY <1>1, <1>t, RecomputeAgrees
<1> USE DEF WebhookIInv, Elsewhere
<1>4. WebhookTypeOK' /\ WorkerServes'
  BY <1>1, <1>2 DEF WebhookTypeOK, TypeOK, WorkerServes, Steps
<1>5. PaymentsAreOwned' /\ SettledHasGrant' /\ SessionsAreOfPayments'
      /\ PaidEventsAreTrue'
  BY <1>1 DEF PaymentsAreOwned, SettledHasGrant, SessionsAreOfPayments,
              PaidEventsAreTrue
<1>6. GrantIsPaidFor' /\ PurchasesNeverOverlap' /\ ProcessedMeansDone'
  BY <1>1 DEF GrantIsPaidFor, PurchasesNeverOverlap, ProcessedMeansDone
<1>7. RequestIsInOrder'
  BY <1>1 DEF RequestIsInOrder, Subject
<1>8. OnlyRequestIsBehind'
  BY <1>1, <1>3 DEF OnlyRequestIsBehind, u
<1> QED BY <1>4, <1>5, <1>6, <1>7, <1>8

\* The administrator gives or takes back access, between two requests.
LEMMA AdministerKeeps ==
    ASSUME WebhookIInv, Administer PROVE WebhookIInv'
<1>t. TypeOK /\ worker = Idle /\ EnvironmentUnchanged
  BY DEF Administer, WebhookIInv, WebhookTypeOK
<1>1. ASSUME NEW u, UNCHANGED <<now, payment>>, Recompute(u), NEW g \in Grants,
             grant' \in [Grants -> GrantRow],
             \A h \in Grants : h # g => grant'[h] = grant[h],
             \/ /\ g \notin Payments /\ grant'[g].user = u
                /\ grant[g].status = "absent"
             \/ /\ grant'[g].status = "revoked" /\ grant[g].status = "active"
                /\ grant'[g].user = u /\ grant[g].user = u
      PROVE  WebhookIInv'
  <2>1. row' \in [Users -> SnapshotRow]
    BY <1>t, <1>1, RecomputeType
  <2>2. \A v \in Users : Agrees(v) => Agrees(v)'
    BY <1>t, <1>1, RecomputeAgrees
  <2>3. \A p \in Payments :
           \/ grant'[p] = grant[p]
           \/ /\ grant[p].status = "active" /\ grant'[p].status = "revoked"
              /\ grant'[p].user = grant[p].user
    BY <1>1 DEF Grants
  <2> USE DEF WebhookIInv, EnvironmentUnchanged
  <2>4. WebhookTypeOK' /\ WorkerServes'
    BY <1>t, <1>1, <2>1 DEF WebhookTypeOK, TypeOK, WorkerServes, Idle
  <2>5. PaymentsAreOwned' /\ SessionsAreOfPayments' /\ PaidEventsAreTrue'
    BY <1>t, <1>1 DEF PaymentsAreOwned, SessionsAreOfPayments, PaidEventsAreTrue
  <2>6. SettledHasGrant' /\ GrantIsPaidFor'
    BY <1>t, <1>1, <2>3 DEF SettledHasGrant, GrantIsPaidFor, Settled
  <2>7. PurchasesNeverOverlap'
    BY <2>3 DEF PurchasesNeverOverlap
  <2>8. ProcessedMeansDone'
    BY <1>t, <2>3 DEF ProcessedMeansDone
  <2>9. RequestIsInOrder'
    BY <1>t DEF RequestIsInOrder, Idle
  <2>10. OnlyRequestIsBehind'
    BY <1>t, <1>1, <2>2, <2>3 DEF OnlyRequestIsBehind, Idle
  <2> QED BY <2>4, <2>5, <2>6, <2>7, <2>8, <2>9, <2>10
<1>2. ASSUME NEW u \in Users, NEW g \in ManualGrants, NEW term \in ManualTerms,
             GrantManualAccess(u, g, term)
      PROVE  WebhookIInv'
  <2> DEFINE from == StackFrom(row[u].paidUntil, now)
  <2>1. g \in Grants /\ g \notin Payments
    BY IdentitiesAreDistinct DEF Grants
  <2>2. NewGrant(u, from, term) \in GrantRow
    <3>1. row[u].paidUntil \in Time \cup {None} /\ now \in Time
      BY <1>t DEF TypeOK, SnapshotRow
    <3> QED BY <1>2, <3>1, NewGrantType, ParametersAreTicks DEF GrantManualAccess
  <2>3. /\ grant' = [grant EXCEPT ![g] = NewGrant(u, from, term)]
        /\ grant[g].status = "absent" /\ Recompute(u)
        /\ UNCHANGED <<now, payment>>
    BY <1>2 DEF GrantManualAccess
  <2>4. NewGrant(u, from, term).user = u
    BY DEF NewGrant
  <2> HIDE DEF from
  <2>5. /\ grant' \in [Grants -> GrantRow] /\ grant'[g].user = u
        /\ \A h \in Grants : h # g => grant'[h] = grant[h]
    BY <1>t, <2>1, <2>2, <2>3, <2>4 DEF TypeOK
  <2> QED BY <1>1, <2>1, <2>3, <2>5
<1>3. ASSUME NEW g \in Grants, grant[g].status = "active", RevokeAccess(g)
      PROVE  WebhookIInv'
  <2>1. /\ grant' \in [Grants -> GrantRow] /\ grant'[g].status = "revoked"
        /\ grant'[g].user = grant[g].user
        /\ \A h \in Grants : h # g => grant'[h] = grant[h]
    BY <1>t, <1>3 DEF RevokeAccess, TypeOK, GrantRow
  <2> QED BY <1>1, <1>3, <2>1 DEF RevokeAccess
<1> QED BY <1>2, <1>3 DEF Administer

\* The daily job and the user's own refresh.
LEMMA CronRecomputeKeeps ==
    ASSUME WebhookIInv, NEW u \in Users, CronRecompute(u) PROVE WebhookIInv'
<1>1. /\ worker = Idle /\ EnvironmentUnchanged /\ Recompute(u)
      /\ UNCHANGED <<now, payment, grant>>
  BY DEF CronRecompute, RefreshEntitlement
<1>t. TypeOK /\ grant' \in [Grants -> GrantRow]
  BY <1>1 DEF WebhookIInv, WebhookTypeOK, TypeOK
<1>2. row' \in [Users -> SnapshotRow]
  BY <1>1, <1>t, RecomputeType
<1>3. \A v \in Users : Agrees(v) => Agrees(v)'
  BY <1>1, <1>t, RecomputeAgrees
<1> USE DEF WebhookIInv, EnvironmentUnchanged
<1>4. WebhookTypeOK' /\ WorkerServes'
  BY <1>1, <1>2 DEF WebhookTypeOK, TypeOK, WorkerServes, Idle
<1>5. PaymentsAreOwned' /\ SettledHasGrant' /\ SessionsAreOfPayments'
      /\ PaidEventsAreTrue'
  BY <1>1 DEF PaymentsAreOwned, SettledHasGrant, SessionsAreOfPayments,
              PaidEventsAreTrue
<1>6. GrantIsPaidFor' /\ PurchasesNeverOverlap' /\ ProcessedMeansDone'
  BY <1>1 DEF GrantIsPaidFor, PurchasesNeverOverlap, ProcessedMeansDone
<1>7. RequestIsInOrder' /\ OnlyRequestIsBehind'
  BY <1>1, <1>3 DEF RequestIsInOrder, OnlyRequestIsBehind, Idle
<1> QED BY <1>4, <1>5, <1>6, <1>7

\* A process that stops, in the middle of a request or not.
LEMMA RestartKeeps ==
    ASSUME WebhookIInv, NEW newPrice \in Prices, Restart(newPrice)
    PROVE  WebhookIInv'
<1> USE DEF WebhookIInv, Restart
<1>1. WebhookTypeOK' /\ WorkerServes'
  BY WebhookParameters DEF WebhookTypeOK, TypeOK, WorkerServes
<1>2. SessionsAreOfPayments' /\ PaidEventsAreTrue' /\ ProcessedMeansDone'
  BY DEF SessionsAreOfPayments, PaidEventsAreTrue, ProcessedMeansDone
<1>3. RequestIsInOrder'
  BY DEF RequestIsInOrder, Idle
<1>4. OnlyRequestIsBehind'
  <2>1. restarts' # 0
    BY DEF WebhookTypeOK
  <2> QED BY <2>1 DEF OnlyRequestIsBehind
<1> QED BY <1>1, <1>2, <1>3, <1>4, TablesKept DEF tableVars

\* The clock and stuttering steps.
LEMMA ClockKeeps ==
    ASSUME WebhookIInv, Clock \/ UNCHANGED allVars PROVE WebhookIInv'
<1>1. /\ EnvironmentUnchanged /\ UNCHANGED <<payment, grant, row>>
      /\ now' = now \/ (now < LastTick /\ now' = now + 1)
  BY DEF Clock, Tick, allVars, EnvironmentUnchanged
<1> USE DEF WebhookIInv, EnvironmentUnchanged
<1>2. now' \in Time
  BY <1>1, WebhookParameters, ParametersAreTicks DEF WebhookTypeOK, TypeOK, Time
<1>3. WebhookTypeOK' /\ WorkerServes'
  BY <1>1, <1>2 DEF WebhookTypeOK, TypeOK, WorkerServes
<1>4. SessionsAreOfPayments' /\ PaidEventsAreTrue' /\ ProcessedMeansDone'
  BY <1>1 DEF SessionsAreOfPayments, PaidEventsAreTrue, ProcessedMeansDone
<1>5. RequestIsInOrder' /\ OnlyRequestIsBehind'
  BY <1>1 DEF RequestIsInOrder, OnlyRequestIsBehind, Agrees, Subject
<1> QED BY <1>1, <1>3, <1>4, <1>5, TablesKept DEF tableVars
-----------------------------------------------------------------------------
(* The theorems.                                                           *)

\* Every step of Stripe, of the handlers, of the administrator, of the clock
\* and every stop of the process keeps the invariant.
LEMMA NextWebhookIInv == WebhookIInv /\ [WebhookNext]_allVars => WebhookIInv'
<1> SUFFICES ASSUME WebhookIInv, [WebhookNext]_allVars PROVE WebhookIInv'
  OBVIOUS
<1>1. CASE StripeNext
  BY <1>1, StripeStep
<1>2. CASE CheckoutNext
  BY <1>2, BeginCheckoutKeeps, CheckoutEnds DEF CheckoutNext
<1>3. CASE \E e \in emitted : BeginEvent(e)
  BY <1>3, BeginEventKeeps
<1>4. CASE HandleEvent
  BY <1>4, IgnorePendingKeeps, CheckPaidKeeps, ApplyPaidKeeps,
     CloseCheckoutKeeps, MarkChargeKeeps, RevokeRefundedKeeps,
     RecomputeSubjectKeeps, FinishEventKeeps DEF HandleEvent
<1>5. CASE Administer
  BY <1>5, AdministerKeeps
<1>6. CASE \E u \in Users : CronRecompute(u)
  BY <1>6, CronRecomputeKeeps
<1>7. CASE \E newPrice \in Prices : Restart(newPrice)
  BY <1>7, RestartKeeps
<1>8. CASE Clock \/ UNCHANGED allVars
  BY <1>8, ClockKeeps
<1> QED
  BY <1>1, <1>2, <1>3, <1>4, <1>5, <1>6, <1>7, <1>8 DEF WebhookNext

\* The inductive invariant holds in every reachable state.
THEOREM WebhookInvariantHolds == WebhookSpec => []WebhookIInv
BY InitWebhookIInv, NextWebhookIInv, PTL DEF WebhookSpec

\* Stripe's records, the events, the request at work and the tables hold values
\* of their types, wherever the process stops.
THEOREM WebhookTypeCorrect == WebhookSpec => []WebhookTypeOK
BY WebhookInvariantHolds, PTL DEF WebhookIInv

\* No order, repetition or loss of events and no stop of the process makes the
\* webhook write a grant for a payment Stripe does not have.
THEOREM GrantsArePaidFor == WebhookSpec => []GrantIsPaidFor
BY WebhookInvariantHolds, PTL DEF WebhookIInv

\* No two purchases of a user are stacked on the same time, even after a stop
\* between the writes of the grant and of the snapshot.
THEOREM PurchasesAreDisjoint == WebhookSpec => []PurchasesNeverOverlap
BY WebhookInvariantHolds, PTL DEF WebhookIInv

\* A paid event on record as processed has left its grant.
THEOREM ProcessedIsDone == WebhookSpec => []ProcessedMeansDone
BY WebhookInvariantHolds, PTL DEF WebhookIInv

\* Between two requests of a process that never stopped, the snapshot agrees
\* with the ledger and refunded payments buy nothing.
THEOREM QuietIsConsistent == WebhookSpec => []QuietMeansConsistent
<1>1. WebhookIInv => QuietMeansConsistent
  BY DEF WebhookIInv, OnlyRequestIsBehind, QuietMeansConsistent, SnapshotAgrees,
         RefundEndsGrant, Agrees, Idle
<1> QED BY <1>1, WebhookInvariantHolds, PTL
-----------------------------------------------------------------------------
(* WebSession: the tabs.                                                   *)

Writing == {"write", "logout", "delete"}
Anybody == Visitors \cup {NoVisitor}
Session == [user : Visitors, live : BOOLEAN]
CookieJar == [session : Nat, csrf : Nat]
Asking == [kind : {"none", "read", "login"} \cup Writing,
           stage : {"idle", "minting", "mint", "minted", "ready", "sent", "answered", "body"},
           user : Anybody, token : Nat, cookies : CookieJar,
           answer : {"none", "set", "401", "403", "done"}, who : Anybody, calm : BOOLEAN]
Page == [at : {"away", "cloud", "account", "profile"}, user : Anybody, amid : BOOLEAN]

WebIsTyped ==
    /\ sessions \in Seq(Session) /\ deleted \subseteq Visitors /\ minted \in Nat
    /\ jar \in CookieJar /\ jar.session <= Len(sessions) /\ jar.csrf <= minted
    /\ remembered \in Anybody /\ mixed \in BOOLEAN /\ hitches \in 0..MaxHitches
    /\ view \in [WebTabs -> Page] /\ ask \in [WebTabs -> Asking]
    /\ \A t \in WebTabs : /\ ask[t].cookies.session <= Len(sessions)
                          /\ ask[t].cookies.csrf <= minted /\ ask[t].token <= minted

Owner(s) == sessions[s].user

\* How far a request of each kind gets, and which page it is of.
AskIsOrderly(a, v) ==
    /\ a.kind = "none" <=> a.stage = "idle"
    /\ a.kind = "login" => /\ a.stage \in {"ready", "sent", "answered", "body"}
                           /\ v.at = "away" /\ a.user # NoVisitor
                           /\ a.answer = "done" => /\ a.cookies.session # 0
                                                   /\ Owner(a.cookies.session) = a.user
    /\ a.kind = "read" => a.stage \in {"ready", "sent", "answered"}
    /\ a.kind \notin {"none", "login"} => v.at # "away" /\ a.user # NoVisitor
    /\ a.stage = "body" => a.kind = "login" /\ a.answer = "done"
    /\ a.stage \in {"idle", "minting", "mint", "ready", "sent"} => a.answer = "none"
    /\ a.stage = "minted" => a.answer \in {"none", "set"}
    /\ a.answer = "403" => a.kind \in Writing

\* A write that nothing disturbed has the token of the cookies it goes with, or
\* there is nobody to have one for.
TokenFollows(a) ==
    a.kind \in Writing /\ a.calm =>
      /\ a.stage \in {"minting", "mint", "minted"} => jar.csrf = 0
      /\ a.stage \in {"mint", "minted"} => a.cookies = jar
      /\ a.stage = "minted" => \/ a.answer = "set" /\ a.token # 0
                               \/ /\ a.answer = "none" /\ a.token = 0
                                  /\ Holder(jar.session) = NoVisitor
      /\ a.stage = "ready" => /\ a.token = jar.csrf
                              /\ a.token = 0 => Holder(jar.session) = NoVisitor
      /\ a.stage = "sent" => /\ a.token = a.cookies.csrf
                             /\ a.token = 0 => Holder(a.cookies.session) = NoVisitor
      /\ a.answer = "403" => Holder(a.cookies.session) = NoVisitor

\* The user a page shows and asks for is whose session the browser has, or had
\* when the request was sent.
PageIsOfOwner(a, v) ==
    ~mixed /\ ~v.amid /\ v.at # "away" =>
      /\ jar.session # 0 /\ v.user # NoVisitor => Owner(jar.session) = v.user
      /\ a.stage \in {"minting", "mint", "minted", "ready"} /\ jar.session # 0
            => Owner(jar.session) = a.user
      /\ a.stage = "sent" /\ a.cookies.session # 0 => Owner(a.cookies.session) = a.user
      /\ a.stage = "answered" /\ a.answer = "done" => a.who \in {NoVisitor, a.user}

\* A sign-in whose cookies have come and whose body has not: the other pages are
\* told apart, and the cookies are its own.
BodyIsDue(t) ==
    ask[t].stage = "body" =>
      /\ \A u \in WebTabs \ {t} : view[u].at # "away" => view[u].amid
      /\ ask[t].calm => jar.session = ask[t].cookies.session
      /\ ~mixed => /\ jar.session # 0 => Owner(jar.session) = ask[t].user
                   /\ \A u \in WebTabs \ {t} : ask[u].stage # "body"

\* The user the browser remembers is whose session it has.
JarIsRemembered ==
    ~mixed /\ (\A t \in WebTabs : ask[t].stage # "body")
        /\ jar.session # 0 /\ remembered # NoVisitor => Owner(jar.session) = remembered

TabIsSound(t) ==
    /\ AskIsOrderly(ask[t], view[t]) /\ TokenFollows(ask[t])
    /\ PageIsOfOwner(ask[t], view[t]) /\ BodyIsDue(t)

WebIInv == WebIsTyped /\ JarIsRemembered /\ \A t \in WebTabs : TabIsSound(t)

\* Sessions are begun and end; whose they are does not change.
SessionsGoOn ==
    /\ sessions' \in Seq(Session) /\ Len(sessions) <= Len(sessions')
    /\ \A s \in 1..Len(sessions) : /\ sessions'[s].user = sessions[s].user
                                   /\ sessions'[s].live => sessions[s].live

LEMMA SessionsStay == WebIsTyped /\ sessions' = sessions => SessionsGoOn
  <1> SUFFICES ASSUME WebIsTyped, sessions' = sessions PROVE SessionsGoOn
      OBVIOUS
  <1>1. Len(sessions) \in Nat
    BY DEF WebIsTyped
  <1> QED
    BY <1>1 DEF WebIsTyped, SessionsGoOn

LEMMA HoldersGo ==
  ASSUME WebIsTyped, SessionsGoOn, NEW s \in Nat, s <= Len(sessions)
  PROVE  /\ s # 0 => Owner(s)' = Owner(s)
         /\ Holder(s) = NoVisitor => Holder(s)' = NoVisitor
  <1>1. s # 0 => s \in 1..Len(sessions) /\ sessions[s] \in Session
    BY DEF WebIsTyped
  <1>2. s # 0 => sessions'[s] \in Session /\ sessions'[s].user = sessions[s].user
                   /\ (sessions'[s].live => sessions[s].live)
    BY <1>1 DEF SessionsGoOn
  <1> QED
    BY <1>1, <1>2, WebParameters DEF Owner, Holder, Session, Anybody

LEMMA HoldersAre ==
  ASSUME WebIsTyped, NEW s \in Nat, s <= Len(sessions)
  PROVE  Holder(s) \in Anybody /\ (Holder(s) # NoVisitor => s # 0 /\ Holder(s) = Owner(s))
  <1>1. s # 0 => s \in 1..Len(sessions) /\ sessions[s] \in Session
    BY DEF WebIsTyped
  <1> QED
    BY <1>1, WebParameters DEF Owner, Holder, Session, Anybody

\* What is said of a request and a page stays said while the jar stays.
LEMMA SaidStaysSaid ==
  ASSUME WebIsTyped, SessionsGoOn, jar' = jar, mixed' = mixed,
         NEW a \in Asking, NEW v \in Page, a.cookies.session <= Len(sessions)
  PROVE  /\ AskIsOrderly(a, v) => AskIsOrderly(a, v)'
         /\ TokenFollows(a) => TokenFollows(a)'
         /\ PageIsOfOwner(a, v) => PageIsOfOwner(a, v)'
  <1>1. jar.session \in Nat /\ jar.session <= Len(sessions) /\ a.cookies.session \in Nat
    BY DEF WebIsTyped, CookieJar, Asking
  <1>2. /\ jar.session # 0 => Owner(jar.session)' = Owner(jar.session)
        /\ Holder(jar.session) = NoVisitor => Holder(jar.session)' = NoVisitor
    <2>1. /\ jar.session # 0 => sessions'[jar.session].user = sessions[jar.session].user
          /\ Holder(jar.session) = NoVisitor
               => (IF jar.session # 0 /\ sessions'[jar.session].live
                   THEN sessions'[jar.session].user ELSE NoVisitor) = NoVisitor
      BY <1>1, HoldersGo DEF Owner, Holder
    <2> QED
      BY <2>1 DEF Owner, Holder
  <1>3. /\ a.cookies.session # 0 => Owner(a.cookies.session)' = Owner(a.cookies.session)
        /\ Holder(a.cookies.session) = NoVisitor => Holder(a.cookies.session)' = NoVisitor
    BY <1>1, HoldersGo
  <1>4. AskIsOrderly(a, v) => AskIsOrderly(a, v)'
    BY <1>3 DEF AskIsOrderly
  <1>5. TokenFollows(a) => TokenFollows(a)'
    BY <1>2, <1>3 DEF TokenFollows
  <1>6. PageIsOfOwner(a, v) => PageIsOfOwner(a, v)'
    BY <1>2, <1>3 DEF PageIsOfOwner
  <1> QED
    BY <1>4, <1>5, <1>6

\* One tab's request and page change, and no cookie and no memory.
LEMMA OneTabGoesOn ==
  ASSUME WebIInv, SessionsGoOn, NEW t \in WebTabs, NEW a \in Asking, NEW v \in Page,
         ask' = [ask EXCEPT ![t] = a], view' = [view EXCEPT ![t] = v],
         jar' = jar, mixed' = mixed, remembered' \in {remembered, NoVisitor},
         deleted' \subseteq Visitors, minted' \in Nat, minted <= minted',
         hitches' \in 0..MaxHitches,
         ask[t].stage # "body", a.stage # "body",
         a.cookies.session <= Len(sessions'), a.cookies.csrf <= minted', a.token <= minted',
         AskIsOrderly(a, v)', TokenFollows(a)', PageIsOfOwner(a, v)',
         \A u \in WebTabs \ {t} : ask[u].stage = "body" => v.at = "away" \/ v.amid
  PROVE  WebIInv'
  <1>t. WebIsTyped
    BY DEF WebIInv
  <1>0. /\ \A u \in WebTabs : ask'[u] = IF u = t THEN a ELSE ask[u]
        /\ \A u \in WebTabs : view'[u] = IF u = t THEN v ELSE view[u]
        /\ ask' \in [WebTabs -> Asking] /\ view' \in [WebTabs -> Page]
    BY <1>t DEF WebIsTyped
  <1>l. Len(sessions) \in Nat /\ Len(sessions') \in Nat /\ Len(sessions) <= Len(sessions')
    BY <1>t DEF WebIsTyped, SessionsGoOn
  <1>1. WebIsTyped'
    <2>1. jar.session <= Len(sessions') /\ jar.csrf <= minted'
      BY <1>t, <1>l DEF WebIsTyped, CookieJar
    <2>2. \A u \in WebTabs :
             /\ ask'[u].cookies.session <= Len(sessions')
             /\ ask'[u].cookies.csrf <= minted' /\ ask'[u].token <= minted'
      BY <1>t, <1>0, <1>l DEF WebIsTyped, CookieJar, Asking
    <2> QED
      BY <1>t, <1>0, <2>1, <2>2 DEF WebIsTyped, SessionsGoOn, Anybody
  <1>2. jar.session # 0 => Owner(jar.session)' = Owner(jar.session)
    <2>1. jar.session # 0 => sessions'[jar.session].user = sessions[jar.session].user
      BY <1>t, <1>l DEF WebIsTyped, SessionsGoOn, CookieJar
    <2> QED
      BY <2>1 DEF Owner
  <1>3. JarIsRemembered'
    <2>1. (\A u \in WebTabs : ask'[u].stage # "body") => \A u \in WebTabs : ask[u].stage # "body"
      BY <1>0
    <2> QED
      BY <2>1, <1>2 DEF WebIInv, JarIsRemembered
  <1>4. ASSUME NEW u \in WebTabs PROVE TabIsSound(u)'
    <2>1. BodyIsDue(u)'
      <3> SUFFICES ASSUME ask'[u].stage = "body" PROVE BodyIsDue(u)'
          BY DEF BodyIsDue
      <3>1. u # t /\ ask'[u] = ask[u] /\ ask[u].stage = "body"
        BY <1>0
      <3>2. BodyIsDue(u)
        BY DEF WebIInv, TabIsSound
      <3>3. \A w \in WebTabs \ {u} : view'[w].at # "away" => view'[w].amid
        BY <1>0, <3>1, <3>2 DEF BodyIsDue
      <3>4. \A w \in WebTabs \ {u} : ask[w].stage # "body" => ask'[w].stage # "body"
        BY <1>0
      <3> QED
        BY <1>2, <3>1, <3>2, <3>3, <3>4 DEF BodyIsDue
    <2>2. CASE u = t
      <3>1. ask'[u] = a /\ view'[u] = v
        BY <1>0, <2>2
      <3> QED
        BY <2>1, <3>1 DEF TabIsSound, AskIsOrderly, TokenFollows, PageIsOfOwner, Owner, Holder
    <2>3. CASE u # t
      <3>1. ask'[u] = ask[u] /\ view'[u] = view[u] /\ ask[u] \in Asking /\ view[u] \in Page
            /\ ask[u].cookies.session <= Len(sessions)
        BY <1>0, <1>t, <2>3 DEF WebIsTyped
      <3> DEFINE b == ask[u]
                 x == view[u]
      <3>2. AskIsOrderly(b, x) /\ TokenFollows(b) /\ PageIsOfOwner(b, x)
        BY DEF WebIInv, TabIsSound
      <3> QED
        <4>1. ASSUME NEW b1 \in Asking, NEW x1 \in Page, b1.cookies.session <= Len(sessions),
                     AskIsOrderly(b1, x1) /\ TokenFollows(b1) /\ PageIsOfOwner(b1, x1),
                     ask'[u] = b1, view'[u] = x1
              PROVE  TabIsSound(u)'
          <5>1. AskIsOrderly(b1, x1)' /\ TokenFollows(b1)' /\ PageIsOfOwner(b1, x1)'
            BY <4>1, <1>t, SaidStaysSaid
          <5> QED
            BY <5>1, <2>1, <4>1 DEF TabIsSound, AskIsOrderly, TokenFollows, PageIsOfOwner, Owner, Holder
        <4> QED
          BY <4>1, <3>1, <3>2
    <2> QED
      BY <2>2, <2>3
  <1> QED
    BY <1>1, <1>3, <1>4 DEF WebIInv

\* A request that the cookies changed under is not a calm one.
LEMMA UpsetIsSaid ==
  ASSUME NEW a \in Asking, NEW b \in Asking, NEW v \in Page,
         b = [a EXCEPT !.calm = b.calm], b.calm => a.stage = "idle",
         sessions' = sessions, AskIsOrderly(a, v)
  PROVE  AskIsOrderly(b, v)' /\ TokenFollows(b)'
  <1>1. /\ b.kind = a.kind /\ b.stage = a.stage /\ b.user = a.user /\ b.token = a.token
        /\ b.cookies = a.cookies /\ b.answer = a.answer /\ b.who = a.who
    BY DEF Asking
  <1>2. AskIsOrderly(b, v)'
    BY <1>1 DEF AskIsOrderly, Owner
  <1>3. TokenFollows(b)'
    BY <1>1 DEF TokenFollows, AskIsOrderly, Writing
  <1> QED
    BY <1>2, <1>3

\* The cookies change, though not to another session; who is not calm was not.
LEMMA CookiesChange ==
  ASSUME WebIInv, sessions' = sessions, jar' \in CookieJar, jar'.session \in {jar.session, 0},
         jar'.csrf <= minted, mixed' = mixed, remembered' \in {remembered, NoVisitor},
         UNCHANGED <<deleted, minted>>, hitches' \in 0..MaxHitches,
         ask' \in [WebTabs -> Asking], view' \in [WebTabs -> Page],
         NEW Others \in SUBSET WebTabs,
         \A u \in Others : /\ view'[u] = view[u]
                           /\ ask'[u] = [ask[u] EXCEPT !.calm = ask'[u].calm]
                           /\ ask'[u].calm => ask[u].stage = "idle",
         \A u \in WebTabs \ Others :
            /\ ask[u].stage # "body" /\ ask'[u].stage # "body"
            /\ view'[u].at = "away" \/ (view'[u].amid = view[u].amid /\ view[u].at # "away")
            /\ ask'[u].cookies.session <= Len(sessions) /\ ask'[u].cookies.csrf <= minted
            /\ ask'[u].token <= minted
            /\ AskIsOrderly(ask[u], view[u])' /\ TokenFollows(ask[u])'
            /\ PageIsOfOwner(ask[u], view[u])'
  PROVE  WebIInv'
  <1>t. WebIsTyped
    BY DEF WebIInv
  <1>0. ASSUME NEW u \in Others
        PROVE  /\ ask'[u].stage = ask[u].stage /\ ask'[u].cookies = ask[u].cookies
               /\ ask'[u].token = ask[u].token /\ ask'[u].user = ask[u].user
               /\ ask'[u].answer = ask[u].answer /\ ask'[u].who = ask[u].who
               /\ ask'[u].kind = ask[u].kind /\ ask[u] \in Asking /\ view[u] \in Page
    BY <1>t DEF WebIsTyped, Asking
  <1>l. Len(sessions) \in Nat /\ jar.session <= Len(sessions) /\ jar'.session <= Len(sessions)
    BY <1>t DEF WebIsTyped, CookieJar
  <1>1. WebIsTyped'
    <2>1. ASSUME NEW u \in WebTabs
          PROVE  /\ ask'[u].cookies.session <= Len(sessions)
                 /\ ask'[u].cookies.csrf <= minted /\ ask'[u].token <= minted
      BY <1>t, <1>0 DEF WebIsTyped
    <2> QED
      BY <1>t, <1>l, <2>1 DEF WebIsTyped, Anybody
  <1>2. \A s : Owner(s)' = Owner(s)
    BY DEF Owner
  <1>3. \A u \in WebTabs : ask'[u].stage = "body" <=> ask[u].stage = "body"
    BY <1>0
  <1>4. JarIsRemembered'
    BY <1>2, <1>3 DEF WebIInv, JarIsRemembered, Owner
  <1>5. ASSUME NEW u \in WebTabs PROVE TabIsSound(u)'
    <2>1. BodyIsDue(u)'
      <3> SUFFICES ASSUME ask'[u].stage = "body" PROVE BodyIsDue(u)'
          BY DEF BodyIsDue
      <3>1. u \in Others /\ ~ask'[u].calm /\ ask[u].stage = "body" /\ ask'[u].user = ask[u].user
        BY <1>0
      <3>2. BodyIsDue(u)
        BY DEF WebIInv, TabIsSound
      <3>3. ASSUME NEW w \in WebTabs \ {u}, view'[w].at # "away" PROVE view'[w].amid
        <4>1. view[w].at # "away" => view[w].amid
          BY <3>1, <3>2 DEF BodyIsDue
        <4> QED
          BY <4>1, <3>3
      <3>4. ~mixed => /\ jar'.session # 0 => Owner(jar.session)' = ask'[u].user
                      /\ \A w \in WebTabs \ {u} : ask'[w].stage # "body"
        BY <1>2, <1>3, <3>1, <3>2 DEF BodyIsDue, Owner
      <3> QED
        BY <3>1, <3>3, <3>4 DEF BodyIsDue, Owner
    <2>2. CASE u \notin Others
      BY <2>1, <2>2 DEF TabIsSound
    <2>3. CASE u \in Others
      <3>1. AskIsOrderly(ask[u], view[u]) /\ PageIsOfOwner(ask[u], view[u])
        BY DEF WebIInv, TabIsSound
      <3>2. AskIsOrderly(ask[u], view[u])' /\ TokenFollows(ask[u])'
        <4>1. ASSUME NEW a1 \in Asking, NEW b1 \in Asking, NEW v1 \in Page,
                     a1 = ask[u], b1 = ask'[u], v1 = view[u]
              PROVE  AskIsOrderly(b1, v1)' /\ TokenFollows(b1)'
          BY <4>1, <2>3, <3>1, UpsetIsSaid
        <4>2. ASSUME NEW a1 \in Asking, NEW b1 \in Asking, NEW v1 \in Page,
                     a1 = ask[u], b1 = ask'[u], v1 = view[u], v1 = view'[u]
                 PROVE  AskIsOrderly(ask[u], view[u])' /\ TokenFollows(ask[u])'
          BY <4>1, <4>2 DEF AskIsOrderly, TokenFollows, Owner, Holder
        <4> QED
          BY <4>2, <1>0, <2>3
      <3>3. PageIsOfOwner(ask[u], view[u])'
        BY <3>1, <1>0, <1>2, <2>3 DEF PageIsOfOwner, Owner
      <3> QED
        BY <2>1, <3>2, <3>3 DEF TabIsSound
    <2> QED
      BY <2>2, <2>3
  <1> QED
    BY <1>1, <1>4, <1>5 DEF WebIInv

LEMMA NobodySignsIn ==
  ASSUME WebIInv, NEW t \in WebTabs, SigningIn(t) = {}
  PROVE  \A u \in WebTabs \ {t} : ask[u].kind # "login" /\ ask[u].stage # "body"
  BY DEF WebIInv, TabIsSound, AskIsOrderly, SigningIn

LEMMA VisitIsSound ==
  ASSUME WebIInv, NEW t \in WebTabs,
         NEW at \in {"away", "cloud", "account", "profile"}, Visit(t, at)
  PROVE  WebIInv'
  <1>t. WebIsTyped /\ AskIsOrderly(ask[t], view[t])
    BY DEF WebIInv, TabIsSound
  <1>1. PICK a \in Asking : /\ ask' = [ask EXCEPT ![t] = a]
                            /\ a.token = 0 /\ a.cookies = [session |-> 0, csrf |-> 0]
                            /\ a.answer = "none"
                            /\ \/ a.kind = "none" /\ a.stage = "idle"
                               \/ /\ a.kind = "read" /\ a.stage = "ready" /\ at = "cloud"
                                  /\ a.user = remembered /\ remembered # NoVisitor
    <2> DEFINE a == IF at = "cloud" /\ remembered # NoVisitor
                    THEN [NoAsking EXCEPT !.kind = "read", !.stage = "ready", !.user = remembered]
                    ELSE NoAsking
    <2>1. a \in Asking
      BY <1>t DEF WebIsTyped, Asking, NoAsking, Anybody, CookieJar
    <2> QED
      BY <2>1 DEF Visit, NoAsking
  <1>2. PICK v \in Page : /\ view' = [view EXCEPT ![t] = v]
                          /\ v.at = at
                          /\ v.user = (IF at = "away" THEN NoVisitor ELSE remembered)
                          /\ v.amid = (at # "away" /\ SigningIn(t) # {})
    <2> DEFINE v == [at |-> at, user |-> IF at = "away" THEN NoVisitor ELSE remembered,
                     amid |-> at # "away" /\ SigningIn(t) # {}]
    <2>1. v \in Page
      BY <1>t DEF WebIsTyped, Page, Anybody
    <2> QED
      BY <2>1 DEF Visit
  <1>3. /\ UNCHANGED <<sessions, deleted, minted, jar, remembered, mixed, hitches>>
        /\ ask[t].stage = "idle"
    BY DEF Visit
  <1>4. AskIsOrderly(a, v)'
    BY <1>1, <1>2 DEF AskIsOrderly, Writing
  <1>5. TokenFollows(a)'
    BY <1>1 DEF TokenFollows, Writing
  <1>6. PageIsOfOwner(a, v)'
    <2> SUFFICES ASSUME ~mixed, ~v.amid, v.at # "away" PROVE PageIsOfOwner(a, v)'
        BY <1>3 DEF PageIsOfOwner
    <2>1. \A u \in WebTabs : ask[u].stage # "body"
      BY <1>2, <1>3, NobodySignsIn
    <2>2. jar.session # 0 /\ remembered # NoVisitor => Owner(jar.session) = remembered
      BY <2>1 DEF WebIInv, JarIsRemembered
    <2> QED
      BY <2>2, <1>1, <1>2, <1>3 DEF PageIsOfOwner, Owner
  <1>7. \A u \in WebTabs \ {t} : ask[u].stage = "body" => v.at = "away" \/ v.amid
    BY <1>2, NobodySignsIn
  <1>8. /\ a.cookies.session <= Len(sessions') /\ a.cookies.csrf <= minted'
        /\ a.token <= minted' /\ minted <= minted'
    BY <1>1, <1>3, <1>t DEF WebIsTyped
  <1> QED
    BY <1>t, <1>1, <1>2, <1>3, <1>4, <1>5, <1>6, <1>7, <1>8, SessionsStay, OneTabGoesOn
    DEF WebIsTyped

\* The request of one tab changes, and nothing else does but what the API keeps.
LEMMA OneAskGoesOn ==
  ASSUME WebIInv, SessionsGoOn, NEW t \in WebTabs, NEW a \in Asking,
         ask' = [ask EXCEPT ![t] = a], UNCHANGED <<view, jar, mixed, remembered>>,
         deleted' \subseteq Visitors, minted' \in Nat, minted <= minted',
         hitches' \in 0..MaxHitches,
         ask[t].stage # "body", a.stage # "body",
         a.cookies.session <= Len(sessions'), a.cookies.csrf <= minted', a.token <= minted',
         AskIsOrderly(a, view[t])', TokenFollows(a)', PageIsOfOwner(a, view[t])'
  PROVE  WebIInv'
  <1>t. WebIsTyped
    BY DEF WebIInv
  <1>1. PICK v \in Page : v = view[t]
    BY <1>t DEF WebIsTyped
  <1>2. view' = [view EXCEPT ![t] = v]
    BY <1>t, <1>1 DEF WebIsTyped
  <1>3. AskIsOrderly(a, v)' /\ PageIsOfOwner(a, v)'
    BY <1>1 DEF AskIsOrderly, PageIsOfOwner, Owner
  <1>4. \A u \in WebTabs \ {t} : ask[u].stage = "body" => v.at = "away" \/ v.amid
    BY <1>1 DEF WebIInv, TabIsSound, BodyIsDue
  <1> QED
    BY <1>2, <1>3, <1>4, OneTabGoesOn

LEMMA SignInIsSound ==
  ASSUME WebIInv, NEW t \in WebTabs, NEW u \in Visitors, SignIn(t, u)
  PROVE  WebIInv'
  <1>t. WebIsTyped
    BY DEF WebIInv
  <1>1. PICK a \in Asking : /\ ask' = [ask EXCEPT ![t] = a]
                            /\ a.token = 0 /\ a.cookies = [session |-> 0, csrf |-> 0]
                            /\ a.answer = "none" /\ a.user = u
                            /\ a.kind = "login" /\ a.stage = "ready"
    <2> DEFINE a == [NoAsking EXCEPT !.kind = "login", !.stage = "ready", !.user = u]
    <2>1. a \in Asking
      BY DEF Asking, NoAsking, Anybody, CookieJar
    <2> QED
      BY <2>1 DEF SignIn, NoAsking
  <1>2. /\ UNCHANGED <<sessions, deleted, minted, jar, remembered, view, mixed, hitches>>
        /\ ask[t].stage = "idle" /\ view[t].at = "away"
    BY DEF SignIn
  <1>3. AskIsOrderly(a, view[t])'
    BY <1>1, <1>2, WebParameters DEF AskIsOrderly
  <1>4. TokenFollows(a)' /\ PageIsOfOwner(a, view[t])'
    BY <1>1, <1>2 DEF TokenFollows, PageIsOfOwner, Writing
  <1>5. /\ a.cookies.session <= Len(sessions') /\ a.cookies.csrf <= minted'
        /\ a.token <= minted' /\ minted <= minted'
    BY <1>1, <1>2, <1>t DEF WebIsTyped
  <1> QED
    BY <1>t, <1>1, <1>2, <1>3, <1>4, <1>5, SessionsStay, OneAskGoesOn DEF WebIsTyped

\* A button of a page is pressed for the user it shows, or the one remembered.
LEMMA PressIsSound ==
  ASSUME WebIInv, NEW t \in WebTabs, NEW kind \in Writing, NEW shown \in Anybody,
         Press(t, kind, shown), view[t].at # "away",
         ~mixed /\ ~view[t].amid /\ jar.session # 0 => Owner(jar.session) = shown
  PROVE  WebIInv'
  <1>t. WebIsTyped /\ PageIsOfOwner(ask[t], view[t])
    BY DEF WebIInv, TabIsSound
  <1>1. PICK a \in Asking : /\ ask' = [ask EXCEPT ![t] = a]
                            /\ a.token = jar.csrf /\ a.cookies = [session |-> 0, csrf |-> 0]
                            /\ a.answer = "none" /\ a.user = shown /\ a.kind = kind
                            /\ a.stage = IF jar.csrf = 0 THEN "minting" ELSE "ready"
    <2> DEFINE a == [NoAsking EXCEPT !.kind = kind, !.user = shown, !.token = jar.csrf,
                                     !.stage = IF jar.csrf = 0 THEN "minting" ELSE "ready"]
    <2>1. a \in Asking
      BY <1>t DEF WebIsTyped, Asking, NoAsking, CookieJar, Anybody
    <2> QED
      BY <2>1 DEF Press, NoAsking
  <1>2. /\ UNCHANGED <<sessions, deleted, minted, jar, remembered, view, mixed, hitches>>
        /\ ask[t].stage = "idle" /\ shown # NoVisitor
    BY DEF Press
  <1>3. AskIsOrderly(a, view[t])'
    BY <1>1, <1>2 DEF AskIsOrderly, Writing
  <1>4. TokenFollows(a)'
    BY <1>1, <1>2 DEF TokenFollows, Writing
  <1>5. PageIsOfOwner(a, view[t])'
    BY <1>t, <1>1, <1>2 DEF PageIsOfOwner, Owner
  <1>6. /\ a.cookies.session <= Len(sessions') /\ a.cookies.csrf <= minted'
        /\ a.token <= minted' /\ minted <= minted'
    BY <1>1, <1>2, <1>t DEF WebIsTyped
  <1> QED
    BY <1>t, <1>1, <1>2, <1>3, <1>4, <1>5, <1>6, SessionsStay, OneAskGoesOn DEF WebIsTyped

LEMMA ButtonsAreSound ==
  ASSUME WebIInv, NEW t \in WebTabs, Buy(t) \/ LogOut(t) \/ DeleteMe(t) \/ Respond(t)
  PROVE  WebIInv'
  <1>t. WebIsTyped /\ PageIsOfOwner(ask[t], view[t])
    BY DEF WebIInv, TabIsSound
  <1>1. view[t] \in Page /\ view[t].user \in Anybody /\ remembered \in Anybody
    BY <1>t DEF WebIsTyped, Page
  <1>2. CASE Respond(t)
    <2>1. view[t].at = "profile" /\ Press(t, "write", remembered)
      BY <1>2 DEF Respond
    <2>2. ~mixed /\ ~view[t].amid /\ jar.session # 0 => Owner(jar.session) = remembered
      <3> SUFFICES ASSUME ~mixed, ~view[t].amid, jar.session # 0
                   PROVE  Owner(jar.session) = remembered
          OBVIOUS
      <3>1. remembered # NoVisitor /\ ask[t].stage # "body"
        BY <2>1 DEF Press
      <3>2. \A u \in WebTabs : ask[u].stage # "body"
        BY <2>1, <3>1 DEF WebIInv, TabIsSound, BodyIsDue
      <3> QED
        BY <3>1, <3>2 DEF WebIInv, JarIsRemembered
    <2> QED
      BY <1>1, <2>1, <2>2, PressIsSound DEF Writing
  <1>3. ASSUME NEW kind \in Writing, view[t].at # "away", Press(t, kind, view[t].user)
        PROVE  WebIInv'
    <2>1. ~mixed /\ ~view[t].amid /\ jar.session # 0 => Owner(jar.session) = view[t].user
      BY <1>3, <1>t DEF PageIsOfOwner, Press
    <2>2. PICK shown \in Anybody : shown = view[t].user
      BY <1>1
    <2>3. Press(t, kind, shown)
      BY <1>3, <2>2
    <2> QED
      BY <1>3, <2>1, <2>2, <2>3, PressIsSound
  <1> QED
    BY <1>2, <1>3 DEF Buy, LogOut, DeleteMe, Writing

\* What WebIInv says of one tab, and of the types of what it has.
LEMMA OfOneTab ==
  ASSUME WebIInv, NEW t \in WebTabs
  PROVE  /\ WebIsTyped /\ ask[t] \in Asking /\ view[t] \in Page
         /\ Len(sessions) \in Nat /\ minted \in Nat /\ jar \in CookieJar
         /\ jar.session <= Len(sessions) /\ jar.csrf <= minted
         /\ ask[t].cookies.session <= Len(sessions) /\ ask[t].cookies.csrf <= minted
         /\ ask[t].token <= minted
         /\ AskIsOrderly(ask[t], view[t]) /\ TokenFollows(ask[t])
         /\ PageIsOfOwner(ask[t], view[t]) /\ BodyIsDue(t)
  BY DEF WebIInv, TabIsSound, WebIsTyped

LEMMA SendOffIsSound ==
  ASSUME WebIInv, NEW t \in WebTabs, SendOff(t)
  PROVE  WebIInv'
  <1>1. /\ UNCHANGED <<sessions, deleted, minted, jar, remembered, view, mixed, hitches>>
        /\ ask[t].stage \in {"minting", "ready"}
    BY DEF SendOff
  <1>2. PICK a \in Asking :
           /\ ask' = [ask EXCEPT ![t] = a]
           /\ a.kind = ask[t].kind /\ a.user = ask[t].user /\ a.token = ask[t].token
           /\ a.answer = ask[t].answer /\ a.who = ask[t].who /\ a.calm = ask[t].calm
           /\ a.cookies = jar /\ a.stage = IF ask[t].stage = "minting" THEN "mint" ELSE "sent"
    <2> DEFINE a == [ask[t] EXCEPT !.cookies = jar,
                                   !.stage = IF ask[t].stage = "minting" THEN "mint" ELSE "sent"]
    <2>1. a \in Asking
      BY OfOneTab DEF Asking
    <2>2. ask' = [ask EXCEPT ![t] = a]
      BY OfOneTab DEF SendOff, Asking, WebIsTyped
    <2>3. /\ a.kind = ask[t].kind /\ a.user = ask[t].user /\ a.token = ask[t].token
          /\ a.answer = ask[t].answer /\ a.who = ask[t].who /\ a.calm = ask[t].calm
          /\ a.cookies = jar /\ a.stage = IF ask[t].stage = "minting" THEN "mint" ELSE "sent"
      BY OfOneTab DEF Asking
    <2> HIDE DEF a
    <2> QED
      BY <2>1, <2>2, <2>3
  <1>3. AskIsOrderly(a, view[t])'
    BY <1>1, <1>2, OfOneTab DEF AskIsOrderly, Writing
  <1>4. TokenFollows(a)'
    BY <1>1, <1>2, OfOneTab DEF TokenFollows, Writing, AskIsOrderly, Holder
  <1>5. PageIsOfOwner(a, view[t])'
    BY <1>1, <1>2, OfOneTab DEF PageIsOfOwner, Owner
  <1>6. /\ a.cookies.session <= Len(sessions') /\ a.cookies.csrf <= minted'
        /\ a.token <= minted' /\ minted <= minted'
    BY <1>1, <1>2, OfOneTab
  <1> QED
    BY <1>1, <1>2, <1>3, <1>4, <1>5, <1>6, OfOneTab, SessionsStay, OneAskGoesOn DEF WebIsTyped

LEMMA MintIsSound ==
  ASSUME WebIInv, NEW t \in WebTabs, Mint(t)
  PROVE  WebIInv'
  <1> DEFINE h == Holder(ask[t].cookies.session)
             new == h # NoVisitor /\ ask[t].cookies.csrf = 0
  <1>1. /\ UNCHANGED <<sessions, deleted, jar, remembered, view, mixed, hitches>>
        /\ ask[t].stage = "mint" /\ minted' = IF new THEN minted + 1 ELSE minted
    BY DEF Mint
  <1>2. PICK a \in Asking :
           /\ ask' = [ask EXCEPT ![t] = a]
           /\ a.kind = ask[t].kind /\ a.user = ask[t].user /\ a.cookies = ask[t].cookies
           /\ a.who = ask[t].who /\ a.calm = ask[t].calm
           /\ a.stage = "minted" /\ a.answer = IF new THEN "set" ELSE "none"
           /\ a.token = IF h = NoVisitor THEN 0
                        ELSE IF new THEN minted + 1 ELSE ask[t].cookies.csrf
    <2> DEFINE tok == IF h = NoVisitor THEN 0
                      ELSE IF new THEN minted + 1 ELSE ask[t].cookies.csrf
               a == [ask[t] EXCEPT !.stage = "minted", !.answer = IF new THEN "set" ELSE "none",
                                   !.token = tok]
    <2>0. tok \in Nat
      BY OfOneTab DEF Asking, CookieJar
    <2>2. ask' = [ask EXCEPT ![t] = a]
      BY OfOneTab DEF Mint, Asking, WebIsTyped
    <2> HIDE DEF tok, h
    <2>1. a \in Asking
      BY <2>0, OfOneTab DEF Asking
    <2>3. /\ a.kind = ask[t].kind /\ a.user = ask[t].user /\ a.cookies = ask[t].cookies
          /\ a.who = ask[t].who /\ a.calm = ask[t].calm
          /\ a.stage = "minted" /\ a.answer = (IF new THEN "set" ELSE "none") /\ a.token = tok
      BY OfOneTab DEF Asking
    <2> HIDE DEF a
    <2> QED
      BY <2>1, <2>2, <2>3 DEF tok
  <1>3. AskIsOrderly(a, view[t])'
    BY <1>1, <1>2, OfOneTab DEF AskIsOrderly, Writing
  <1>4. TokenFollows(a)'
    <2>1. a.kind \in Writing /\ a.calm => jar.csrf = 0 /\ ask[t].cookies = jar
      BY <1>1, <1>2, OfOneTab DEF TokenFollows
    <2>2. Holder(jar.session)' = Holder(jar.session)
      BY <1>1 DEF Holder
    <2>3. a.kind \in Writing /\ a.calm =>
             \/ a.answer = "set" /\ a.token # 0
             \/ a.answer = "none" /\ a.token = 0 /\ Holder(jar.session) = NoVisitor
      BY <1>2, <2>1, OfOneTab
    <2> QED
      BY <1>1, <1>2, <2>1, <2>2, <2>3 DEF TokenFollows
  <1>5. PageIsOfOwner(a, view[t])'
    BY <1>1, <1>2, OfOneTab DEF PageIsOfOwner, Owner
  <1>6. /\ a.cookies.session <= Len(sessions') /\ a.cookies.csrf <= minted'
        /\ a.token <= minted' /\ minted <= minted' /\ minted' \in Nat
    BY <1>1, <1>2, OfOneTab DEF Asking, CookieJar
  <1> QED
    BY <1>1, <1>2, <1>3, <1>4, <1>5, <1>6, OfOneTab, SessionsStay, OneAskGoesOn DEF WebIsTyped

LEMMA LogInIsSound ==
  ASSUME WebIInv, NEW t \in WebTabs, LogIn(t)
  PROVE  WebIInv'
  <1>1. /\ UNCHANGED <<deleted, jar, remembered, view, mixed, hitches>>
        /\ ask[t].stage = "sent" /\ ask[t].kind = "login" /\ view[t].at = "away"
        /\ ask[t].user # NoVisitor
    BY OfOneTab DEF LogIn, AskIsOrderly
  <1>2. CASE ask[t].user \in deleted
    <2>1. PICK a \in Asking :
             /\ ask' = [ask EXCEPT ![t] = a]
             /\ a.kind = "login" /\ a.user = ask[t].user /\ a.cookies = ask[t].cookies
             /\ a.token = ask[t].token /\ a.stage = "answered" /\ a.answer = "401"
      <3> DEFINE a == [ask[t] EXCEPT !.stage = "answered", !.answer = "401"]
      <3>1. a \in Asking /\ ask' = [ask EXCEPT ![t] = a]
        BY <1>2, OfOneTab DEF LogIn, Asking, WebIsTyped
      <3>2. /\ a.kind = "login" /\ a.user = ask[t].user /\ a.cookies = ask[t].cookies
            /\ a.token = ask[t].token /\ a.stage = "answered" /\ a.answer = "401"
        BY <1>1, OfOneTab DEF Asking
      <3> HIDE DEF a
      <3> QED
        BY <3>1, <3>2
    <2>2. sessions' = sessions /\ minted' = minted
      BY <1>2 DEF LogIn
    <2>3. AskIsOrderly(a, view[t])' /\ TokenFollows(a)' /\ PageIsOfOwner(a, view[t])'
      BY <1>1, <2>1, <2>2 DEF AskIsOrderly, TokenFollows, PageIsOfOwner, Writing
    <2>4. /\ a.cookies.session <= Len(sessions') /\ a.cookies.csrf <= minted'
          /\ a.token <= minted' /\ minted <= minted' /\ minted' \in Nat
      BY <2>1, <2>2, OfOneTab
    <2> QED
      BY <1>1, <2>1, <2>2, <2>3, <2>4, OfOneTab, SessionsStay, OneAskGoesOn DEF WebIsTyped
  <1>3. CASE ask[t].user \notin deleted
    <2> DEFINE s == [user |-> ask[t].user, live |-> TRUE]
    <2>0. sessions' = Append(sessions, s) /\ minted' = minted + 1
      BY <1>3 DEF LogIn
    <2>1. PICK a \in Asking :
             /\ ask' = [ask EXCEPT ![t] = a]
             /\ a.kind = "login" /\ a.user = ask[t].user
             /\ a.cookies = [session |-> Len(sessions) + 1, csrf |-> minted + 1]
             /\ a.token = ask[t].token /\ a.stage = "answered" /\ a.answer = "done"
      <3> DEFINE c == [session |-> Len(sessions) + 1, csrf |-> minted + 1]
                 a == [ask[t] EXCEPT !.stage = "answered", !.answer = "done",
                                     !.who = ask[t].user, !.cookies = c]
      <3>0. c \in CookieJar
        BY OfOneTab DEF CookieJar
      <3>1. ask' = [ask EXCEPT ![t] = a]
        BY <1>3, OfOneTab DEF LogIn, Asking, WebIsTyped
      <3> HIDE DEF c
      <3>2. a \in Asking
        BY <3>0, OfOneTab DEF Asking
      <3>3. /\ a.kind = "login" /\ a.user = ask[t].user /\ a.cookies = c
            /\ a.token = ask[t].token /\ a.stage = "answered" /\ a.answer = "done"
        BY <1>1, OfOneTab DEF Asking
      <3> HIDE DEF a
      <3> QED
        BY <3>1, <3>2, <3>3 DEF c
    <2>2. s \in Session
      BY <1>1, OfOneTab DEF Session, Asking, Anybody
    <2>3. sessions' \in Seq(Session) /\ Len(sessions') = Len(sessions) + 1
      BY <2>0, <2>2, OfOneTab DEF WebIsTyped
    <2>4. sessions'[Len(sessions) + 1] = s
          /\ \A i \in 1..Len(sessions) : sessions'[i] = sessions[i]
      BY <2>0, OfOneTab DEF WebIsTyped
    <2>5. SessionsGoOn
      BY <2>3, <2>4, OfOneTab DEF SessionsGoOn
    <2>6. AskIsOrderly(a, view[t])' /\ TokenFollows(a)' /\ PageIsOfOwner(a, view[t])'
      <3>1. a.cookies.session # 0 /\ sessions'[a.cookies.session].user = a.user
        BY <2>1, <2>4, OfOneTab
      <3> QED
        BY <1>1, <2>1, <3>1 DEF AskIsOrderly, TokenFollows, PageIsOfOwner, Writing, Owner
    <2>7. /\ a.cookies.session <= Len(sessions') /\ a.cookies.csrf <= minted'
          /\ a.token <= minted' /\ minted <= minted' /\ minted' \in Nat
      BY <2>0, <2>1, <2>3, OfOneTab DEF Asking
    <2> QED
      BY <1>1, <2>1, <2>5, <2>6, <2>7, OfOneTab, OneAskGoesOn DEF WebIsTyped
  <1> QED
    BY <1>2, <1>3

LEMMA ServeIsSound ==
  ASSUME WebIInv, NEW t \in WebTabs, Serve(t)
  PROVE  WebIInv'
  <1> DEFINE c == ask[t].cookies
             h == Holder(c.session)
             answer == IF ask[t].kind # "read" /\ ~Passes(ask[t]) THEN "403"
                       ELSE IF ask[t].kind # "logout" /\ h = NoVisitor THEN "401" ELSE "done"
             over(s) == \/ ask[t].kind = "logout" /\ s = c.session
                        \/ ask[t].kind = "delete" /\ sessions[s].user = h
  <1>1. /\ UNCHANGED <<minted, jar, remembered, view, mixed, hitches>>
        /\ ask[t].stage = "sent" /\ ask[t].kind # "login"
    BY DEF Serve
  <1>k. ask[t].kind \in Writing \cup {"read"}
    BY <1>1, OfOneTab DEF AskIsOrderly, Asking
  <1>c. c.session \in Nat /\ c.session <= Len(sessions)
    BY OfOneTab DEF Asking, CookieJar
  <1>h. h \in Anybody /\ (h # NoVisitor => c.session # 0 /\ h = Owner(c.session))
    BY <1>c, OfOneTab, HoldersAre
  <1>2. PICK a \in Asking :
           /\ ask' = [ask EXCEPT ![t] = a]
           /\ a.kind = ask[t].kind /\ a.user = ask[t].user /\ a.cookies = c
           /\ a.token = ask[t].token /\ a.calm = ask[t].calm
           /\ a.stage = "answered" /\ a.answer = answer /\ a.who = h
    <2> DEFINE a == [ask[t] EXCEPT !.stage = "answered", !.answer = answer, !.who = h]
    <2>0. answer \in {"403", "401", "done"}
      OBVIOUS
    <2>1. ask' = [ask EXCEPT ![t] = a]
      BY OfOneTab DEF Serve, Asking, WebIsTyped
    <2> HIDE DEF answer, h
    <2>2. a \in Asking
      BY <2>0, <1>h, OfOneTab DEF Asking
    <2>3. /\ a.kind = ask[t].kind /\ a.user = ask[t].user /\ a.cookies = c
          /\ a.token = ask[t].token /\ a.calm = ask[t].calm
          /\ a.stage = "answered" /\ a.answer = answer /\ a.who = h
      BY OfOneTab DEF Asking
    <2> HIDE DEF a
    <2> QED
      BY <2>1, <2>2, <2>3
  <1>3. SessionsGoOn
    <2>1. CASE answer # "done"
      <3>1. sessions' = sessions
        BY <2>1 DEF Serve
      <3> QED
        BY <3>1, OfOneTab, SessionsStay
    <2>2. CASE answer = "done"
      <3>1. sessions' = [s \in DOMAIN sessions |->
                           [sessions[s] EXCEPT !.live = sessions[s].live /\ ~over(s)]]
        BY <2>2 DEF Serve
      <3> HIDE DEF over, answer, h
      <3>2. \A s \in DOMAIN sessions : sessions[s] \in Session
        BY OfOneTab DEF WebIsTyped
      <3>3. \A s \in DOMAIN sessions :
               /\ sessions'[s].user = sessions[s].user
               /\ sessions'[s].live = (sessions[s].live /\ ~over(s))
               /\ sessions'[s] \in Session
        BY <3>1, <3>2, Zenon DEF Session
      <3>4. DOMAIN sessions = 1..Len(sessions)
        BY OfOneTab DEF WebIsTyped
      <3>5. sessions' \in [1..Len(sessions) -> Session]
        BY <3>1, <3>3, <3>4
      <3>6. sessions' \in Seq(Session) /\ Len(sessions') = Len(sessions)
        BY <3>5, OfOneTab
      <3>7. \A s \in 1..Len(sessions) : /\ sessions'[s].user = sessions[s].user
                                        /\ sessions'[s].live => sessions[s].live
        BY <3>3, <3>4, Zenon
      <3>8. Len(sessions) <= Len(sessions')
        BY <3>6, OfOneTab
      <3> QED
        BY <3>6, <3>7, <3>8 DEF SessionsGoOn
    <2> QED
      BY <2>1, <2>2
  <1>4. AskIsOrderly(a, view[t])'
    BY <1>1, <1>2, <1>k, OfOneTab DEF AskIsOrderly, Writing
  <1>5. TokenFollows(a)'
    <2>1. a.kind \in Writing /\ a.calm /\ a.answer = "403" => h = NoVisitor
      BY <1>1, <1>2, OfOneTab DEF TokenFollows, Passes
    <2>2. h = NoVisitor => Holder(a.cookies.session)' = NoVisitor
      <3>1. ASSUME NEW s \in Nat, s = c.session, h = NoVisitor PROVE Holder(s)' = NoVisitor
        BY <3>1, <1>3, <1>c, OfOneTab, HoldersGo
      <3> QED
        BY <3>1, <1>c, <1>2 DEF Holder
    <2> QED
      BY <2>1, <2>2, <1>2 DEF TokenFollows
  <1>6. PageIsOfOwner(a, view[t])'
    <2> SUFFICES ASSUME ~mixed, ~view[t].amid, view[t].at # "away"
                 PROVE  PageIsOfOwner(a, view[t])'
        BY <1>1 DEF PageIsOfOwner
    <2>1. jar.session # 0 /\ view[t].user # NoVisitor => Owner(jar.session) = view[t].user
      BY OfOneTab DEF PageIsOfOwner
    <2>2. jar.session # 0 => sessions'[jar.session].user = sessions[jar.session].user
      BY <1>3, OfOneTab DEF SessionsGoOn, CookieJar
    <2>3. h \in {NoVisitor, ask[t].user}
      BY <1>h, <1>1, OfOneTab DEF PageIsOfOwner
    <2> QED
      BY <2>1, <2>2, <2>3, <1>1, <1>2 DEF PageIsOfOwner, Owner
  <1>7. deleted' \subseteq Visitors
    <2>1. answer = "done" /\ ask[t].kind = "delete" => h # NoVisitor
      OBVIOUS
    <2>2. deleted' = IF answer = "done" /\ ask[t].kind = "delete" THEN deleted \cup {h} ELSE deleted
      BY DEF Serve
    <2> QED
      BY <2>1, <2>2, <1>h, OfOneTab DEF WebIsTyped, Anybody
  <1>8. /\ a.cookies.session <= Len(sessions') /\ a.cookies.csrf <= minted'
        /\ a.token <= minted' /\ minted <= minted'
    BY <1>1, <1>2, <1>3, OfOneTab DEF SessionsGoOn, Asking, CookieJar
  <1> QED
    BY <1>1, <1>2, <1>3, <1>4, <1>5, <1>6, <1>7, <1>8, OfOneTab, OneAskGoesOn DEF WebIsTyped

\* A change of the cookies by one tab, as the requests of the others see it.
LEMMA OthersAreUpset ==
  ASSUME WebIInv, NEW t \in WebTabs, NEW a \in Asking, ask' = [Upset(t) EXCEPT ![t] = a]
  PROVE  /\ ask' \in [WebTabs -> Asking] /\ ask'[t] = a
         /\ \A u \in WebTabs \ {t} : /\ ask'[u] = [ask[u] EXCEPT !.calm = ask'[u].calm]
                                     /\ ask'[u].calm => ask[u].stage = "idle"
  <1>1. ask'[t] = a
    BY DEF Upset
  <1>2. ASSUME NEW u \in WebTabs \ {t}
        PROVE  /\ ask'[u] = [ask[u] EXCEPT !.calm = ask'[u].calm]
               /\ ask'[u].calm => ask[u].stage = "idle"
               /\ ask'[u] \in Asking
    <2>1. ask'[u] = IF ask[u].stage = "idle" THEN ask[u] ELSE [ask[u] EXCEPT !.calm = FALSE]
      BY DEF Upset
    <2>2. CASE ask[u].stage = "idle"
      <3>1. ask[u] = [ask[u] EXCEPT !.calm = ask[u].calm]
        BY OfOneTab DEF Asking
      <3>2. ask'[u] = ask[u]
        BY <2>1, <2>2
      <3> QED
        BY <2>2, <3>1, <3>2, OfOneTab
    <2>3. CASE ask[u].stage # "idle"
      <3>1. ask'[u] = [ask[u] EXCEPT !.calm = FALSE]
        BY <2>1, <2>3
      <3>2. ASSUME NEW c \in Asking
            PROVE  [c EXCEPT !.calm = FALSE].calm = FALSE /\ [c EXCEPT !.calm = FALSE] \in Asking
        BY DEF Asking
      <3>3. ask'[u].calm = FALSE /\ ask'[u] \in Asking
        BY <3>1, <3>2, OfOneTab
      <3> QED
        BY <3>1, <3>2, <3>3
    <2> QED
      BY <2>2, <2>3
  <1>3. DOMAIN ask' = WebTabs /\ ask' = [u \in WebTabs |-> ask'[u]]
    BY DEF Upset
  <1> QED
    BY <1>1, <1>2, <1>3

LEMMA TokenComesIsSound ==
  ASSUME WebIInv, NEW t \in WebTabs, TokenComes(t)
  PROVE  WebIInv'
  <1> DEFINE set == ask[t].answer = "set"
             there == IF set THEN ask[t].token ELSE jar.csrf
             tok == IF ask[t].token # 0 THEN ask[t].token ELSE there
             a0 == [ask[t] EXCEPT !.stage = "ready", !.answer = "none", !.token = tok]
  <1>1. /\ UNCHANGED <<sessions, deleted, minted, remembered, view, mixed, hitches>>
        /\ ask[t].stage = "minted" /\ jar' = [jar EXCEPT !.csrf = there]
    BY DEF TokenComes
  <1>t. there \in Nat /\ there <= minted /\ tok \in Nat /\ tok <= minted
    BY OfOneTab DEF Asking, CookieJar
  <1>j. jar' \in CookieJar /\ jar'.session = jar.session /\ jar'.csrf = there
    BY <1>1, <1>t, OfOneTab DEF CookieJar
  <1>2. PICK a \in Asking :
           /\ a = a0
           /\ a.kind = ask[t].kind /\ a.user = ask[t].user /\ a.cookies = ask[t].cookies
           /\ a.who = ask[t].who /\ a.calm = ask[t].calm
           /\ a.stage = "ready" /\ a.answer = "none" /\ a.token = tok
    <2> HIDE DEF tok, there
    <2>1. a0 \in Asking
      BY <1>t, OfOneTab DEF Asking
    <2>2. /\ a0.kind = ask[t].kind /\ a0.user = ask[t].user /\ a0.cookies = ask[t].cookies
          /\ a0.who = ask[t].who /\ a0.calm = ask[t].calm
          /\ a0.stage = "ready" /\ a0.answer = "none" /\ a0.token = tok
      BY OfOneTab DEF Asking
    <2> HIDE DEF a0
    <2> QED
      BY <2>1, <2>2
  <1>3. AskIsOrderly(a, view[t])'
    BY <1>1, <1>2, OfOneTab DEF AskIsOrderly, Writing
  <1>4. TokenFollows(a)'
    <2>1. a.kind \in Writing /\ a.calm =>
             \/ set /\ ask[t].token # 0
             \/ ~set /\ ask[t].token = 0 /\ jar.csrf = 0 /\ Holder(jar.session) = NoVisitor
      BY <1>1, <1>2, OfOneTab DEF TokenFollows
    <2>2. Holder(jar.session)' = Holder(jar.session)
      BY <1>1, <1>j DEF Holder
    <2>3. a.kind \in Writing /\ a.calm =>
             jar'.csrf = tok /\ (tok = 0 => Holder(jar.session) = NoVisitor)
      BY <2>1, <1>j
    <2> QED
      BY <1>2, <2>2, <2>3 DEF TokenFollows
  <1>5. PageIsOfOwner(a, view[t])'
    BY <1>1, <1>2, <1>j, OfOneTab DEF PageIsOfOwner, Owner
  <1>6. CASE ~set
    <2>1. ask' = [ask EXCEPT ![t] = a] /\ jar' = jar
      <3>1. ask' = [ask EXCEPT ![t] = a0]
        BY <1>6, OfOneTab DEF TokenComes, Asking, WebIsTyped
      <3>2. jar' = jar
        BY <1>1, <1>6, OfOneTab DEF CookieJar
      <3> QED
        BY <3>1, <3>2, <1>2
    <2>2. /\ a.cookies.session <= Len(sessions') /\ a.cookies.csrf <= minted'
          /\ a.token <= minted' /\ minted <= minted'
      BY <1>1, <1>2, <1>t, OfOneTab
    <2> QED
      BY <1>1, <1>2, <1>3, <1>4, <1>5, <2>1, <2>2, OfOneTab, SessionsStay, OneAskGoesOn
      DEF WebIsTyped
  <1>7. CASE set
    <2>1. ask' = [Upset(t) EXCEPT ![t] = a]
      <3>1. ask' = [Upset(t) EXCEPT ![t] = [Upset(t)[t] EXCEPT !.stage = "ready",
                                              !.answer = "none", !.token = tok]]
        BY <1>7 DEF TokenComes, Upset
      <3>2. Upset(t)[t] = ask[t]
        BY OfOneTab DEF Upset, Asking
      <3> QED
        BY <3>1, <3>2, <1>2
    <2>2. /\ ask' \in [WebTabs -> Asking] /\ ask'[t] = a
          /\ \A u \in WebTabs \ {t} : /\ ask'[u] = [ask[u] EXCEPT !.calm = ask'[u].calm]
                                      /\ ask'[u].calm => ask[u].stage = "idle"
      BY <2>1, OthersAreUpset
    <2>7. /\ ask[t].stage # "body" /\ ask'[t].stage # "body"
          /\ view'[t].at = "away" \/ (view'[t].amid = view[t].amid /\ view[t].at # "away")
          /\ ask'[t].cookies.session <= Len(sessions) /\ ask'[t].cookies.csrf <= minted
          /\ ask'[t].token <= minted
      BY <1>1, <1>2, <1>t, <2>2, OfOneTab
    <2>8. AskIsOrderly(ask[t], view[t])' /\ TokenFollows(ask[t])' /\ PageIsOfOwner(ask[t], view[t])'
      BY <1>3, <1>4, <1>5, <2>2 DEF AskIsOrderly, TokenFollows, PageIsOfOwner, Owner, Holder
    <2> QED
      BY <1>1, <1>j, <1>t, <2>2, <2>7, <2>8, OfOneTab, CookiesChange DEF WebIsTyped
  <1> QED
    BY <1>6, <1>7

LEMMA NoAskingIsOrderly ==
  ASSUME NEW v \in Page
  PROVE  NoAsking \in Asking /\ AskIsOrderly(NoAsking, v)' /\ TokenFollows(NoAsking)'
  BY DEF NoAsking, Asking, AskIsOrderly, TokenFollows, Writing, Anybody, CookieJar

LEMMA AnswerComesIsSound ==
  ASSUME WebIInv, NEW t \in WebTabs, AnswerComes(t)
  PROVE  WebIInv'
  <1> DEFINE leaves == ask[t].answer = "done" /\ ask[t].kind \in {"logout", "delete"}
             out == ask[t].answer = "401" /\ view[t].at \in Clearing
  <1>1. /\ UNCHANGED <<sessions, deleted, minted, mixed, hitches>>
        /\ ask[t].stage = "answered"
        /\ remembered' = IF leaves \/ out THEN NoVisitor ELSE remembered
    BY DEF AnswerComes
  <1>2. PICK v \in Page : /\ view' = [view EXCEPT ![t] = v] /\ v.amid = view[t].amid
                          /\ v.user = (IF leaves \/ out THEN NoVisitor ELSE view[t].user)
                          /\ v.at = (IF leaves THEN "away" ELSE view[t].at)
    <2> DEFINE v == [view[t] EXCEPT !.user = IF leaves \/ out THEN NoVisitor ELSE view[t].user,
                                    !.at = IF leaves THEN "away" ELSE view[t].at]
    <2>1. view' = [view EXCEPT ![t] = v]
      BY OfOneTab DEF AnswerComes, Page, WebIsTyped
    <2> HIDE DEF leaves, out
    <2>2. v \in Page /\ v.amid = view[t].amid
          /\ v.user = (IF leaves \/ out THEN NoVisitor ELSE view[t].user)
          /\ v.at = (IF leaves THEN "away" ELSE view[t].at)
      BY OfOneTab DEF Page, Anybody
    <2> HIDE DEF v
    <2> QED
      BY <2>1, <2>2
  <1>3. NoAsking \in Asking /\ AskIsOrderly(NoAsking, v)' /\ TokenFollows(NoAsking)'
    BY NoAskingIsOrderly
  <1>4. /\ NoAsking.stage = "idle" /\ NoAsking.token = 0
        /\ NoAsking.cookies = [session |-> 0, csrf |-> 0]
    BY DEF NoAsking
  <1>5. CASE leaves /\ ask[t].kind = "logout"
    <2>1. jar' = [session |-> 0, csrf |-> 0] /\ ask' = [Upset(t) EXCEPT ![t] = NoAsking]
      BY <1>5 DEF AnswerComes
    <2>2. /\ ask' \in [WebTabs -> Asking] /\ ask'[t] = NoAsking
          /\ \A u \in WebTabs \ {t} : /\ ask'[u] = [ask[u] EXCEPT !.calm = ask'[u].calm]
                                      /\ ask'[u].calm => ask[u].stage = "idle"
      BY <2>1, <1>3, OthersAreUpset
    <2>3. /\ view' \in [WebTabs -> Page] /\ view'[t] = v
          /\ \A u \in WebTabs \ {t} : view'[u] = view[u]
      BY <1>2, OfOneTab DEF WebIsTyped
    <2>4. v.at = "away" /\ PageIsOfOwner(NoAsking, v)'
      BY <1>2, <1>5 DEF PageIsOfOwner
    <2>5. AskIsOrderly(ask[t], view[t])' /\ TokenFollows(ask[t])' /\ PageIsOfOwner(ask[t], view[t])'
      BY <1>3, <2>2, <2>3, <2>4 DEF AskIsOrderly, TokenFollows, PageIsOfOwner, Owner, Holder
    <2>6. jar' \in CookieJar /\ jar'.session = 0 /\ jar'.csrf <= minted
      BY <2>1, OfOneTab DEF CookieJar
    <2>7. /\ ask[t].stage # "body" /\ ask'[t].stage # "body" /\ view'[t].at = "away"
          /\ ask'[t].cookies.session <= Len(sessions) /\ ask'[t].cookies.csrf <= minted
          /\ ask'[t].token <= minted
      BY <1>1, <1>4, <2>2, <2>3, <2>4, OfOneTab
    <2> QED
      BY <1>1, <2>2, <2>3, <2>5, <2>6, <2>7, OfOneTab, CookiesChange DEF WebIsTyped
  <1>6. CASE ~(leaves /\ ask[t].kind = "logout")
    <2>1. jar' = jar /\ ask' = [ask EXCEPT ![t] = NoAsking]
      BY <1>6 DEF AnswerComes
    <2>2. PageIsOfOwner(NoAsking, v)'
      BY <1>1, <1>2, <1>4, <2>1, OfOneTab DEF PageIsOfOwner, Owner
    <2>3. \A u \in WebTabs \ {t} : ask[u].stage = "body" => v.at = "away" \/ v.amid
      BY <1>2, OfOneTab DEF BodyIsDue
    <2>4. /\ NoAsking.cookies.session <= Len(sessions') /\ NoAsking.cookies.csrf <= minted'
          /\ NoAsking.token <= minted' /\ minted <= minted'
      BY <1>1, <1>4, OfOneTab
    <2> QED
      BY <1>1, <1>2, <1>3, <1>4, <2>1, <2>2, <2>3, <2>4, OfOneTab, SessionsStay, OneTabGoesOn
      DEF WebIsTyped
  <1> QED
    BY <1>5, <1>6

LEMMA CookieLostIsSound ==
  ASSUME WebIInv, CookieLost
  PROVE  WebIInv'
  <1>1. /\ UNCHANGED <<sessions, deleted, minted, remembered, view, mixed>>
        /\ jar' = [jar EXCEPT !.csrf = 0]
        /\ ask' = [t \in WebTabs |-> [ask[t] EXCEPT !.calm = ask[t].stage = "idle"]]
        /\ hitches < MaxHitches /\ hitches' = hitches + 1
    BY DEF CookieLost
  <1>t. WebIsTyped
    BY DEF WebIInv
  <1>2. jar' \in CookieJar /\ jar'.session = jar.session /\ jar'.csrf <= minted
    BY <1>1, <1>t DEF WebIsTyped, CookieJar
  <1>3. \A u \in WebTabs : /\ ask'[u] = [ask[u] EXCEPT !.calm = ask'[u].calm]
                           /\ ask'[u].calm => ask[u].stage = "idle"
                           /\ ask'[u] \in Asking
    <2>1. ASSUME NEW u \in WebTabs
          PROVE  /\ ask'[u] = [ask[u] EXCEPT !.calm = ask'[u].calm]
                 /\ ask'[u].calm => ask[u].stage = "idle"
                 /\ ask'[u] \in Asking
      <3>1. ask'[u] = [ask[u] EXCEPT !.calm = (ask[u].stage = "idle")]
        BY <1>1
      <3>2. ask'[u].calm = (ask[u].stage = "idle")
        BY <3>1, OfOneTab DEF Asking
      <3> QED
        BY <3>1, <3>2, OfOneTab DEF Asking
    <2> QED
      BY <2>1
  <1>4. ask' \in [WebTabs -> Asking] /\ view' \in [WebTabs -> Page]
    BY <1>1, <1>3, <1>t DEF WebIsTyped
  <1>5. hitches' \in 0..MaxHitches
    BY <1>1, <1>t, WebParameters DEF WebIsTyped
  <1> QED
    BY <1>1, <1>2, <1>3, <1>4, <1>5, CookiesChange

\* Nothing changes but sessions, and no longer calls than before.
LEMMA RevokedElsewhereIsSound ==
  ASSUME WebIInv, NEW s \in 1..MaxSignIns, RevokedElsewhere(s)
  PROVE  WebIInv'
  <1>1. /\ UNCHANGED <<deleted, minted, jar, remembered, view, ask, mixed>>
        /\ hitches < MaxHitches /\ hitches' = hitches + 1 /\ s \in DOMAIN sessions
        /\ sessions' = [sessions EXCEPT ![s].live = FALSE]
    BY DEF RevokedElsewhere
  <1>t. WebIsTyped /\ Len(sessions) \in Nat
    BY DEF WebIInv, WebIsTyped
  <1>2. sessions' \in Seq(Session) /\ Len(sessions') = Len(sessions) /\ SessionsGoOn
    <2>1. \A i \in 1..Len(sessions) : sessions[i] \in Session
      BY <1>t DEF WebIsTyped
    <2>2. [sessions[s] EXCEPT !.live = FALSE] \in Session
          /\ [sessions[s] EXCEPT !.live = FALSE].user = sessions[s].user
          /\ ~[sessions[s] EXCEPT !.live = FALSE].live
      <3>1. sessions[s] \in Session
        BY <1>1, <1>t, <2>1 DEF WebIsTyped
      <3> QED
        BY <3>1 DEF Session
    <2>3. sessions' = [sessions EXCEPT ![s] = [sessions[s] EXCEPT !.live = FALSE]]
      BY <1>1
    <2>4. sessions' \in Seq(Session) /\ Len(sessions') = Len(sessions)
      BY <2>2, <2>3, <1>1, <1>t DEF WebIsTyped
    <2>5. \A i \in 1..Len(sessions) : /\ sessions'[i].user = sessions[i].user
                                      /\ sessions'[i].live => sessions[i].live
      BY <2>2, <2>3, <1>1, <1>t DEF WebIsTyped
    <2> QED
      BY <2>4, <2>5, <1>t DEF SessionsGoOn
  <1>3. WebIsTyped'
    <2>1. hitches' \in 0..MaxHitches
      BY <1>1, <1>t, WebParameters DEF WebIsTyped
    <2> QED
      BY <1>1, <1>2, <1>t, <2>1 DEF WebIsTyped
  <1>4. jar.session # 0 => sessions'[jar.session].user = sessions[jar.session].user
    BY <1>2, <1>t DEF SessionsGoOn, WebIsTyped, CookieJar
  <1>5. JarIsRemembered'
    BY <1>1, <1>4 DEF WebIInv, JarIsRemembered, Owner
  <1>6. ASSUME NEW u \in WebTabs PROVE TabIsSound(u)'
    <2>1. BodyIsDue(u)'
      BY <1>1, <1>4, OfOneTab DEF BodyIsDue, Owner
    <2>2. PICK a \in Asking : a = ask[u]
      BY OfOneTab
    <2>3. PICK v \in Page : v = view[u]
      BY OfOneTab
    <2>4. AskIsOrderly(a, v) /\ TokenFollows(a) /\ PageIsOfOwner(a, v)
          /\ a.cookies.session <= Len(sessions)
      BY <2>2, <2>3, OfOneTab
    <2>5. AskIsOrderly(a, v)' /\ TokenFollows(a)' /\ PageIsOfOwner(a, v)'
      BY <2>4, <1>1, <1>2, <1>t, SaidStaysSaid
    <2>6. a = ask'[u] /\ v = view'[u]
      BY <1>1, <2>2, <2>3
    <2> QED
      BY <2>1, <2>5, <2>6
      DEF TabIsSound, AskIsOrderly, TokenFollows, PageIsOfOwner, Owner, Holder
  <1> QED
    BY <1>3, <1>5, <1>6 DEF WebIInv

\* Sessions are the same, and the cookies, or nobody can tell sign-ins apart any more.
LEMMA OthersStaySaid ==
  ASSUME WebIInv, NEW u \in WebTabs, sessions' = sessions, ask'[u] = ask[u],
         view'[u] = view[u], jar' = jar, mixed' \in {mixed, TRUE}
  PROVE  /\ AskIsOrderly(ask[u], view[u])' /\ TokenFollows(ask[u])'
         /\ PageIsOfOwner(ask[u], view[u])'
  <1>1. AskIsOrderly(ask[u], view[u])'
    BY OfOneTab DEF AskIsOrderly, Owner
  <1>2. TokenFollows(ask[u])'
    BY OfOneTab DEF TokenFollows, Holder
  <1>3. PageIsOfOwner(ask[u], view[u])'
    <2>1. PageIsOfOwner(ask[u], view[u])
      BY OfOneTab
    <2>2. ~mixed' => ~mixed
      OBVIOUS
    <2> QED
      BY <2>1, <2>2 DEF PageIsOfOwner, Owner
  <1> QED
    BY <1>1, <1>2, <1>3

LEMMA FailsIsSound ==
  ASSUME WebIInv, NEW t \in WebTabs, Fails(t)
  PROVE  WebIInv'
  <1>1. /\ UNCHANGED <<sessions, deleted, minted, jar, remembered, view>>
        /\ hitches < MaxHitches /\ hitches' = hitches + 1
        /\ mixed' = (mixed \/ ask[t].stage = "body")
        /\ ask[t].stage \notin {"idle", "minting", "ready"}
    BY DEF Fails
  <1>h. hitches' \in 0..MaxHitches /\ mixed' \in BOOLEAN
    BY <1>1, WebParameters, OfOneTab DEF WebIsTyped
  <1>n. /\ NoAsking.stage = "idle" /\ NoAsking.token = 0
        /\ NoAsking.cookies = [session |-> 0, csrf |-> 0]
    BY DEF NoAsking
  <1>2. CASE ask[t].stage \in {"mint", "minted"}
    <2>1. PICK a \in Asking :
             /\ ask' = [ask EXCEPT ![t] = a]
             /\ a.kind = ask[t].kind /\ a.user = ask[t].user /\ a.cookies = ask[t].cookies
             /\ a.stage = "ready" /\ a.answer = "none" /\ a.token = jar.csrf /\ ~a.calm
      <3> DEFINE a == [ask[t] EXCEPT !.stage = "ready", !.answer = "none", !.token = jar.csrf,
                                     !.calm = FALSE]
      <3>1. ask' = [ask EXCEPT ![t] = a]
        BY <1>2 DEF Fails
      <3>2. a \in Asking
        BY OfOneTab DEF Asking, CookieJar
      <3>3. /\ a.kind = ask[t].kind /\ a.user = ask[t].user /\ a.cookies = ask[t].cookies
            /\ a.stage = "ready" /\ a.answer = "none" /\ a.token = jar.csrf /\ ~a.calm
        BY OfOneTab DEF Asking
      <3> HIDE DEF a
      <3> QED
        BY <3>1, <3>2, <3>3
    <2>2. AskIsOrderly(a, view[t])'
      BY <1>1, <1>2, <2>1, OfOneTab DEF AskIsOrderly, Writing
    <2>3. TokenFollows(a)'
      BY <2>1 DEF TokenFollows
    <2>4. PageIsOfOwner(a, view[t])'
      BY <1>1, <1>2, <2>1, OfOneTab DEF PageIsOfOwner, Owner
    <2>5. mixed' = mixed
      BY <1>1, <1>2, OfOneTab DEF WebIsTyped
    <2>6. /\ a.cookies.session <= Len(sessions') /\ a.cookies.csrf <= minted'
          /\ a.token <= minted' /\ minted <= minted'
      BY <1>1, <2>1, OfOneTab
    <2> QED
      BY <1>1, <1>2, <1>h, <2>1, <2>2, <2>3, <2>4, <2>5, <2>6, OfOneTab, SessionsStay, OneAskGoesOn
      DEF WebIsTyped
  <1>3. CASE ask[t].stage \notin {"mint", "minted"}
    <2>1. ask' = [ask EXCEPT ![t] = NoAsking]
      BY <1>3 DEF Fails
    <2>2. PICK v \in Page : v = view[t]
      BY OfOneTab
    <2>3. NoAsking \in Asking /\ AskIsOrderly(NoAsking, v)' /\ TokenFollows(NoAsking)'
      BY NoAskingIsOrderly
    <2>4. AskIsOrderly(NoAsking, view[t])'
      BY <1>1, <2>2, <2>3 DEF AskIsOrderly, Owner
    <2>5. PageIsOfOwner(NoAsking, view[t])'
      BY <1>1, <1>n, OfOneTab DEF PageIsOfOwner, Owner
    <2>6. /\ NoAsking.cookies.session <= Len(sessions') /\ NoAsking.cookies.csrf <= minted'
          /\ NoAsking.token <= minted' /\ minted <= minted'
      BY <1>1, <1>n, OfOneTab
    <2>7. CASE ask[t].stage # "body"
      <3>1. mixed' = mixed
        BY <1>1, <2>7, OfOneTab DEF WebIsTyped
      <3> QED
        BY <1>1, <1>h, <1>n, <2>1, <2>3, <2>4, <2>5, <2>6, <2>7, <3>1, OfOneTab, SessionsStay,
           OneAskGoesOn
        DEF WebIsTyped
    <2>8. CASE ask[t].stage = "body"
      <3>1. mixed' = TRUE
        BY <1>1, <2>8
      <3>2. \A u \in WebTabs : ask'[u] = IF u = t THEN NoAsking ELSE ask[u]
        BY <2>1, OfOneTab DEF WebIsTyped
      <3>3. WebIsTyped'
        <4>1. ask' \in [WebTabs -> Asking]
          BY <2>1, <2>3, OfOneTab DEF WebIsTyped
        <4>2. \A u \in WebTabs : /\ ask'[u].cookies.session <= Len(sessions)
                                 /\ ask'[u].cookies.csrf <= minted /\ ask'[u].token <= minted
          BY <3>2, <1>1, <2>6, OfOneTab
        <4> QED
          BY <1>1, <1>h, <4>1, <4>2, OfOneTab DEF WebIsTyped
      <3>4. JarIsRemembered'
        BY <3>1 DEF JarIsRemembered
      <3>5. ASSUME NEW u \in WebTabs PROVE TabIsSound(u)'
        <4>1. BodyIsDue(u)'
          BY <1>1, <1>n, <3>1, <3>2, OfOneTab DEF BodyIsDue
        <4>2. CASE u = t
          <5>1. ask'[u] = NoAsking
            BY <3>2, <4>2
          <5> QED
            BY <2>3, <2>4, <2>5, <4>1, <4>2, <5>1
            DEF TabIsSound, AskIsOrderly, TokenFollows, PageIsOfOwner, Owner, Holder
        <4>3. CASE u # t
          <5>1. AskIsOrderly(ask[u], view[u])' /\ TokenFollows(ask[u])'
                /\ PageIsOfOwner(ask[u], view[u])'
            BY <1>1, <3>1, <3>2, <4>3, OthersStaySaid
          <5> QED
            BY <4>1, <5>1 DEF TabIsSound
        <4> QED
          BY <4>2, <4>3
      <3> QED
        BY <3>3, <3>4, <3>5 DEF WebIInv
    <2> QED
      BY <2>7, <2>8
  <1> QED
    BY <1>2, <1>3

LEMMA CookiesComeIsSound ==
  ASSUME WebIInv, NEW t \in WebTabs, CookiesCome(t)
  PROVE  WebIInv'
  <1>1. /\ UNCHANGED <<sessions, deleted, minted, remembered, hitches>>
        /\ ask[t].stage = "answered" /\ ask[t].kind = "login" /\ ask[t].answer = "done"
        /\ jar' = ask[t].cookies
        /\ mixed' = (mixed \/ SigningIn(t) # {})
        /\ view' = [u \in WebTabs |->
                      [view[u] EXCEPT !.amid = view[u].amid \/ (u # t /\ view[u].at # "away")]]
    BY DEF CookiesCome
  <1>2. /\ view[t].at = "away" /\ jar' \in CookieJar /\ jar'.session # 0
        /\ Owner(jar'.session) = ask[t].user
        /\ jar'.session <= Len(sessions) /\ jar'.csrf <= minted
    BY <1>1, OfOneTab DEF AskIsOrderly, Asking
  <1>3. PICK a \in Asking :
           /\ ask' = [Upset(t) EXCEPT ![t] = a]
           /\ a.kind = "login" /\ a.user = ask[t].user /\ a.cookies = ask[t].cookies
           /\ a.token = ask[t].token /\ a.answer = "done" /\ a.stage = "body"
    <2> DEFINE a == [ask[t] EXCEPT !.stage = "body"]
    <2>1. Upset(t)[t] = ask[t]
      BY DEF Upset
    <2>2. ask' = [Upset(t) EXCEPT ![t] = a]
      BY <2>1 DEF CookiesCome, Upset
    <2>3. a \in Asking
      BY OfOneTab DEF Asking
    <2>4. /\ a.kind = "login" /\ a.user = ask[t].user /\ a.cookies = ask[t].cookies
          /\ a.token = ask[t].token /\ a.answer = "done" /\ a.stage = "body"
      BY <1>1, OfOneTab DEF Asking
    <2> HIDE DEF a
    <2> QED
      BY <2>2, <2>3, <2>4
  <1>4. /\ ask' \in [WebTabs -> Asking] /\ ask'[t] = a
        /\ \A u \in WebTabs \ {t} : /\ ask'[u] = [ask[u] EXCEPT !.calm = ask'[u].calm]
                                    /\ ask'[u].calm => ask[u].stage = "idle"
    BY <1>3, OthersAreUpset
  <1>5. ASSUME NEW u \in WebTabs
        PROVE  /\ view'[u] \in Page /\ view'[u].at = view[u].at
               /\ u # t /\ view'[u].at # "away" => view'[u].amid
    <2>1. CASE u # t /\ view[u].at # "away"
      <3>1. view'[u] = [view[u] EXCEPT !.amid = TRUE]
        BY <1>1, <2>1
      <3> QED
        BY <3>1, <2>1, OfOneTab DEF Page
    <2>2. CASE ~(u # t /\ view[u].at # "away")
      <3>1. view'[u] = [view[u] EXCEPT !.amid = view[u].amid]
        BY <1>1, <2>2, OfOneTab DEF Page
      <3> QED
        BY <3>1, <2>2, <1>2, OfOneTab DEF Page
    <2> QED
      BY <2>1, <2>2
  <1>6. ASSUME NEW u \in WebTabs \ {t}
        PROVE  /\ ask'[u].stage = ask[u].stage /\ ask'[u].cookies = ask[u].cookies
               /\ ask'[u].token = ask[u].token /\ ask'[u].kind = ask[u].kind
    BY <1>4, OfOneTab DEF Asking
  <1>7. WebIsTyped'
    <2>1. \A u \in WebTabs : /\ ask'[u].cookies.session <= Len(sessions)
                             /\ ask'[u].cookies.csrf <= minted /\ ask'[u].token <= minted
      BY <1>3, <1>4, <1>6, OfOneTab
    <2>2. view' \in [WebTabs -> Page]
      BY <1>1, <1>5
    <2>3. mixed' \in BOOLEAN
      BY <1>1
    <2> QED
      BY <1>1, <1>2, <1>4, <2>1, <2>2, <2>3, OfOneTab DEF WebIsTyped
  <1>8. JarIsRemembered'
    BY <1>3, <1>4 DEF JarIsRemembered
  <1>9. mixed' \/ \A u \in WebTabs \ {t} : ask[u].stage # "body"
    BY <1>1, NobodySignsIn
  <1>10. ASSUME NEW u \in WebTabs PROVE BodyIsDue(u)'
    <2>1. CASE u = t
      <3>1. \A w \in WebTabs \ {u} : view'[w].at # "away" => view'[w].amid
        BY <1>5, <2>1
      <3>2. jar'.session = ask'[u].cookies.session
        BY <1>1, <1>3, <1>4, <2>1
      <3>3. sessions'[jar'.session].user = ask'[u].user
        BY <1>1, <1>2, <1>3, <1>4, <2>1 DEF Owner
      <3>4. ~mixed' => \A w \in WebTabs \ {u} : ask'[w].stage # "body"
        BY <1>6, <1>9, <2>1
      <3> QED
        BY <3>1, <3>2, <3>3, <3>4 DEF BodyIsDue, Owner
    <2>2. CASE u # t
      <3> SUFFICES ASSUME ask'[u].stage = "body" PROVE BodyIsDue(u)'
          BY DEF BodyIsDue
      <3>1. ask[u].stage = "body" /\ ~ask'[u].calm
        BY <1>4, <1>6, <2>2
      <3>2. \A w \in WebTabs \ {u} : view'[w].at # "away" => view'[w].amid
        BY <1>2, <1>5
      <3>3. mixed'
        BY <1>9, <2>2, <3>1
      <3> QED
        BY <3>1, <3>2, <3>3 DEF BodyIsDue
    <2> QED
      BY <2>1, <2>2
  <1>11. ASSUME NEW u \in WebTabs
         PROVE  AskIsOrderly(ask[u], view[u])' /\ TokenFollows(ask[u])'
                /\ PageIsOfOwner(ask[u], view[u])'
    <2>1. PageIsOfOwner(ask[u], view[u])'
      BY <1>2, <1>5 DEF PageIsOfOwner
    <2>2. CASE u = t
      <3>1. ask'[u] = a /\ view'[u].at = "away"
        BY <1>2, <1>4, <1>5, <2>2
      <3>2. a.user # NoVisitor /\ a.cookies.session # 0 /\ sessions'[a.cookies.session].user = a.user
        BY <1>1, <1>2, <1>3, OfOneTab DEF AskIsOrderly, Owner
      <3> QED
        BY <1>3, <2>1, <3>1, <3>2 DEF AskIsOrderly, TokenFollows, Owner, Writing
    <2>3. CASE u # t
      <3>1. PICK b \in Asking : b = ask'[u]
        BY <1>4
      <3>2. PICK c \in Asking : c = ask[u]
        BY OfOneTab
      <3>3. PICK v \in Page : v = view[u]
        BY OfOneTab
      <3>4. AskIsOrderly(b, v)' /\ TokenFollows(b)'
        BY <1>1, <1>4, <2>3, <3>1, <3>2, <3>3, OfOneTab, UpsetIsSaid
      <3>5. b = ask'[u] /\ v.at = view'[u].at
        BY <3>1, <3>3, <1>5
      <3> QED
        BY <2>1, <3>4, <3>5 DEF AskIsOrderly, TokenFollows, Owner, Holder
    <2> QED
      BY <2>2, <2>3
  <1> QED
    BY <1>7, <1>8, <1>10, <1>11 DEF WebIInv, TabIsSound

LEMMA BodyComesIsSound ==
  ASSUME WebIInv, NEW t \in WebTabs, BodyComes(t)
  PROVE  WebIInv'
  <1> DEFINE v == [at |-> "away", user |-> NoVisitor, amid |-> FALSE]
  <1>1. /\ UNCHANGED <<sessions, deleted, minted, jar, hitches>>
        /\ ask[t].stage = "body" /\ remembered' = ask[t].user
        /\ mixed' = (mixed /\ ~(ask[t].calm /\ SigningIn(t) = {}))
        /\ view' = [view EXCEPT ![t] = v] /\ ask' = [ask EXCEPT ![t] = NoAsking]
    BY DEF BodyComes
  <1>2. v \in Page /\ NoAsking \in Asking
    <2>1. v \in Page
      BY DEF Page, Anybody
    <2> QED
      BY <2>1, NoAskingIsOrderly
  <1>n. /\ NoAsking.stage = "idle" /\ NoAsking.token = 0
        /\ NoAsking.cookies = [session |-> 0, csrf |-> 0]
    BY DEF NoAsking
  <1>3. /\ \A u \in WebTabs : ask'[u] = IF u = t THEN NoAsking ELSE ask[u]
        /\ \A u \in WebTabs : view'[u] = IF u = t THEN v ELSE view[u]
        /\ ask' \in [WebTabs -> Asking] /\ view' \in [WebTabs -> Page]
    BY <1>1, <1>2, OfOneTab DEF WebIsTyped
  <1>4. WebIsTyped'
    <2>1. \A u \in WebTabs : /\ ask'[u].cookies.session <= Len(sessions)
                             /\ ask'[u].cookies.csrf <= minted /\ ask'[u].token <= minted
      BY <1>3, <1>n, OfOneTab
    <2>2. mixed' \in BOOLEAN /\ remembered' \in Anybody
      BY <1>1, OfOneTab DEF Asking
    <2> QED
      BY <1>1, <1>3, <2>1, <2>2, OfOneTab DEF WebIsTyped
  <1>5. \A u \in WebTabs \ {t} : view[u].at # "away" => view[u].amid
    BY <1>1, OfOneTab DEF BodyIsDue
  <1>6. ~mixed' =>
           /\ jar.session # 0 => Owner(jar.session) = ask[t].user
           /\ \A u \in WebTabs \ {t} : ask[u].stage # "body"
    <2>1. CASE ~mixed
      BY <1>1, <2>1, OfOneTab DEF BodyIsDue
    <2>2. CASE ask[t].calm /\ SigningIn(t) = {}
      <3>1. jar.session = ask[t].cookies.session /\ Owner(ask[t].cookies.session) = ask[t].user
        BY <1>1, <2>2, OfOneTab DEF BodyIsDue, AskIsOrderly
      <3> QED
        BY <2>2, <3>1, NobodySignsIn
    <2> QED
      BY <1>1, <2>1, <2>2
  <1>7. JarIsRemembered'
    BY <1>1, <1>6 DEF JarIsRemembered, Owner
  <1>8. ASSUME NEW u \in WebTabs PROVE TabIsSound(u)'
    <2>1. BodyIsDue(u)'
      <3> SUFFICES ASSUME ask'[u].stage = "body" PROVE BodyIsDue(u)'
          BY DEF BodyIsDue
      <3>1. u # t /\ ask'[u] = ask[u]
        BY <1>3, <1>n
      <3>2. mixed'
        BY <1>6, <3>1
      <3>3. \A w \in WebTabs \ {u} : view'[w].at # "away" => view'[w].amid
        BY <1>3, <1>5
      <3>4. ask'[u].calm => jar'.session = ask'[u].cookies.session
        BY <1>1, <3>1, OfOneTab DEF BodyIsDue
      <3> QED
        BY <3>2, <3>3, <3>4 DEF BodyIsDue
    <2>2. PageIsOfOwner(ask[u], view[u])'
      <3>1. view'[u].at = "away" \/ view'[u].amid
        BY <1>3, <1>5
      <3> QED
        BY <3>1 DEF PageIsOfOwner
    <2>3. AskIsOrderly(ask[u], view[u])' /\ TokenFollows(ask[u])'
      <3>1. CASE u = t
        <4>1. PICK w \in Page : w = v
          BY <1>2
        <4>2. AskIsOrderly(NoAsking, w)' /\ TokenFollows(NoAsking)'
          BY NoAskingIsOrderly
        <4>3. ask'[u] = NoAsking /\ view'[u] = w
          BY <1>3, <3>1, <4>1
        <4> QED
          BY <4>2, <4>3 DEF AskIsOrderly, TokenFollows, Owner, Holder
      <3>2. CASE u # t
        <4>1. ask'[u] = ask[u] /\ view'[u] = view[u]
          BY <1>3, <3>2
        <4>2. AskIsOrderly(ask[u], view[u])'
          BY <1>1, <4>1, OfOneTab DEF AskIsOrderly, Owner
        <4>3. TokenFollows(ask[u])'
          BY <1>1, <4>1, OfOneTab DEF TokenFollows, Holder
        <4> QED
          BY <4>2, <4>3
      <3> QED
        BY <3>1, <3>2
    <2> QED
      BY <2>1, <2>2, <2>3 DEF TabIsSound
  <1> QED
    BY <1>4, <1>7, <1>8 DEF WebIInv
-----------------------------------------------------------------------------
(* WebSession: the page a buyer returns to.                                *)

PaymentReads == {"pending", "paid", "expired", "refunded"}

ReturnIsTyped ==
    /\ bought \in PaymentReads /\ polls \in Seq(PaymentReads \cup {"unread"})
    /\ back \in [state : {"away", "verifying", "paid", "failed", "pending"},
                 ticks : 0..MaxTicks, paid : BOOLEAN, late : BOOLEAN]
    /\ Len(polls) <= MaxTicks
    /\ IF back.state = "away" THEN polls = <<>> /\ ~back.paid ELSE Len(polls) <= back.ticks + 1

\* Nothing says paid of a payment that never was.
PaidWasPaid ==
    \/ bought \in {"paid", "refunded"}
    \/ back.state # "paid" /\ ~back.paid /\ \A i \in 1..Len(polls) : polls[i] # "paid"

\* The answers are read in the order they were asked for, and what follows one that
\* says paid says so too.
AnswersInOrder ==
    ~back.late =>
      /\ \A i, j \in 1..Len(polls) : i < j /\ polls[i] = "unread" => polls[j] = "unread"
      /\ bought = "paid" =>
           /\ back.paid => /\ back.state = "paid"
                           /\ \A i \in 1..Len(polls) : polls[i] \in {"paid", "unread"}
           /\ \A i, j \in 1..Len(polls) :
                 i < j /\ polls[i] = "paid" => polls[j] \in {"paid", "unread"}

ReturnIInv == ReturnIsTyped /\ PaidWasPaid /\ AnswersInOrder

\* An answer leaves the list, and the others close up.
LEMMA OneAnswerLess ==
  ASSUME NEW S, polls \in Seq(S), NEW i \in 1..Len(polls)
  PROVE  /\ Without(i) \in Seq(S) /\ Len(Without(i)) = Len(polls) - 1
         /\ \A j \in 1..Len(Without(i)) :
               Without(i)[j] = polls[IF j < i THEN j ELSE j + 1]
  <1>1. Len(polls) \in Nat
    OBVIOUS
  <1> DEFINE p == SubSeq(polls, 1, i - 1)
             q == SubSeq(polls, i + 1, Len(polls))
  <1>2. p \in Seq(S) /\ Len(p) = i - 1 /\ \A j \in 1..(i - 1) : p[j] = polls[j]
    BY <1>1
  <1>3. /\ q \in Seq(S) /\ Len(q) = Len(polls) - i
        /\ \A j \in 1..(Len(polls) - i) : q[j] = polls[i + j]
    BY <1>1
  <1> HIDE DEF p, q
  <1>4. /\ p \o q \in Seq(S) /\ Len(p \o q) = Len(p) + Len(q)
        /\ \A j \in 1..(Len(p) + Len(q)) : (p \o q)[j] = IF j <= Len(p) THEN p[j] ELSE q[j - Len(p)]
    BY <1>2, <1>3, ConcatProperties
  <1>5. Without(i) = p \o q
    BY DEF Without, p, q
  <1>6. ASSUME NEW j \in 1..Len(p \o q) PROVE (p \o q)[j] = polls[IF j < i THEN j ELSE j + 1]
    <2>1. CASE j < i
      BY <2>1, <1>1, <1>2, <1>3, <1>4
    <2>2. CASE j >= i
      <3>1. (p \o q)[j] = q[j - (i - 1)] /\ j - (i - 1) \in 1..(Len(polls) - i)
        BY <2>2, <1>1, <1>2, <1>3, <1>4
      <3>2. q[j - (i - 1)] = polls[i + (j - (i - 1))]
        BY <3>1, <1>3
      <3>3. i + (j - (i - 1)) = j + 1 /\ ~(j < i)
        BY <2>2, <1>1
      <3> QED
        BY <3>1, <3>2, <3>3
    <2> QED
      BY <2>1, <2>2, <1>1
  <1>7. Len(p \o q) = Len(polls) - 1
    BY <1>1, <1>2, <1>3, <1>4
  <1> QED
    BY <1>4, <1>5, <1>6, <1>7

LEMMA ReturnInitIsSound == SessionInit => ReturnIInv
  BY WebParameters
  DEF SessionInit, ReturnIInv, ReturnIsTyped, PaidWasPaid, AnswersInOrder, PaymentReads

LEMMA ReturnTyped ==
  ASSUME ReturnIInv
  PROVE  /\ Len(polls) \in Nat /\ DOMAIN polls = 1..Len(polls) /\ back.ticks \in 0..MaxTicks
         /\ MaxTicks \in Nat \ {0} /\ back.paid \in BOOLEAN /\ back.late \in BOOLEAN
         /\ \A i \in 1..Len(polls) : polls[i] \in PaymentReads \cup {"unread"}
  BY WebParameters DEF ReturnIInv, ReturnIsTyped

\* An answer, or a request that failed, leaves the list.
LEMMA ListGetsShorter ==
  ASSUME ReturnIInv, NEW i \in 1..Len(polls), polls' = Without(i), bought' = bought,
         NEW st \in {"verifying", "paid", "failed", "pending"}, NEW pd \in BOOLEAN,
         NEW lt \in BOOLEAN,
         back' = [state |-> st, ticks |-> back.ticks, paid |-> pd, late |-> lt],
         st = "paid" => pd, pd => back.paid \/ polls[i] = "paid",
         ~lt => /\ i = 1 /\ ~back.late /\ polls[1] # "unread" /\ (back.paid => pd)
                /\ (pd <=> back.paid \/ polls[1] = "paid") /\ (st = "paid" <=> polls[1] = "paid")
  PROVE  ReturnIInv'
  <1>0. /\ Len(polls) \in Nat /\ DOMAIN polls = 1..Len(polls) /\ back.ticks \in 0..MaxTicks
        /\ MaxTicks \in Nat \ {0} /\ polls \in Seq(PaymentReads \cup {"unread"})
    BY ReturnTyped DEF ReturnIInv, ReturnIsTyped
  <1>1. /\ polls' \in Seq(PaymentReads \cup {"unread"}) /\ Len(polls') = Len(polls) - 1
        /\ \A j \in 1..Len(polls') : polls'[j] = polls[IF j < i THEN j ELSE j + 1]
    BY <1>0, OneAnswerLess
  <1>2. \A j \in 1..Len(polls') : \E k \in 1..Len(polls) : polls'[j] = polls[k] /\ (i = 1 => k = j + 1)
    BY <1>0, <1>1
  <1>3. /\ back'.state = st /\ back'.ticks = back.ticks /\ back'.paid = pd /\ back'.late = lt
        /\ st # "away"
    OBVIOUS
  <1>4. back.state # "away" /\ Len(polls) <= MaxTicks /\ Len(polls) <= back.ticks + 1
    <2>1. back.state = "away" => polls = <<>>
      BY DEF ReturnIInv, ReturnIsTyped
    <2>2. polls # <<>>
      BY <1>0
    <2> QED
      BY <2>1, <2>2 DEF ReturnIInv, ReturnIsTyped
  <1>5. ReturnIsTyped'
    BY <1>0, <1>1, <1>3, <1>4 DEF ReturnIInv, ReturnIsTyped
  <1>6. PaidWasPaid'
    <2>1. CASE bought \in {"paid", "refunded"}
      BY <2>1 DEF PaidWasPaid
    <2>2. CASE bought \notin {"paid", "refunded"}
      <3>1. ~back.paid /\ \A k \in 1..Len(polls) : polls[k] # "paid"
        BY <2>2 DEF ReturnIInv, PaidWasPaid
      <3>2. ~pd /\ st # "paid" /\ \A j \in 1..Len(polls') : polls'[j] # "paid"
        BY <3>1, <1>2
      <3> QED
        BY <3>2, <1>3 DEF PaidWasPaid
    <2> QED
      BY <2>1, <2>2
  <1>7. AnswersInOrder'
    <2> SUFFICES ASSUME ~lt PROVE AnswersInOrder'
        BY <1>3 DEF AnswersInOrder
    <2>1. i = 1 /\ ~back.late
      OBVIOUS
    <2>2. \A j \in 1..Len(polls') : j + 1 \in 1..Len(polls) /\ polls'[j] = polls[j + 1]
      BY <1>0, <1>1, <2>1
    <2>3. \A a, b \in 1..Len(polls') : a < b /\ polls'[a] = "unread" => polls'[b] = "unread"
      <3> SUFFICES ASSUME NEW a \in 1..Len(polls'), NEW b \in 1..Len(polls'), a < b,
                          polls'[a] = "unread"
                   PROVE  polls'[b] = "unread"
          OBVIOUS
      <3>1. a + 1 < b + 1
        BY <1>1
      <3> QED
        BY <3>1, <2>1, <2>2 DEF ReturnIInv, AnswersInOrder
    <2>4. CASE bought = "paid"
      <3>1. \A a, b \in 1..Len(polls') :
               a < b /\ polls'[a] = "paid" => polls'[b] \in {"paid", "unread"}
        <4> SUFFICES ASSUME NEW a \in 1..Len(polls'), NEW b \in 1..Len(polls'), a < b,
                            polls'[a] = "paid"
                     PROVE  polls'[b] \in {"paid", "unread"}
            OBVIOUS
        <4>1. a + 1 < b + 1
          BY <1>1
        <4> QED
          BY <4>1, <2>1, <2>2, <2>4 DEF ReturnIInv, AnswersInOrder
      <3>2. pd => polls[1] = "paid"
        BY <2>1, <2>4, <1>0 DEF ReturnIInv, AnswersInOrder
      <3>3. pd => \A j \in 1..Len(polls') : polls'[j] \in {"paid", "unread"}
        <4> SUFFICES ASSUME pd, NEW j \in 1..Len(polls') PROVE polls'[j] \in {"paid", "unread"}
            OBVIOUS
        <4>1. 1 < j + 1 /\ 1 \in 1..Len(polls)
          BY <1>0, <1>1
        <4> QED
          BY <4>1, <3>2, <2>1, <2>2, <2>4 DEF ReturnIInv, AnswersInOrder
      <3> QED
        BY <1>3, <2>3, <3>1, <3>2, <3>3 DEF AnswersInOrder
    <2>5. CASE bought # "paid"
      BY <2>3, <2>5 DEF AnswersInOrder
    <2> QED
      BY <2>4, <2>5
  <1> QED
    BY <1>5, <1>6, <1>7 DEF ReturnIInv

LEMMA ReturnStepIsSound ==
  ASSUME ReturnIInv,
         \/ \E to \in {"paid", "expired", "refunded"} : Settle(to)
         \/ BuyerReturns \/ PollTick
         \/ \E i \in 1..MaxTicks : ReadPayment(i) \/ PaymentComes(i) \/ PollFails(i)
  PROVE  ReturnIInv'
  <1>t. /\ Len(polls) \in Nat /\ DOMAIN polls = 1..Len(polls) /\ back.ticks \in 0..MaxTicks
        /\ MaxTicks \in Nat \ {0} /\ polls \in Seq(PaymentReads \cup {"unread"})
        /\ back.paid \in BOOLEAN /\ back.late \in BOOLEAN
        /\ \A i \in 1..Len(polls) : polls[i] \in PaymentReads \cup {"unread"}
    BY ReturnTyped DEF ReturnIInv, ReturnIsTyped
  <1> DEFINE Backs == [state : {"away", "verifying", "paid", "failed", "pending"},
                       ticks : 0..MaxTicks, paid : BOOLEAN, late : BOOLEAN]
  <1>b. back \in Backs
    BY DEF ReturnIInv, ReturnIsTyped
  <1>1. ASSUME NEW to \in {"paid", "expired", "refunded"}, Settle(to) PROVE ReturnIInv'
    <2>1. /\ bought' = to /\ UNCHANGED <<back, polls>>
          /\ \/ bought \notin {"paid", "refunded"} /\ to # "refunded"
             \/ bought = "paid" /\ to = "refunded"
      BY <1>1 DEF Settle
    <2>2. ReturnIsTyped'
      BY <2>1 DEF ReturnIInv, ReturnIsTyped, PaymentReads
    <2>3. PaidWasPaid'
      BY <2>1 DEF ReturnIInv, PaidWasPaid
    <2>4. AnswersInOrder'
      <3>1. bought' = "paid" => ~back.paid /\ \A i \in 1..Len(polls) : polls[i] # "paid"
        BY <2>1 DEF ReturnIInv, PaidWasPaid
      <3> QED
        BY <2>1, <3>1 DEF ReturnIInv, AnswersInOrder
    <2> QED
      BY <2>2, <2>3, <2>4 DEF ReturnIInv
  <1>2. CASE BuyerReturns
    <2>1. /\ bought' = bought /\ polls' = <<"unread">> /\ back.state = "away"
          /\ back'.state = "verifying" /\ back'.ticks = back.ticks /\ back'.paid = back.paid
          /\ back'.late = back.late /\ back' \in Backs
      BY <1>2, <1>b DEF BuyerReturns
    <2>2. ~back.paid
      BY <2>1 DEF ReturnIInv, ReturnIsTyped
    <2>3. /\ polls' \in Seq(PaymentReads \cup {"unread"}) /\ Len(polls') = 1
          /\ \A i \in 1..Len(polls') : i = 1 /\ polls'[i] = "unread"
      BY <2>1
    <2>4. ReturnIsTyped'
      <3>1. 1 <= MaxTicks /\ 1 <= back.ticks + 1
        BY <1>t
      <3>2. bought \in PaymentReads
        BY DEF ReturnIInv, ReturnIsTyped
      <3> QED
        BY <2>1, <2>3, <3>1, <3>2 DEF ReturnIsTyped
    <2>5. PaidWasPaid' /\ AnswersInOrder'
      BY <2>1, <2>2, <2>3 DEF PaidWasPaid, AnswersInOrder
    <2> QED
      BY <2>4, <2>5 DEF ReturnIInv
  <1>3. CASE PollTick
    <2>1. /\ bought' = bought /\ back.state # "away" /\ back.ticks < MaxTicks
          /\ polls' = IF back.ticks + 1 < MaxTicks THEN Append(polls, "unread") ELSE polls
          /\ back'.state = back.state /\ back'.ticks = back.ticks + 1 /\ back'.paid = back.paid
          /\ back'.late = back.late /\ back' \in Backs
      BY <1>3, <1>b, <1>t DEF PollTick
    <2>2. Len(polls) <= back.ticks + 1 /\ Len(polls) <= MaxTicks
      BY <2>1 DEF ReturnIInv, ReturnIsTyped
    <2>3. CASE polls' = polls
      <3>1. ReturnIsTyped'
        <4>1. Len(polls) <= back'.ticks + 1
          BY <2>1, <2>2, <1>t
        <4>2. bought \in PaymentReads
          BY DEF ReturnIInv, ReturnIsTyped
        <4> QED
          BY <2>1, <2>2, <2>3, <4>1, <4>2, <1>t DEF ReturnIsTyped
      <3>2. PaidWasPaid' /\ AnswersInOrder'
        BY <2>1, <2>3 DEF ReturnIInv, PaidWasPaid, AnswersInOrder
      <3> QED
        BY <3>1, <3>2 DEF ReturnIInv
    <2>4. CASE back.ticks + 1 < MaxTicks /\ polls' = Append(polls, "unread")
      <3>1. /\ polls' \in Seq(PaymentReads \cup {"unread"}) /\ Len(polls') = Len(polls) + 1
            /\ \A i \in 1..Len(polls) : polls'[i] = polls[i]
            /\ polls'[Len(polls) + 1] = "unread"
        BY <2>4, <1>t
      <3>2. \A i \in 1..Len(polls') : \/ i \in 1..Len(polls) /\ polls'[i] = polls[i]
                                      \/ i = Len(polls) + 1 /\ polls'[i] = "unread"
        BY <3>1, <1>t
      <3>3. ReturnIsTyped'
        BY <2>1, <2>2, <2>4, <3>1, <1>t DEF ReturnIInv, ReturnIsTyped
      <3>4. PaidWasPaid'
        BY <2>1, <3>2 DEF ReturnIInv, PaidWasPaid
      <3>5. ASSUME ~back.late, NEW i \in 1..Len(polls'), NEW j \in 1..Len(polls'), i < j
            PROVE  /\ polls'[i] = "unread" => polls'[j] = "unread"
                   /\ bought = "paid" /\ polls'[i] = "paid" => polls'[j] \in {"paid", "unread"}
        <4>1. i \in 1..Len(polls) /\ polls'[i] = polls[i]
          BY <3>1, <3>2, <3>5, <1>t
        <4>2. CASE j \in 1..Len(polls) /\ polls'[j] = polls[j]
          BY <3>5, <4>1, <4>2 DEF ReturnIInv, AnswersInOrder
        <4>3. CASE polls'[j] = "unread"
          BY <4>3
        <4> QED
          BY <3>2, <4>2, <4>3
      <3>6. ~back.late /\ bought = "paid" /\ back.paid =>
               back.state = "paid" /\ \A i \in 1..Len(polls') : polls'[i] \in {"paid", "unread"}
        BY <3>2 DEF ReturnIInv, AnswersInOrder
      <3>7. AnswersInOrder'
        BY <2>1, <3>5, <3>6 DEF AnswersInOrder
      <3> QED
        BY <3>3, <3>4, <3>7 DEF ReturnIInv
    <2> QED
      BY <2>1, <2>3, <2>4
  <1>4. ASSUME NEW i \in 1..MaxTicks, ReadPayment(i) PROVE ReturnIInv'
    <2> DEFINE waits == \E j \in 1..(i - 1) : polls[j] = "unread"
    <2>1. /\ bought' = bought /\ i \in 1..Len(polls) /\ polls[i] = "unread"
          /\ polls' = [polls EXCEPT ![i] = bought]
      BY <1>4, <1>t DEF ReadPayment
    <2>2. /\ back'.state = back.state /\ back'.ticks = back.ticks /\ back'.paid = back.paid
          /\ back'.late <=> back.late \/ waits
          /\ back' \in Backs
      <3>1. back' = [back EXCEPT !.late = back.late \/ waits]
        BY <1>4 DEF ReadPayment
      <3> HIDE DEF waits
      <3>2. CASE back.late \/ waits
        <4>1. back' = [back EXCEPT !.late = TRUE]
          BY <3>1, <3>2
        <4> QED
          BY <4>1, <3>2, <1>b
      <3>3. CASE ~(back.late \/ waits)
        <4>1. back' = [back EXCEPT !.late = FALSE]
          BY <3>1, <3>3
        <4> QED
          BY <4>1, <3>3, <1>b
      <3> QED
        BY <3>2, <3>3
    <2>3. bought \in PaymentReads
      BY DEF ReturnIInv, ReturnIsTyped
    <2>4. /\ polls' \in Seq(PaymentReads \cup {"unread"}) /\ Len(polls') = Len(polls)
          /\ \A j \in 1..Len(polls) : polls'[j] = IF j = i THEN bought ELSE polls[j]
      BY <2>1, <2>3, <1>t
    <2>5. ReturnIsTyped'
      <3>1. back.state = "away" => polls = <<>>
        BY DEF ReturnIInv, ReturnIsTyped
      <3>2. back.state # "away"
        BY <3>1, <2>1
      <3> QED
        BY <2>1, <2>2, <2>4, <3>2, <1>t DEF ReturnIInv, ReturnIsTyped
    <2>6. PaidWasPaid'
      BY <2>1, <2>2, <2>4 DEF ReturnIInv, PaidWasPaid
    <2>7. AnswersInOrder'
      <3> SUFFICES ASSUME ~back.late, ~waits PROVE AnswersInOrder'
          BY <2>2 DEF AnswersInOrder
      <3>1. \A j, k \in 1..Len(polls) : j < k /\ polls[j] = "unread" => polls[k] = "unread"
        BY DEF ReturnIInv, AnswersInOrder
      <3>2. \A j \in 1..Len(polls) : j < i => polls[j] # "unread"
        BY <2>1, <1>t
      <3>3. \A j \in 1..Len(polls) : i < j => polls[j] = "unread"
        BY <2>1, <3>1
      <3>4. \A j, k \in 1..Len(polls') : j < k /\ polls'[j] = "unread" => polls'[k] = "unread"
        <4> SUFFICES ASSUME NEW j \in 1..Len(polls), NEW k \in 1..Len(polls), j < k,
                            polls'[j] = "unread"
                     PROVE  polls'[k] = "unread"
            BY <2>4
        <4>1. j # i /\ polls[j] = "unread"
          BY <2>3, <2>4 DEF PaymentReads
        <4>2. i < j
          BY <3>2, <4>1, <2>1, <1>t
        <4>3. i < k
          BY <4>2, <2>1, <1>t
        <4> QED
          BY <3>3, <4>3, <2>4, <2>1, <1>t
      <3>5. CASE bought = "paid"
        <4>1. back.paid => /\ back.state = "paid"
                           /\ \A j \in 1..Len(polls) : polls[j] \in {"paid", "unread"}
          BY <3>5 DEF ReturnIInv, AnswersInOrder
        <4>2. \A j, k \in 1..Len(polls) : j < k /\ polls[j] = "paid" => polls[k] \in {"paid", "unread"}
          BY <3>5 DEF ReturnIInv, AnswersInOrder
        <4>3. \A j, k \in 1..Len(polls') :
                 j < k /\ polls'[j] = "paid" => polls'[k] \in {"paid", "unread"}
          <5> SUFFICES ASSUME NEW j \in 1..Len(polls), NEW k \in 1..Len(polls), j < k,
                              polls'[j] = "paid"
                       PROVE  polls'[k] \in {"paid", "unread"}
              BY <2>4
          <5>1. CASE j = i
            BY <5>1, <3>3, <2>4
          <5>2. CASE k = i
            BY <5>2, <3>5, <2>4
          <5>3. CASE j # i /\ k # i
            BY <5>3, <4>2, <2>4
          <5> QED
            BY <5>1, <5>2, <5>3
        <4>4. back.paid => \A j \in 1..Len(polls') : polls'[j] \in {"paid", "unread"}
          BY <4>1, <3>5, <2>4
        <4> QED
          BY <2>1, <2>2, <3>4, <4>1, <4>3, <4>4 DEF AnswersInOrder
      <3>6. CASE bought # "paid"
        BY <2>1, <3>4, <3>6 DEF AnswersInOrder
      <3> QED
        BY <3>5, <3>6
    <2> QED
      BY <2>5, <2>6, <2>7 DEF ReturnIInv
  <1>5. ASSUME NEW i \in 1..MaxTicks, PaymentComes(i) PROVE ReturnIInv'
    <2> DEFINE st == CASE polls[i] = "paid" -> "paid"
                       [] polls[i] = "expired" -> "failed"
                       [] OTHER -> "pending"
    <2>1. bought' = bought /\ i \in 1..Len(polls) /\ polls[i] # "unread" /\ polls' = Without(i)
      BY <1>5, <1>t DEF PaymentComes
    <2>2. back' = [state |-> st, ticks |-> back.ticks, paid |-> (back.paid \/ polls[i] = "paid"),
                   late |-> (back.late \/ i # 1)]
      BY <1>5, <1>b DEF PaymentComes
    <2>3. st \in {"verifying", "paid", "failed", "pending"} /\ (st = "paid" <=> polls[i] = "paid")
      OBVIOUS
    <2> HIDE DEF st
    <2>4. PICK pd \in BOOLEAN : pd = (back.paid \/ polls[i] = "paid")
      OBVIOUS
    <2>5. PICK lt \in BOOLEAN : lt = (back.late \/ i # 1)
      OBVIOUS
    <2>6. PICK s \in {"verifying", "paid", "failed", "pending"} : s = st
      BY <2>3
    <2>7. back' = [state |-> s, ticks |-> back.ticks, paid |-> pd, late |-> lt]
      BY <2>2, <2>4, <2>5, <2>6, Zenon
    <2> QED
      BY <2>1, <2>3, <2>4, <2>5, <2>6, <2>7, ListGetsShorter
  <1>6. ASSUME NEW i \in 1..MaxTicks, PollFails(i) PROVE ReturnIInv'
    <2>1. bought' = bought /\ i \in 1..Len(polls) /\ polls' = Without(i)
      BY <1>6, <1>t DEF PollFails
    <2>2. PICK pd \in BOOLEAN : pd = back.paid
      BY <1>t
    <2>3. back' = [state |-> "verifying", ticks |-> back.ticks, paid |-> pd, late |-> TRUE]
      BY <1>6, <1>b, <2>2 DEF PollFails
    <2> QED
      BY <2>1, <2>2, <2>3, ListGetsShorter
  <1> QED
    BY <1>1, <1>2, <1>3, <1>4, <1>5, <1>6
-----------------------------------------------------------------------------
(* WebSession: both.                                                       *)

SessionIInv == WebIInv /\ ReturnIInv

LEMMA SessionInitIsSound == SessionInit => SessionIInv
  <1> SUFFICES ASSUME SessionInit PROVE SessionIInv
      OBVIOUS
  <1>1. WebIsTyped
    <2> DEFINE v == [at |-> "away", user |-> NoVisitor, amid |-> FALSE]
    <2>1. v \in Page /\ NoAsking \in Asking /\ jar \in CookieJar
      BY DEF SessionInit, Asking, Page, CookieJar, Anybody, NoAsking, Writing
    <2>2. view \in [WebTabs -> Page] /\ ask \in [WebTabs -> Asking]
      BY <2>1 DEF SessionInit
    <2>3. /\ sessions \in Seq(Session) /\ Len(sessions) = 0 /\ minted = 0
          /\ jar.session = 0 /\ jar.csrf = 0
      BY DEF SessionInit
    <2>4. \A t \in WebTabs : /\ ask[t].cookies.session = 0
                             /\ ask[t].cookies.csrf = 0 /\ ask[t].token = 0
      BY DEF SessionInit, NoAsking
    <2>5. deleted \subseteq Visitors /\ remembered \in Anybody /\ hitches \in 0..MaxHitches
      BY WebParameters DEF SessionInit, Anybody
    <2>6. mixed \in BOOLEAN
      BY DEF SessionInit
    <2> QED
      BY <2>1, <2>2, <2>3, <2>4, <2>5, <2>6 DEF WebIsTyped
  <1>2. JarIsRemembered
    BY DEF SessionInit, JarIsRemembered
  <1>3. \A t \in WebTabs : TabIsSound(t)
    BY DEF SessionInit, TabIsSound, AskIsOrderly, TokenFollows, PageIsOfOwner, BodyIsDue,
           NoAsking, Writing
  <1> QED
    BY <1>1, <1>2, <1>3, ReturnInitIsSound DEF SessionIInv, WebIInv

LEMMA WebStays == WebIInv /\ UNCHANGED webVars => WebIInv'
  BY DEF webVars, WebIInv, WebIsTyped, JarIsRemembered, TabIsSound, AskIsOrderly, TokenFollows,
         PageIsOfOwner, BodyIsDue, Owner, Holder

LEMMA ReturnStays == ReturnIInv /\ UNCHANGED returnVars => ReturnIInv'
  BY DEF returnVars, ReturnIInv, ReturnIsTyped, PaidWasPaid, AnswersInOrder

LEMMA SessionStepIsSound == SessionIInv /\ [SessionNext]_sessionVars => SessionIInv'
  <1> SUFFICES ASSUME SessionIInv, [SessionNext]_sessionVars PROVE SessionIInv'
      OBVIOUS
  <1>0. WebIInv /\ ReturnIInv
    BY DEF SessionIInv
  <1>1. ASSUME NEW t \in WebTabs,
               \/ \E at \in {"away", "cloud", "account", "profile"} : Visit(t, at)
               \/ \E u \in Visitors : SignIn(t, u)
               \/ Buy(t) \/ LogOut(t) \/ DeleteMe(t) \/ Respond(t)
               \/ SendOff(t) \/ Mint(t) \/ LogIn(t) \/ Serve(t)
               \/ TokenComes(t) \/ CookiesCome(t) \/ BodyComes(t) \/ AnswerComes(t)
               \/ Fails(t)
        PROVE  WebIInv' /\ UNCHANGED returnVars
    <2>1. WebIInv'
      BY <1>0, <1>1, VisitIsSound, SignInIsSound, ButtonsAreSound, SendOffIsSound, MintIsSound,
         LogInIsSound, ServeIsSound, TokenComesIsSound, CookiesComeIsSound, BodyComesIsSound,
         AnswerComesIsSound, FailsIsSound
    <2>2. UNCHANGED returnVars
      BY <1>1 DEF Visit, SignIn, Buy, LogOut, DeleteMe, Respond, Press, SendOff, Mint, LogIn,
                  Serve, TokenComes, CookiesCome, BodyComes, AnswerComes, Fails
    <2> QED
      BY <2>1, <2>2
  <1>2. CASE CookieLost \/ \E s \in 1..MaxSignIns : RevokedElsewhere(s)
    <2>1. WebIInv'
      BY <1>0, <1>2, CookieLostIsSound, RevokedElsewhereIsSound
    <2>2. UNCHANGED returnVars
      BY <1>2 DEF CookieLost, RevokedElsewhere
    <2> QED
      BY <1>0, <2>1, <2>2, ReturnStays DEF SessionIInv
  <1>3. CASE \/ \E to \in {"paid", "expired", "refunded"} : Settle(to)
             \/ BuyerReturns \/ PollTick
             \/ \E i \in 1..MaxTicks : ReadPayment(i) \/ PaymentComes(i) \/ PollFails(i)
    <2>1. ReturnIInv'
      BY <1>0, <1>3, ReturnStepIsSound
    <2>2. UNCHANGED webVars
      BY <1>3 DEF Settle, BuyerReturns, PollTick, ReadPayment, PaymentComes, PollFails
    <2> QED
      BY <1>0, <2>1, <2>2, WebStays DEF SessionIInv
  <1>4. CASE UNCHANGED sessionVars
    BY <1>0, <1>4, WebStays, ReturnStays DEF SessionIInv, sessionVars
  <1> QED
    BY <1>0, <1>1, <1>2, <1>3, <1>4, ReturnStays DEF SessionNext, SessionIInv

LEMMA SessionIInvIsSound == SessionIInv => SignedInIsSound
  <1> SUFFICES ASSUME WebIInv, ReturnIInv PROVE SignedInIsSound
      BY DEF SessionIInv
  <1>1. SessionTypeOK
    <2>1. \A s \in DOMAIN sessions : sessions[s] \in [user : Visitors, live : BOOLEAN]
      <3>1. sessions \in Seq(Session)
        BY DEF WebIInv, WebIsTyped
      <3>2. \A s \in DOMAIN sessions : sessions[s] \in Session
        BY <3>1
      <3> QED
        BY <3>2 DEF Session
    <2>2. jar.session \in 0..Len(sessions) /\ jar.csrf \in 0..minted
      BY DEF WebIInv, WebIsTyped, CookieJar
    <2>3. remembered \in Visitors \cup {NoVisitor} /\ deleted \subseteq Visitors
          /\ mixed \in BOOLEAN /\ hitches \in 0..MaxHitches
      BY DEF WebIInv, WebIsTyped, Anybody
    <2>4. back.ticks \in 0..MaxTicks /\ Len(polls) <= MaxTicks
      BY DEF ReturnIInv, ReturnIsTyped
    <2> QED
      BY <2>1, <2>2, <2>3, <2>4 DEF SessionTypeOK
  <1>2. RefusalsAreExplained
    BY DEF RefusalsAreExplained, WebIInv, TabIsSound, TokenFollows, AskIsOrderly
  <1>3. ActsAsShown
    BY DEF ActsAsShown, WebIInv, TabIsSound, PageIsOfOwner, AskIsOrderly
  <1>4. PaidIsShown
    BY DEF PaidIsShown, ReturnIInv, PaidWasPaid, AnswersInOrder
  <1> QED
    BY <1>1, <1>2, <1>3, <1>4 DEF SignedInIsSound

\* Whoever signs in, and out, and whatever is lost: a page reads and writes as the
\* user it shows, unless another tab signed in since; a refused write had nothing
\* to protect or was disturbed; and a buyer is told of a payment that was made.
THEOREM SignedInAlwaysIsSound == SessionSpec => []SignedInIsSound
  BY SessionInitIsSound, SessionStepIsSound, SessionIInvIsSound, PTL DEF SessionSpec
=============================================================================
