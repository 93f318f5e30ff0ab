----------------------------- MODULE ShopOrder -----------------------------
(***************************************************************************)
(* Print orders: the checkout and cleanup of apps/api/src/routes-shop.ts,  *)
(* the shop's branches of the Stripe webhook in routes-cloud.ts and the    *)
(* table shop_orders of packages/db/src/shop.ts.                           *)
(*                                                                         *)
(* The webhook hands a mail to sendmail while it serves a paid order, so   *)
(* other requests run before it finishes: turn is the event whose          *)
(* statements run now, mailing the events whose mail is awaited.  Stripe   *)
(* is external: it closes a session in time, settles a late payment in     *)
(* time and repeats an event until it is answered.                         *)
(***************************************************************************)
EXTENDS Integers, FiniteSets

CONSTANTS
    NoEvent,           \* no event is being handled
    Orders,
    Retention,         \* expiresAt lies 30 days after the order
    OpenWindow,        \* external: how long a session stays open
    SettleWindow,      \* external: how long a late payment takes to settle
    ShopHorizon,       \* bound: the clock stops here
    MaxStops           \* bound: how often the process stops and starts again

ShopEvents == [kind : {"pending", "paid", "failed", "expired"}, order : Orders]

ASSUME ShopParameters ==
    /\ NoEvent \notin ShopEvents
    /\ Retention \in Nat /\ OpenWindow \in Nat /\ SettleWindow \in Nat
    /\ OpenWindow + SettleWindow < Retention
    /\ ShopHorizon \in Nat /\ MaxStops \in Nat

VARIABLES
    day,               \* the clock
    order,             \* shop_orders
    creating,          \* orders whose checkout awaits Stripe
    stripe,            \* external: Stripe's checkout sessions
    sentOut,           \* external: events Stripe delivers
    answered,          \* external: events Stripe was answered 2xx
    seen,              \* processed_webhook_events
    turn,              \* the event being handled, and how far it got
    mailing,           \* events whose notification is being sent
    notices,           \* how often the shop was told of each order
    stops

shopVars == <<day, order, creating, stripe, sentOut, answered, seen,
              turn, mailing, notices, stops>>
externalVars == <<stripe, sentOut>>

OrderStatus == {"pending", "paid", "fulfilled", "cancelled", "expired"}
Paid(o) == [kind |-> "paid", order |-> o]
NoOrder == [status |-> "absent", expiresAt |-> 0, checkout |-> FALSE]
NoTurn == [event |-> NoEvent, at |-> "idle"]

ShopTypeOK ==
    /\ day \in 0..ShopHorizon
    /\ order \in [Orders -> [status : OrderStatus \cup {"absent"},
                             expiresAt : 0..(ShopHorizon + Retention),
                             checkout : BOOLEAN]]
    /\ creating \subseteq Orders
    /\ stripe \in [Orders -> [state : {"none", "open", "pending", "paid",
                                        "failed", "expired"},
                               since : 0..ShopHorizon]]
    /\ sentOut \subseteq ShopEvents /\ answered \subseteq sentOut
    /\ seen \in [ShopEvents -> {"none", "received", "processed", "failed"}]
    /\ turn.event \in ShopEvents \cup {NoEvent}
    /\ turn.at \in {"idle", "begun", "done", "refused"}
    /\ mailing \subseteq ShopEvents
    /\ notices \in [Orders -> Nat]
    /\ stops \in 0..MaxStops
-----------------------------------------------------------------------------
(* Stripe and its customers (external).                                    *)

SetSession(o, state) ==
    stripe' = [stripe EXCEPT ![o] = [state |-> state, since |-> day]]

Announce(kind, o) == sentOut' = sentOut \cup {[kind |-> kind, order |-> o]}

ServerIdle == UNCHANGED <<day, order, creating, answered, seen, turn,
                          mailing, notices, stops>>

\* The session exists as soon as Stripe has it, whether or not its answer
\* still finds the process that asked.
OpenSession(o) ==
    /\ o \in creating /\ stripe[o].state = "none"
    /\ SetSession(o, "open")
    /\ UNCHANGED sentOut
    /\ ServerIdle

\* The customer is sent to the session by the answer of the checkout.
PayNow(o) ==
    /\ stripe[o].state = "open" /\ order[o].checkout
    /\ SetSession(o, "paid") /\ Announce("paid", o)
    /\ ServerIdle

PayLater(o) ==
    /\ stripe[o].state = "open" /\ order[o].checkout
    /\ SetSession(o, "pending") /\ Announce("pending", o)
    /\ ServerIdle

Settle(o, state) ==
    /\ stripe[o].state = "pending"
    /\ SetSession(o, state) /\ Announce(state, o)
    /\ ServerIdle

ExpireShopSession(o) ==
    /\ stripe[o].state = "open"
    /\ SetSession(o, "expired") /\ Announce("expired", o)
    /\ ServerIdle
-----------------------------------------------------------------------------
(* Checkout.                                                               *)

\* Mutant of ExpiresAt: the row lives as long as the session stays open.
ExpiresAt_Session(t) == t + OpenWindow

ExpiresAt(t) == t + Retention

\* createPendingShopOrder of a cart in which something is on sale (any other
\* cart is refused and changes nothing); then Stripe is awaited.
BeginShopCheckout(o) ==
    /\ order[o] = NoOrder /\ stripe[o].state = "none" /\ o \notin creating
    /\ turn = NoTurn
    /\ order' = [order EXCEPT ![o] = [status |-> "pending",
                                      expiresAt |-> ExpiresAt(day),
                                      checkout |-> FALSE]]
    /\ creating' = creating \cup {o}
    /\ UNCHANGED <<day, stripe, sentOut, answered, seen, turn, mailing,
                   notices, stops>>

\* updateShopOrderCheckout, and the answer with the address of the session;
\* the row may be gone by now.
EndShopCheckout(o) ==
    /\ o \in creating /\ stripe[o].state # "none" /\ turn = NoTurn
    /\ creating' = creating \ {o}
    /\ order' = [order EXCEPT ![o].checkout = @ \/ order[o].status # "absent"]
    /\ UNCHANGED <<day, stripe, sentOut, answered, seen, turn, mailing,
                   notices, stops>>

\* Stripe refuses or cannot be reached: the row stays as it is.
FailShopCheckout(o) ==
    /\ o \in creating /\ turn = NoTurn
    /\ creating' = creating \ {o}
    /\ UNCHANGED <<day, order, stripe, sentOut, answered, seen, turn,
                   mailing, notices, stops>>

-----------------------------------------------------------------------------
(* The webhook.                                                            *)

\* Mutant of OnRecord: a failed event is begun again.
OnRecord_ButFailed(e) == seen[e] \notin {"none", "failed"}

\* Mutant of OnRecord: one event of an order stands for all of them.
OnRecord_SameOrder(e) == \E f \in ShopEvents : f.order = e.order /\ seen[f] # "none"

\* beginWebhookEvent looks the event up whatever became of it.
OnRecord(e) == seen[e] # "none"

ReceiveEvent(e) ==
    /\ e \in sentOut /\ turn = NoTurn
    /\ \/ /\ OnRecord(e)
          /\ answered' = answered \cup {e}
          /\ UNCHANGED <<seen, turn>>
       \/ /\ ~OnRecord(e)
          /\ seen' = [seen EXCEPT ![e] = "received"]
          /\ turn' = [event |-> e, at |-> "begun"]
          /\ UNCHANGED answered
    /\ UNCHANGED <<day, order, creating, externalVars, mailing, notices,
                   stops>>

\* markShopOrderPaid by the order's uuid, then the notification is handed to
\* sendmail and awaited.  Stripe charges the order's items and the shipping,
\* so the amount is never below the order's.
MarkShopOrderPaid ==
    LET e == turn.event IN
    /\ turn.at = "begun" /\ e.kind = "paid"
    /\ IF order[e.order].status = "absent"
       THEN /\ turn' = [turn EXCEPT !.at = "refused"]
            /\ UNCHANGED <<order, mailing, notices>>
       ELSE /\ order' = [order EXCEPT ![e.order].status = "paid",
                                      ![e.order].checkout = TRUE]
            /\ mailing' = mailing \cup {e}
            /\ notices' = [notices EXCEPT ![e.order] = @ + 1]
            /\ turn' = NoTurn
    /\ UNCHANGED <<day, creating, externalVars, answered, seen, stops>>

\* markShopOrderCheckoutStatus by the session's id, for a pending order only.
CloseShopOrder ==
    LET e == turn.event
        o == e.order IN
    /\ turn.at = "begun" /\ e.kind \in {"failed", "expired"}
    /\ order' = IF order[o].checkout /\ order[o].status = "pending"
                THEN [order EXCEPT ![o].status = IF e.kind = "expired"
                                                 THEN "expired" ELSE "cancelled"]
                ELSE order
    /\ turn' = [turn EXCEPT !.at = "done"]
    /\ UNCHANGED <<day, creating, externalVars, answered, seen, mailing,
                   notices, stops>>

\* shop_checkout_pending changes nothing.
AwaitSettlement ==
    /\ turn.at = "begun" /\ turn.event.kind = "pending"
    /\ turn' = [turn EXCEPT !.at = "done"]
    /\ UNCHANGED <<day, order, creating, externalVars, answered, seen,
                   mailing, notices, stops>>

\* finishWebhookEvent and the answer; a failure is answered 500.
FinishShopEvent ==
    LET e == turn.event IN
    /\ turn.at \in {"done", "refused"}
    /\ seen' = [seen EXCEPT ![e] = IF turn.at = "done" THEN "processed" ELSE "failed"]
    /\ answered' = IF turn.at = "done" THEN answered \cup {e} ELSE answered
    /\ turn' = NoTurn
    /\ UNCHANGED <<day, order, creating, externalVars, mailing, notices,
                   stops>>

\* sendmail ends; its failure fails the event of an order that is paid.
FinishNotice(e) ==
    /\ e \in mailing /\ turn = NoTurn
    /\ mailing' = mailing \ {e}
    /\ \/ /\ seen' = [seen EXCEPT ![e] = "processed"]
          /\ answered' = answered \cup {e}
       \/ /\ seen' = [seen EXCEPT ![e] = "failed"]
          /\ UNCHANGED answered
    /\ UNCHANGED <<day, order, creating, externalVars, turn, notices,
                   stops>>
-----------------------------------------------------------------------------
(* Cleanup, time and stops.                                                *)

\* An order that waits for its money, or will never get it.  Nothing in the
\* code sets "fulfilled", the other status the cleanup asks for.
Purgeable(o) ==
    /\ order[o].status \in {"pending", "expired", "cancelled"}
    /\ order[o].expiresAt < day

\* purgeExpiredShopOrders, by the daily timer or an administrator.
PurgeOrders ==
    /\ turn = NoTurn /\ \E o \in Orders : Purgeable(o)
    /\ order' = [o \in Orders |-> IF Purgeable(o) THEN NoOrder ELSE order[o]]
    /\ UNCHANGED <<day, creating, stripe, sentOut, answered, seen, turn,
                   mailing, notices, stops>>

\* Stripe closes its sessions, settles its payments and gets through with its
\* events in time.
NextDay ==
    /\ day < ShopHorizon /\ turn = NoTurn
    /\ \A o \in Orders :
          /\ stripe[o].state = "open" => day < stripe[o].since + OpenWindow
          /\ stripe[o].state = "pending" => day < stripe[o].since + SettleWindow
          /\ o \in creating => stripe[o].state # "none"
    /\ \A e \in sentOut : seen[e] # "none"
    /\ day' = day + 1
    /\ UNCHANGED <<order, creating, stripe, sentOut, answered, seen,
                   turn, mailing, notices, stops>>

\* The requests in progress are gone, the tables stay.
StopServer ==
    /\ stops < MaxStops
    /\ stops' = stops + 1
    /\ creating' = {} /\ mailing' = {} /\ turn' = NoTurn
    /\ UNCHANGED <<day, order, stripe, sentOut, answered, seen, notices>>

ShopInit ==
    /\ day = 0
    /\ order = [o \in Orders |-> NoOrder]
    /\ creating = {}
    /\ stripe = [o \in Orders |-> [state |-> "none", since |-> 0]]
    /\ sentOut = {} /\ answered = {}
    /\ seen = [e \in ShopEvents |-> "none"]
    /\ turn = NoTurn /\ mailing = {}
    /\ notices = [o \in Orders |-> 0]
    /\ stops = 0

CustomerNext ==
    \E o \in Orders :
        \/ BeginShopCheckout(o) \/ EndShopCheckout(o) \/ FailShopCheckout(o)
        \/ OpenSession(o) \/ PayNow(o) \/ PayLater(o) \/ ExpireShopSession(o)
        \/ \E state \in {"paid", "failed"} : Settle(o, state)

HandleShopEvent ==
    MarkShopOrderPaid \/ CloseShopOrder \/ AwaitSettlement \/ FinishShopEvent

ShopNext ==
    \/ CustomerNext
    \/ \E e \in sentOut : ReceiveEvent(e)
    \/ HandleShopEvent
    \/ \E e \in mailing : FinishNotice(e)
    \/ PurgeOrders
    \/ NextDay
    \/ StopServer

ShopSpec == ShopInit /\ [][ShopNext]_shopVars

\* The process serves what it has begun, and Stripe delivers a payment until it
\* is answered: an idle server is met again and again.
ShopFairness ==
    /\ WF_shopVars(HandleShopEvent)
    /\ \A o \in Orders :
          SF_shopVars(Paid(o) \in sentOut \ answered /\ ReceiveEvent(Paid(o)))
FairShopSpec == ShopSpec /\ ShopFairness
-----------------------------------------------------------------------------
(* What must hold.                                                         *)

\* The payment's event is on record and nobody handles it: the process
\* stopped on the way.
LostOnTheWay(o) ==
    /\ seen[Paid(o)] = "received"
    /\ turn.event # Paid(o) /\ Paid(o) \notin mailing

\* An order whose money Stripe has taken is never purged, late settlement
\* included, unless its event was lost with a stop of the process.
PaidOrderIsKept ==
    \A o \in Orders :
        stripe[o].state = "paid" =>
            order[o].status # "absent" \/ LostOnTheWay(o)

\* The shop is told of an order at most once, although the mail is awaited,
\* may fail, and Stripe repeats an event that failed.
NoticedOnce == \A o \in Orders : notices[o] <= 1

\* Both: a paid order is neither dropped nor announced twice.
OrdersAreSound == PaidOrderIsKept /\ NoticedOnce

\* Every payment Stripe takes for an order marks it paid in the end, unless
\* the process stopped with its event on record.
PaidOrderIsMarked ==
    \A o \in Orders :
        stripe[o].state = "paid" ~> order[o].status = "paid" \/ LostOnTheWay(o)
=============================================================================
