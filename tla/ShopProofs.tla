----------------------------- MODULE ShopProofs -----------------------------
(***************************************************************************)
(* Theorems about the shop, for any number of orders, products, tabs and   *)
(* stops: a paid order is neither purged nor announced twice (ShopOrder),  *)
(* and neither the products nor a cart move by themselves (ShopShelf).     *)
(* Then about the printers people print on: no import and no clean-up      *)
(* takes a profile off the machine it was measured on (PrinterCatalog).    *)
(* And about the codes on spools: the camera that scans one goes off, and  *)
(* a label leads back to its variant (QrScan), and a user's spool is found *)
(* by its code, however its upload was cut off (CloudSpools).              *)
(***************************************************************************)
EXTENDS ShopOrder, ShopShelf, PrinterCatalog, QrScan, FiniteSetTheorems, SequenceTheorems,
        WellFoundedInduction, TLAPS

-----------------------------------------------------------------------------
(* Print orders.  The argument is about time: the row outlives the session *)
(* and the settlement, since no day passes while an event is unseen.       *)

\* The event being handled was sent and is on record; nothing paid is refused,
\* and a mail is awaited only of a payment.
TurnIsOrderly ==
    /\ turn \in [event : ShopEvents \cup {NoEvent},
                 at : {"idle", "begun", "done", "refused"}]
    /\ turn.at = "idle" <=> turn = NoTurn
    /\ turn # NoTurn => /\ turn.event \in sentOut \ mailing
                        /\ seen[turn.event] = "received"
                        /\ turn.event.kind = "paid" => turn.at = "begun"
    /\ turn.at # "refused"
    /\ \A e \in mailing : e \in sentOut /\ e.kind = "paid" /\ seen[e] = "received"
    /\ \A e \in ShopEvents : seen[e] # "none" => e \in sentOut

\* What Stripe announces of an order is what became of its session.
SaidOf(state) ==
    CASE state = "pending" -> {"pending"}
      [] state = "paid"    -> {"pending", "paid"}
      [] state = "failed"  -> {"pending", "failed"}
      [] state = "expired" -> {"expired"}
      [] OTHER             -> {}
AnnouncedIsTrue ==
    /\ \A e \in sentOut : e.kind \in SaidOf(stripe[e.order].state)
    /\ \A o \in Orders : stripe[o].state = "paid" => Paid(o) \in sentOut

\* How long the row of an order lives: longer than its session stays open, and
\* than its money takes to settle.
RowOutlives(o) ==
    /\ o \in creating /\ stripe[o].state = "none" =>
          order[o].status = "pending" /\ order[o].expiresAt = day + Retention
    /\ stripe[o].state = "open" =>
          /\ order[o].status = "pending"
          /\ order[o].expiresAt = stripe[o].since + Retention
          /\ day <= stripe[o].since + OpenWindow
    /\ stripe[o].state = "pending" =>
          /\ order[o].status = "pending"
          /\ order[o].expiresAt + OpenWindow >= stripe[o].since + Retention
          /\ day <= stripe[o].since + SettleWindow

\* A paid order waits for its event, is at its event, or is marked, unless the
\* event was lost with a stop.
PaidIsOnItsWay(o) ==
    stripe[o].state = "paid" =>
        \/ seen[Paid(o)] = "none" /\ order[o].status = "pending"
           /\ day <= order[o].expiresAt
        \/ turn.event = Paid(o) /\ order[o].status = "pending"
        \/ order[o].status = "paid"
        \/ LostOnTheWay(o)

\* A notice is of a payment whose event is on record and not about to be handled.
NoticeIsOfRecord(o) ==
    notices[o] = 0 \/ (notices[o] = 1 /\ seen[Paid(o)] # "none" /\ turn.event # Paid(o))

OrdersIInv ==
    /\ ShopTypeOK /\ TurnIsOrderly /\ AnnouncedIsTrue
    /\ \A o \in Orders : RowOutlives(o) /\ PaidIsOnItsWay(o) /\ NoticeIsOfRecord(o)

\* The event of a payment, and that it is the only one of its order and kind.
LEMMA PaidEvents ==
    /\ \A o \in Orders : /\ Paid(o) \in ShopEvents /\ Paid(o).kind = "paid"
                         /\ Paid(o).order = o /\ Paid(o) # NoEvent
    /\ \A e \in ShopEvents : e.order \in Orders /\ (e.kind = "paid" => e = Paid(e.order))
BY ShopParameters DEF Paid, ShopEvents

\* No order, no session and no event.
LEMMA InitOrdersIInv == ShopInit => OrdersIInv
<1> SUFFICES ASSUME ShopInit PROVE OrdersIInv
  OBVIOUS
<1>1. ShopTypeOK
  BY ShopParameters DEF ShopInit, ShopTypeOK, NoOrder, NoTurn, OrderStatus
<1>2. TurnIsOrderly /\ AnnouncedIsTrue
  BY DEF ShopInit, TurnIsOrderly, AnnouncedIsTrue, NoTurn
<1>3. \A o \in Orders : RowOutlives(o) /\ PaidIsOnItsWay(o) /\ NoticeIsOfRecord(o)
  BY DEF ShopInit, RowOutlives, PaidIsOnItsWay, NoticeIsOfRecord
<1> QED BY <1>1, <1>2, <1>3 DEF OrdersIInv

\* What Stripe and a customer do with the session of an order.
LEMMA StripeKeepsIInv ==
    ASSUME OrdersIInv, NEW o \in Orders,
           \/ OpenSession(o) \/ PayNow(o) \/ PayLater(o) \/ ExpireShopSession(o)
           \/ \E state \in {"paid", "failed"} : Settle(o, state)
    PROVE  OrdersIInv'
<1> USE DEF OrdersIInv
<1>1. PICK from \in {"none", "open", "pending"},
           to \in {"open", "pending", "paid", "failed", "expired"} :
        /\ stripe[o].state = from
        /\ stripe' = [stripe EXCEPT ![o] = [state |-> to, since |-> day]]
        /\ sentOut' = IF to = "open" THEN sentOut
                      ELSE sentOut \cup {[kind |-> to, order |-> o]}
        /\ <<from, to>> \in {<<"none", "open">>, <<"open", "paid">>,
                             <<"open", "pending">>, <<"open", "expired">>,
                             <<"pending", "paid">>, <<"pending", "failed">>}
        /\ to = "open" => o \in creating
  BY DEF OpenSession, PayNow, PayLater, ExpireShopSession, Settle, SetSession, Announce
<1>2. UNCHANGED <<day, order, creating, answered, seen, turn, mailing, notices, stops>>
  BY DEF OpenSession, PayNow, PayLater, ExpireShopSession, Settle, ServerIdle
<1>3. /\ stripe'[o] = [state |-> to, since |-> day]
      /\ \A q \in Orders \ {o} : stripe'[q] = stripe[q]
  BY <1>1 DEF ShopTypeOK
<1>4. sentOut \subseteq sentOut' /\ sentOut' \subseteq ShopEvents
  BY <1>1 DEF ShopEvents, ShopTypeOK
<1>5. ShopTypeOK'
  <2>1. [state |-> to, since |-> day]
           \in [state : {"none", "open", "pending", "paid", "failed", "expired"},
                since : 0..ShopHorizon]
    BY DEF ShopTypeOK
  <2> QED BY <1>1, <1>2, <1>4, <2>1 DEF ShopTypeOK
<1>6. TurnIsOrderly'
  BY <1>2, <1>4 DEF TurnIsOrderly
<1>7. AnnouncedIsTrue'
  <2>1. ASSUME NEW e \in sentOut' PROVE e.kind \in SaidOf(stripe'[e.order].state)
    <3>1. CASE e \notin sentOut
      BY <1>1, <1>3, <3>1 DEF SaidOf
    <3>2. CASE e \in sentOut /\ e.order # o
      BY <1>3, <1>4, <3>2, PaidEvents DEF AnnouncedIsTrue
    <3>3. CASE e \in sentOut /\ e.order = o
      BY <1>1, <1>3, <3>3 DEF AnnouncedIsTrue, SaidOf
    <3> QED BY <3>1, <3>2, <3>3
  <2>2. ASSUME NEW q \in Orders, stripe'[q].state = "paid" PROVE Paid(q) \in sentOut'
    BY <1>1, <1>3, <1>4, <2>2 DEF AnnouncedIsTrue, Paid
  <2> QED BY <2>1, <2>2 DEF AnnouncedIsTrue
<1>8. ASSUME NEW q \in Orders, q # o
      PROVE  RowOutlives(q)' /\ PaidIsOnItsWay(q)' /\ NoticeIsOfRecord(q)'
  BY <1>2, <1>3, <1>8 DEF RowOutlives, PaidIsOnItsWay, NoticeIsOfRecord, LostOnTheWay
<1>9. /\ day \in Nat /\ order[o].expiresAt \in Nat /\ stripe[o].since \in Nat
  BY ShopParameters DEF ShopTypeOK
<1>10. RowOutlives(o)'
  BY <1>1, <1>2, <1>3, <1>9, ShopParameters DEF RowOutlives
<1>11. PaidIsOnItsWay(o)'
  <2> SUFFICES ASSUME to = "paid" PROVE PaidIsOnItsWay(o)'
    BY <1>3 DEF PaidIsOnItsWay
  <2>1. order[o].status = "pending" /\ day <= order[o].expiresAt
    BY <1>1, <1>9, ShopParameters DEF RowOutlives
  <2>2. Paid(o) \notin sentOut
    BY <1>1, PaidEvents DEF AnnouncedIsTrue, SaidOf
  <2>3. seen[Paid(o)] = "none"
    BY <2>2, PaidEvents DEF TurnIsOrderly
  <2> QED BY <1>2, <2>1, <2>3 DEF PaidIsOnItsWay
<1>12. NoticeIsOfRecord(o)'
  BY <1>2 DEF NoticeIsOfRecord
<1> QED BY <1>5, <1>6, <1>7, <1>8, <1>10, <1>11, <1>12

\* Beginning, ending and failing a checkout.
LEMMA CheckoutKeepsIInv ==
    ASSUME OrdersIInv, NEW o \in Orders,
           BeginShopCheckout(o) \/ EndShopCheckout(o) \/ FailShopCheckout(o)
    PROVE  OrdersIInv'
<1> USE DEF OrdersIInv
<1>1. UNCHANGED <<day, stripe, sentOut, answered, seen, turn, mailing, notices, stops>>
  BY DEF BeginShopCheckout, EndShopCheckout, FailShopCheckout
<1>2. TurnIsOrderly' /\ AnnouncedIsTrue' /\ \A q \in Orders : NoticeIsOfRecord(q)'
  BY <1>1 DEF TurnIsOrderly, AnnouncedIsTrue, NoticeIsOfRecord
<1>3. CASE BeginShopCheckout(o)
  <2>1. /\ stripe[o].state = "none" /\ creating' = creating \cup {o}
        /\ order' = [order EXCEPT ![o] = [status |-> "pending",
                                          expiresAt |-> day + Retention,
                                          checkout |-> FALSE]]
    BY <1>3 DEF BeginShopCheckout, ExpiresAt
  <2>2. day + Retention \in 0..(ShopHorizon + Retention)
    BY ShopParameters DEF ShopTypeOK
  <2>3. ShopTypeOK'
    BY <1>1, <2>1, <2>2 DEF ShopTypeOK, OrderStatus
  <2>4. \A q \in Orders : RowOutlives(q)'
    BY <1>1, <2>1 DEF RowOutlives, ShopTypeOK
  <2>5. \A q \in Orders : PaidIsOnItsWay(q)'
    BY <1>1, <2>1 DEF PaidIsOnItsWay, LostOnTheWay, ShopTypeOK
  <2> QED BY <1>2, <2>3, <2>4, <2>5
<1>4. CASE EndShopCheckout(o) \/ FailShopCheckout(o)
  <2>1. /\ creating' \subseteq creating
        /\ \A q \in Orders : /\ order'[q].status = order[q].status
                             /\ order'[q].expiresAt = order[q].expiresAt
        /\ order' \in [Orders -> [status : OrderStatus \cup {"absent"},
                                  expiresAt : 0..(ShopHorizon + Retention),
                                  checkout : BOOLEAN]]
    <3>1. CASE FailShopCheckout(o)
      BY <3>1 DEF FailShopCheckout, ShopTypeOK
    <3>2. CASE EndShopCheckout(o)
      <4>1. (order[o].checkout \/ order[o].status # "absent") \in BOOLEAN
        OBVIOUS
      <4> QED BY <3>2, <4>1 DEF EndShopCheckout, ShopTypeOK
    <3> QED BY <1>4, <3>1, <3>2
  <2>2. ShopTypeOK'
    BY <1>1, <2>1 DEF ShopTypeOK
  <2>3. \A q \in Orders : RowOutlives(q)' /\ PaidIsOnItsWay(q)'
    BY <1>1, <2>1 DEF RowOutlives, PaidIsOnItsWay, LostOnTheWay
  <2> QED BY <1>2, <2>2, <2>3
<1> QED BY <1>3, <1>4

\* Receiving an event begins it once.
LEMMA ReceivingKeepsIInv ==
    ASSUME OrdersIInv, NEW e \in sentOut, ReceiveEvent(e)
    PROVE  OrdersIInv'
<1> USE DEF OrdersIInv
<1>1. /\ turn = NoTurn
      /\ UNCHANGED <<day, order, creating, stripe, sentOut, mailing, notices, stops>>
      /\ e \in ShopEvents
  BY DEF ReceiveEvent, externalVars, ShopTypeOK
<1>2. AnnouncedIsTrue' /\ \A q \in Orders : RowOutlives(q)'
  BY <1>1 DEF AnnouncedIsTrue, RowOutlives
<1>3. CASE answered' = answered \cup {e} /\ UNCHANGED <<seen, turn>>
  <2>1. ShopTypeOK' /\ TurnIsOrderly'
    BY <1>1, <1>3 DEF ShopTypeOK, TurnIsOrderly
  <2>2. \A q \in Orders : PaidIsOnItsWay(q)' /\ NoticeIsOfRecord(q)'
    BY <1>1, <1>3 DEF PaidIsOnItsWay, NoticeIsOfRecord, LostOnTheWay
  <2> QED BY <1>2, <2>1, <2>2
<1>4. CASE /\ seen[e] = "none" /\ UNCHANGED answered
           /\ seen' = [seen EXCEPT ![e] = "received"]
           /\ turn' = [event |-> e, at |-> "begun"]
  <2>1. ShopTypeOK' /\ TurnIsOrderly'
    BY <1>1, <1>4 DEF ShopTypeOK, TurnIsOrderly, NoTurn
  <2>2. \A q \in Orders : Paid(q) # e => seen'[Paid(q)] = seen[Paid(q)]
    BY <1>1, <1>4, PaidEvents DEF ShopTypeOK
  <2>3. turn.event = NoEvent /\ turn'.event = e
    BY <1>1, <1>4 DEF NoTurn
  <2>4. ASSUME NEW q \in Orders, Paid(q) = e
        PROVE  PaidIsOnItsWay(q)' /\ NoticeIsOfRecord(q)'
    BY <1>1, <1>4, <2>3, <2>4, PaidEvents
       DEF PaidIsOnItsWay, NoticeIsOfRecord, LostOnTheWay
  <2>5. ASSUME NEW q \in Orders, Paid(q) # e
        PROVE  PaidIsOnItsWay(q)' /\ NoticeIsOfRecord(q)'
    BY <1>1, <2>2, <2>3, <2>5, PaidEvents
       DEF PaidIsOnItsWay, NoticeIsOfRecord, LostOnTheWay
  <2> QED BY <1>2, <2>1, <2>4, <2>5
<1> QED BY <1>3, <1>4 DEF ReceiveEvent, OnRecord

\* Marking an order paid: its row is there, and it is announced the first time.
LEMMA MarkingKeepsIInv == ASSUME OrdersIInv, MarkShopOrderPaid PROVE OrdersIInv'
<1> USE DEF OrdersIInv
<1>1. PICK o \in Orders : turn.event = Paid(o)
  BY PaidEvents DEF MarkShopOrderPaid, TurnIsOrderly, NoTurn, ShopTypeOK
<1>2. /\ turn # NoTurn /\ seen[Paid(o)] = "received" /\ Paid(o) \in sentOut \ mailing
  BY <1>1 DEF MarkShopOrderPaid, TurnIsOrderly, NoTurn
<1>3. stripe[o].state = "paid"
  BY <1>2, PaidEvents DEF AnnouncedIsTrue, SaidOf, ShopTypeOK
<1>4. order[o].status \in {"pending", "paid"} /\ notices[o] = 0
  BY <1>1, <1>2, <1>3 DEF PaidIsOnItsWay, NoticeIsOfRecord, LostOnTheWay
<1>5. /\ order' = [order EXCEPT ![o].status = "paid", ![o].checkout = TRUE]
      /\ mailing' = mailing \cup {Paid(o)} /\ turn' = NoTurn
      /\ notices' = [notices EXCEPT ![o] = @ + 1]
      /\ UNCHANGED <<day, creating, stripe, sentOut, answered, seen, stops>>
  BY <1>1, <1>4, PaidEvents DEF MarkShopOrderPaid, externalVars
<1>6. ShopTypeOK'
  <2>1. order' \in [Orders -> [status : OrderStatus \cup {"absent"},
                               expiresAt : 0..(ShopHorizon + Retention),
                               checkout : BOOLEAN]]
    BY <1>5 DEF ShopTypeOK, OrderStatus
  <2>2. notices' \in [Orders -> Nat] /\ mailing' \subseteq ShopEvents
    BY <1>5, PaidEvents DEF ShopTypeOK
  <2> QED BY <1>5, <2>1, <2>2 DEF ShopTypeOK, NoTurn
<1>7. TurnIsOrderly' /\ AnnouncedIsTrue'
  BY <1>2, <1>5, PaidEvents DEF TurnIsOrderly, AnnouncedIsTrue, NoTurn
<1>8. order'[o].status = "paid" /\ notices'[o] = 1 /\ turn'.event = NoEvent
  BY <1>4, <1>5 DEF ShopTypeOK, NoTurn
<1>9. RowOutlives(o)' /\ PaidIsOnItsWay(o)' /\ NoticeIsOfRecord(o)'
  BY <1>2, <1>3, <1>5, <1>8, PaidEvents
     DEF RowOutlives, PaidIsOnItsWay, NoticeIsOfRecord
<1>10. ASSUME NEW q \in Orders, q # o
       PROVE  RowOutlives(q)' /\ PaidIsOnItsWay(q)' /\ NoticeIsOfRecord(q)'
  <2>1. /\ order'[q] = order[q] /\ notices'[q] = notices[q] /\ Paid(q) # Paid(o)
        /\ Paid(q) \in mailing' <=> Paid(q) \in mailing
    BY <1>5, <1>10, PaidEvents DEF ShopTypeOK
  <2> QED BY <1>1, <1>5, <1>8, <2>1, PaidEvents
          DEF RowOutlives, PaidIsOnItsWay, NoticeIsOfRecord, LostOnTheWay
<1> QED BY <1>6, <1>7, <1>9, <1>10

\* Closing an order touches none whose money Stripe has taken or still settles;
\* the other events of an order say nothing of a payment.
LEMMA ClosingKeepsIInv ==
    ASSUME OrdersIInv, CloseShopOrder \/ AwaitSettlement \/ FinishShopEvent
    PROVE  OrdersIInv'
<1> USE DEF OrdersIInv
<1>1. /\ UNCHANGED <<day, creating, stripe, sentOut, mailing, notices, stops>>
      /\ turn # NoTurn /\ turn.event \in ShopEvents /\ turn.event.kind # "paid"
      /\ turn.event \in sentOut \ mailing /\ seen[turn.event] = "received"
  <2>1. turn.at # "idle"
    BY DEF CloseShopOrder, AwaitSettlement, FinishShopEvent
  <2>2. turn # NoTurn
    BY <2>1 DEF NoTurn
  <2>3. turn.event.kind # "paid"
    BY <2>2 DEF CloseShopOrder, AwaitSettlement, FinishShopEvent, TurnIsOrderly
  <2> QED BY <2>2, <2>3 DEF CloseShopOrder, AwaitSettlement, FinishShopEvent,
              externalVars, TurnIsOrderly, ShopTypeOK
<1>2. \A q \in Orders : Paid(q) # turn.event
  BY <1>1, PaidEvents
<1>3. AnnouncedIsTrue'
  BY <1>1 DEF AnnouncedIsTrue
<1>4. CASE CloseShopOrder
  <2> DEFINE o == turn.event.order
  <2>1. /\ o \in Orders /\ turn' = [turn EXCEPT !.at = "done"]
        /\ turn.event.kind \in {"failed", "expired"}
        /\ UNCHANGED <<answered, seen>>
    BY <1>1, <1>4, PaidEvents DEF CloseShopOrder
  <2>2. stripe[o].state \in {"failed", "expired"}
    BY <1>1, <2>1 DEF AnnouncedIsTrue, SaidOf, ShopTypeOK
  <2>3. PICK status \in {"expired", "cancelled"} :
           order' \in {order, [order EXCEPT ![o].status = status]}
    <3>1. CASE turn.event.kind = "expired"
      BY <1>4, <3>1 DEF CloseShopOrder
    <3>2. CASE turn.event.kind # "expired"
      BY <1>4, <3>2 DEF CloseShopOrder
    <3> QED BY <3>1, <3>2
  <2>4. \A q \in Orders : q # o => order'[q] = order[q]
    BY <2>3 DEF ShopTypeOK
  <2>5. order' \in [Orders -> [status : OrderStatus \cup {"absent"},
                               expiresAt : 0..(ShopHorizon + Retention),
                               checkout : BOOLEAN]]
    BY <2>1, <2>3 DEF ShopTypeOK, OrderStatus
  <2>6. turn'.event = turn.event /\ turn'.at = "done"
    BY <2>1 DEF TurnIsOrderly
  <2> HIDE DEF o
  <2>7. ShopTypeOK'
    BY <1>1, <2>1, <2>5, <2>6 DEF ShopTypeOK
  <2>8. TurnIsOrderly'
    BY <1>1, <2>1, <2>6 DEF TurnIsOrderly, NoTurn
  <2>9. \A q \in Orders : RowOutlives(q)' /\ PaidIsOnItsWay(q)' /\ NoticeIsOfRecord(q)'
    BY <1>1, <1>2, <2>1, <2>2, <2>4, <2>6
       DEF RowOutlives, PaidIsOnItsWay, NoticeIsOfRecord, LostOnTheWay
  <2> QED BY <1>3, <2>7, <2>8, <2>9
<1>5. CASE AwaitSettlement
  <2>1. /\ turn' = [turn EXCEPT !.at = "done"] /\ UNCHANGED <<order, answered, seen>>
    BY <1>5 DEF AwaitSettlement
  <2>2. turn'.event = turn.event /\ turn'.at = "done"
    BY <2>1 DEF TurnIsOrderly
  <2>3. ShopTypeOK'
    BY <1>1, <2>1, <2>2 DEF ShopTypeOK
  <2>4. TurnIsOrderly'
    BY <1>1, <2>1, <2>2 DEF TurnIsOrderly, NoTurn
  <2>5. \A q \in Orders : RowOutlives(q)' /\ PaidIsOnItsWay(q)' /\ NoticeIsOfRecord(q)'
    BY <1>1, <1>2, <2>1, <2>2
       DEF RowOutlives, PaidIsOnItsWay, NoticeIsOfRecord, LostOnTheWay
  <2> QED BY <1>3, <2>3, <2>4, <2>5
<1>6. CASE FinishShopEvent
  <2>1. /\ turn' = NoTurn /\ UNCHANGED order
        /\ answered' \subseteq sentOut
        /\ \E v \in {"processed", "failed"} : seen' = [seen EXCEPT ![turn.event] = v]
    BY <1>1, <1>6 DEF FinishShopEvent, ShopTypeOK
  <2>2. /\ seen' \in [ShopEvents -> {"none", "received", "processed", "failed"}]
        /\ seen'[turn.event] # "none"
        /\ \A e \in ShopEvents : e # turn.event => seen'[e] = seen[e]
    BY <1>1, <2>1 DEF ShopTypeOK
  <2>3. turn'.event = NoEvent /\ turn'.at = "idle"
    BY <2>1 DEF NoTurn
  <2>4. ShopTypeOK'
    BY <1>1, <2>1, <2>2, <2>3 DEF ShopTypeOK
  <2>5. TurnIsOrderly'
    BY <1>1, <2>1, <2>2 DEF TurnIsOrderly, NoTurn, ShopTypeOK
  <2>6. \A q \in Orders : RowOutlives(q)' /\ PaidIsOnItsWay(q)' /\ NoticeIsOfRecord(q)'
    BY <1>1, <1>2, <2>1, <2>2, <2>3, PaidEvents
       DEF RowOutlives, PaidIsOnItsWay, NoticeIsOfRecord, LostOnTheWay
  <2> QED BY <1>3, <2>4, <2>5, <2>6
<1> QED BY <1>4, <1>5, <1>6

\* The mail ends, well or badly: the order stays paid and announced.
LEMMA NoticeKeepsIInv ==
    ASSUME OrdersIInv, NEW e \in mailing, FinishNotice(e)
    PROVE  OrdersIInv'
<1> USE DEF OrdersIInv
<1>1. PICK v \in {"processed", "failed"} : seen' = [seen EXCEPT ![e] = v]
  BY DEF FinishNotice
<1>2. /\ turn = NoTurn /\ mailing' = mailing \ {e} /\ answered' \subseteq sentOut
      /\ UNCHANGED <<day, order, creating, stripe, sentOut, turn, notices, stops>>
      /\ e \in sentOut /\ e \in ShopEvents /\ seen[e] = "received"
  BY DEF FinishNotice, externalVars, TurnIsOrderly, ShopTypeOK
<1>3. /\ seen' \in [ShopEvents -> {"none", "received", "processed", "failed"}]
      /\ seen'[e] = v /\ \A f \in ShopEvents : f # e => seen'[f] = seen[f]
  BY <1>1, <1>2 DEF ShopTypeOK
<1>4. ShopTypeOK'
  BY <1>2, <1>3 DEF ShopTypeOK
<1>5. TurnIsOrderly' /\ AnnouncedIsTrue'
  BY <1>2, <1>3 DEF TurnIsOrderly, AnnouncedIsTrue, ShopTypeOK
<1>6. ASSUME NEW q \in Orders
      PROVE  RowOutlives(q)' /\ PaidIsOnItsWay(q)' /\ NoticeIsOfRecord(q)'
  <2>1. turn.event = NoEvent
    BY <1>2 DEF NoTurn
  <2>2. CASE Paid(q) = e
    BY <1>2, <1>3, <2>1, <2>2, PaidEvents
       DEF RowOutlives, PaidIsOnItsWay, NoticeIsOfRecord, LostOnTheWay
  <2>3. CASE Paid(q) # e
    BY <1>2, <1>3, <2>3, PaidEvents
       DEF RowOutlives, PaidIsOnItsWay, NoticeIsOfRecord, LostOnTheWay
  <2> QED BY <2>2, <2>3
<1> QED BY <1>4, <1>5, <1>6

\* The cleanup spares what is paid or may still be; a day passes only when
\* every event was seen; a stop loses what is in progress.
LEMMA TimeKeepsIInv ==
    ASSUME OrdersIInv, PurgeOrders \/ NextDay \/ StopServer
    PROVE  OrdersIInv'
<1> USE DEF OrdersIInv
<1>1. CASE PurgeOrders
  <2>1. /\ turn = NoTurn
        /\ order' = [o \in Orders |-> IF Purgeable(o) THEN NoOrder ELSE order[o]]
        /\ UNCHANGED <<day, creating, stripe, sentOut, answered, seen, turn,
                       mailing, notices, stops>>
    BY <1>1 DEF PurgeOrders
  <2>2. NoOrder \in [status : OrderStatus \cup {"absent"},
                     expiresAt : 0..(ShopHorizon + Retention), checkout : BOOLEAN]
    BY ShopParameters DEF NoOrder
  <2>3. ShopTypeOK'
    BY <2>1, <2>2 DEF ShopTypeOK
  <2>4. TurnIsOrderly' /\ AnnouncedIsTrue'
    BY <2>1 DEF TurnIsOrderly, AnnouncedIsTrue
  <2>5. ASSUME NEW q \in Orders
        PROVE  RowOutlives(q)' /\ PaidIsOnItsWay(q)' /\ NoticeIsOfRecord(q)'
    <3>1. /\ day \in Nat /\ order[q].expiresAt \in Nat /\ stripe[q].since \in Nat
      BY ShopParameters DEF ShopTypeOK
    <3>2. \/ order'[q] = order[q]
          \/ /\ order[q].status \in {"pending", "expired", "cancelled"}
             /\ order[q].expiresAt < day
      BY <2>1 DEF Purgeable
    <3>3. RowOutlives(q)'
      BY <2>1, <3>1, <3>2, ShopParameters DEF RowOutlives
    <3>4. PaidIsOnItsWay(q)'
      <4>1. turn.event # Paid(q)
        BY <2>1, PaidEvents DEF NoTurn
      <4> QED BY <2>1, <3>1, <3>2, <4>1 DEF PaidIsOnItsWay, LostOnTheWay
    <3>5. NoticeIsOfRecord(q)'
      BY <2>1 DEF NoticeIsOfRecord
    <3> QED BY <3>3, <3>4, <3>5
  <2> QED BY <2>3, <2>4, <2>5
<1>2. CASE NextDay
  <2>1. /\ turn = NoTurn /\ day' = day + 1 /\ day' \in 0..ShopHorizon
        /\ \A o \in Orders :
              /\ stripe[o].state = "open" => day < stripe[o].since + OpenWindow
              /\ stripe[o].state = "pending" => day < stripe[o].since + SettleWindow
              /\ o \in creating => stripe[o].state # "none"
        /\ \A e \in sentOut : seen[e] # "none"
        /\ UNCHANGED <<order, creating, stripe, sentOut, answered, seen,
                       turn, mailing, notices, stops>>
    BY <1>2, ShopParameters DEF NextDay, ShopTypeOK
  <2>2. ShopTypeOK'
    BY <2>1 DEF ShopTypeOK
  <2>3. TurnIsOrderly' /\ AnnouncedIsTrue'
    BY <2>1 DEF TurnIsOrderly, AnnouncedIsTrue
  <2>4. ASSUME NEW q \in Orders
        PROVE  RowOutlives(q)' /\ PaidIsOnItsWay(q)' /\ NoticeIsOfRecord(q)'
    <3>1. /\ day \in Nat /\ order[q].expiresAt \in Nat /\ stripe[q].since \in Nat
      BY ShopParameters DEF ShopTypeOK
    <3>2. RowOutlives(q)'
      BY <2>1, <3>1, ShopParameters DEF RowOutlives
    <3>3. stripe[q].state = "paid" => seen[Paid(q)] # "none"
      BY <2>1 DEF AnnouncedIsTrue
    <3>4. PaidIsOnItsWay(q)' /\ NoticeIsOfRecord(q)'
      BY <2>1, <3>3 DEF PaidIsOnItsWay, NoticeIsOfRecord, LostOnTheWay
    <3> QED BY <3>2, <3>4
  <2> QED BY <2>2, <2>3, <2>4
<1>3. CASE StopServer
  <2>1. /\ stops' \in 0..MaxStops
        /\ creating' = {} /\ mailing' = {} /\ turn' = NoTurn
        /\ UNCHANGED <<day, order, stripe, sentOut, answered, seen, notices>>
    BY <1>3, ShopParameters DEF StopServer, ShopTypeOK
  <2>2. turn'.event = NoEvent /\ turn'.at = "idle"
    BY <2>1 DEF NoTurn
  <2>3. ShopTypeOK'
    BY <2>1, <2>2 DEF ShopTypeOK
  <2>4. TurnIsOrderly' /\ AnnouncedIsTrue'
    BY <2>1 DEF TurnIsOrderly, AnnouncedIsTrue, NoTurn
  <2>5. ASSUME NEW q \in Orders
        PROVE  RowOutlives(q)' /\ PaidIsOnItsWay(q)' /\ NoticeIsOfRecord(q)'
    <3>1. turn.event = Paid(q) => seen[Paid(q)] = "received"
      BY PaidEvents DEF TurnIsOrderly, NoTurn
    <3> QED BY <2>1, <2>2, <3>1, PaidEvents
            DEF RowOutlives, PaidIsOnItsWay, NoticeIsOfRecord, LostOnTheWay
  <2> QED BY <2>3, <2>4, <2>5
<1> QED BY <1>1, <1>2, <1>3

\* Every step keeps the invariant.
LEMMA NextOrdersIInv == OrdersIInv /\ [ShopNext]_shopVars => OrdersIInv'
<1> SUFFICES ASSUME OrdersIInv, [ShopNext]_shopVars PROVE OrdersIInv'
  OBVIOUS
<1>1. CASE UNCHANGED shopVars
  <2>1. ShopTypeOK' /\ TurnIsOrderly' /\ AnnouncedIsTrue'
    BY <1>1 DEF shopVars, OrdersIInv, ShopTypeOK, TurnIsOrderly, AnnouncedIsTrue
  <2> QED BY <1>1, <2>1 DEF shopVars, OrdersIInv, RowOutlives, PaidIsOnItsWay,
              NoticeIsOfRecord, LostOnTheWay
<1>2. CASE ShopNext
  BY <1>2, StripeKeepsIInv, CheckoutKeepsIInv, ReceivingKeepsIInv,
     MarkingKeepsIInv, ClosingKeepsIInv, NoticeKeepsIInv, TimeKeepsIInv
     DEF ShopNext, CustomerNext, HandleShopEvent
<1> QED BY <1>1, <1>2

\* An order whose money Stripe has taken is never purged, late settlement
\* included, and is announced at most once, unless a stop lost its event.
THEOREM OrdersAreAlwaysSound == ShopSpec => []OrdersAreSound
<1>1. OrdersIInv => OrdersAreSound
  <2> SUFFICES ASSUME OrdersIInv PROVE PaidOrderIsKept /\ NoticedOnce
    BY DEF OrdersAreSound
  <2>1. PaidOrderIsKept
    BY DEF OrdersIInv, PaidOrderIsKept, PaidIsOnItsWay
  <2>2. NoticedOnce
    BY DEF OrdersIInv, NoticedOnce, NoticeIsOfRecord
  <2> QED BY <2>1, <2>2
<1> QED BY <1>1, InitOrdersIInv, NextOrdersIInv, PTL DEF ShopSpec

\* The orders, their sessions and events are well typed.
THEOREM OrdersTypeCorrect == ShopSpec => []ShopTypeOK
<1>1. OrdersIInv => ShopTypeOK
  BY DEF OrdersIInv
<1> QED BY <1>1, InitOrdersIInv, NextOrdersIInv, PTL DEF ShopSpec
-----------------------------------------------------------------------------
(* The shelf: a product is edited under its own page.                      *)

Row == [page : Pages \cup {"none", "removed"}, text : Nat, active : BOOLEAN]

SaveOf == [good : Goods \cup {NoGood}, row : Row,
           page : Pages \cup {"none", "saved"}, sent : BOOLEAN]

ShelfIsTyped ==
    /\ shelf \in [Goods -> Row]
    /\ admin \in [page : Pages,
                  list : [page : Pages \cup {"none"}, rows : [Goods -> Row]],
                  draft : [good : Goods \cup {NoGood}, row : Row]]
    /\ saving \in [Clicks -> SaveOf]
    /\ \A i \in Clicks : saving[i].sent => saving[i].page \in Pages
    /\ loads \subseteq [page : Pages, read : BOOLEAN, rows : [Goods -> Row]]
    /\ texts \in Nat

\* A product that is known under a page is on it, or was removed.
KnownUnder(g, page) == page \in Pages /\ shelf[g].page \in {page, "removed"}

\* What the editor works on, saves, and is shown, or will be.
EditedWhereItBelongs ==
    /\ admin.draft.good \in Goods => KnownUnder(admin.draft.good, admin.page)
    /\ \A i \in Clicks :
          saving[i].good \in Goods => KnownUnder(saving[i].good, saving[i].page)
    /\ \A g \in Goods : /\ admin.list.rows[g] # NoGoods => KnownUnder(g, admin.list.page)
                        /\ \A l \in loads : l.rows[g] # NoGoods => KnownUnder(g, l.page)

ShelfIInv == ShelfIsTyped /\ (Waits => EditedWhereItBelongs /\ moved = {})

-----------------------------------------------------------------------------
(* The cart: one tab at a time.                                            *)

CartIsTyped ==
    /\ cart \in [Goods -> 0..MaxLine] /\ wanted \subseteq Goods
    /\ tab \in [CartTabs -> [at : {"elsewhere", "cart", "stripe", "success", "done"},
                             lines : [Goods -> 0..MaxLine], polls : Nat]]
    /\ paid \in BOOLEAN

\* The cart page shows the cart; what is wanted is in the checkout under way,
\* and nothing is any more once that is paid.
TabsAgree ==
    /\ \A t, u \in CartTabs : tab[t].at # "elsewhere" /\ tab[u].at # "elsewhere" => t = u
    /\ \A t \in CartTabs :
          /\ tab[t].at = "cart" => tab[t].lines = cart
          /\ tab[t].at \in {"stripe", "success"} =>
                IF paid THEN wanted = {} ELSE \A g \in wanted : tab[t].lines[g] > 0

CartIInv ==
    CartIsTyped /\ (~SideBySide /\ ~Revisits => TabsAgree /\ \A g \in wanted : cart[g] > 0)

\* The values that stand for nothing are rows, lists, drafts and saves, too.
LEMMA NothingIsTyped ==
    /\ NoGoods \in Row /\ Removed \in Row /\ Removed.page = "removed"
    /\ NoList \in [page : {"none"}, rows : [Goods -> Row]]
    /\ \A g \in Goods : NoList.rows[g] = NoGoods
    /\ Blank \in [good : {NoGood}, row : Row]
    /\ {NoSaving, Saved} \subseteq [good : {NoGood}, row : Row,
                                  page : {"none", "saved"}, sent : {FALSE}]
<1>1. NoGoods \in Row /\ Removed \in Row /\ Removed.page = "removed"
  BY DEF NoGoods, Removed, Row
<1>2. NoSaving \in [good : {NoGood}, row : Row, page : {"none", "saved"}, sent : {FALSE}]
  BY <1>1 DEF NoSaving
<1>3. Saved \in [good : {NoGood}, row : Row, page : {"none", "saved"}, sent : {FALSE}]
  BY <1>2 DEF Saved
<1> QED BY <1>1, <1>2, <1>3 DEF NoList, Blank

\* A list that is asked for is not read yet.
LEMMA AskedListIsTyped ==
    ASSUME NEW page \in Pages
    PROVE  [page |-> page, read |-> FALSE, rows |-> NoList.rows]
              \in [page : Pages, read : BOOLEAN, rows : [Goods -> Row]]
BY NothingIsTyped

\* So is a list with what was read for it.
LEMMA ReadListIsTyped ==
    ASSUME NEW l \in [page : Pages, read : BOOLEAN, rows : [Goods -> Row]],
           NEW read \in [Goods -> Row]
    PROVE  /\ [l EXCEPT !.read = TRUE, !.rows = read]
                 \in [page : Pages, read : BOOLEAN, rows : [Goods -> Row]]
           /\ [l EXCEPT !.read = TRUE, !.rows = read].page = l.page
           /\ [l EXCEPT !.read = TRUE, !.rows = read].rows = read
OBVIOUS

\* Nothing on the shelf, a page open, an empty cart.
LEMMA InitShelfIInv == ShelfInit => ShelfIInv /\ CartIInv
<1> SUFFICES ASSUME ShelfInit PROVE ShelfIInv /\ CartIInv
  OBVIOUS
<1>1. ShelfIInv
  <2>1. PICK page \in Pages : admin = [page |-> page, list |-> NoList, draft |-> Blank]
    BY DEF ShelfInit
  <2>2. /\ shelf = [g \in Goods |-> NoGoods] /\ texts = 0
        /\ saving = [i \in Clicks |-> NoSaving] /\ loads = {} /\ moved = {}
    BY DEF ShelfInit
  <2>3. ShelfIsTyped
    BY <2>1, <2>2, NothingIsTyped DEF ShelfIsTyped, SaveOf
  <2>4. EditedWhereItBelongs
    BY <2>1, <2>2, NothingIsTyped, ShelfParameters DEF EditedWhereItBelongs
  <2> QED BY <2>2, <2>3, <2>4 DEF ShelfIInv
<1>2. CartIInv
  <2>1. /\ cart = EmptyCart /\ tab = [t \in CartTabs |-> NoTab]
        /\ paid = FALSE /\ wanted = {}
    BY DEF ShelfInit
  <2>2. EmptyCart \in [Goods -> 0..MaxLine]
    BY ShelfParameters DEF EmptyCart
  <2>3. NoTab \in [at : {"elsewhere"}, lines : [Goods -> 0..MaxLine], polls : Nat]
    BY <2>2 DEF NoTab
  <2>4. \A t \in CartTabs : tab[t].at = "elsewhere"
    BY <2>1, <2>3
  <2>5. CartIsTyped
    BY <2>1, <2>2, <2>3 DEF CartIsTyped
  <2> QED BY <2>1, <2>4, <2>5 DEF CartIInv, TabsAgree
<1> QED BY <1>1, <1>2

\* What the editor is shown and begins to edit.
LEMMA EditingKeepsIInv ==
    ASSUME ShelfIInv,
           \/ \E page \in Pages : OpenPageOfShop(page)
           \/ \E l \in loads : ReadList(l) \/ ListArrives(l)
           \/ \E g \in Goods : Edit(g)
           \/ Write
    PROVE  ShelfIInv'
<1> USE DEF ShelfIInv, ShelfIsTyped, EditedWhereItBelongs, KnownUnder
<1>1. ASSUME NEW page \in Pages, OpenPageOfShop(page) PROVE ShelfIInv'
  <2>1. /\ admin' = [admin EXCEPT !.page = page, !.draft = Blank]
        /\ loads' = loads \cup {[page |-> page, read |-> FALSE, rows |-> NoList.rows]}
        /\ UNCHANGED <<shelf, texts, saving, moved>>
    BY <1>1 DEF OpenPageOfShop, Load
  <2>2. /\ Blank \in [good : {NoGood}, row : Row]
        /\ \A g \in Goods : NoList.rows[g] = NoGoods
    BY NothingIsTyped
  <2>3. /\ admin'.page = page /\ admin'.draft = Blank /\ admin'.list = admin.list
    BY <2>1
  <2>4. ShelfIsTyped'
    <3>1. loads' \subseteq [page : Pages, read : BOOLEAN, rows : [Goods -> Row]]
      BY <2>1, AskedListIsTyped
    <3>2. admin' = [page |-> page, list |-> admin.list, draft |-> Blank]
      BY <2>1
    <3> QED BY <2>1, <2>2, <3>1, <3>2
  <2> QED BY <2>1, <2>2, <2>3, <2>4, ShelfParameters
<1>2. ASSUME NEW l \in loads, ReadList(l) PROVE ShelfIInv'
  <2> DEFINE m == [l EXCEPT !.read = TRUE, !.rows = RowsOf(l.page)]
  <2>1. /\ loads' = (loads \ {l}) \cup {m}
        /\ UNCHANGED <<shelf, texts, admin, saving, moved>>
    BY <1>2 DEF ReadList
  <2>2. RowsOf(l.page) \in [Goods -> Row]
    BY DEF RowsOf, NoGoods, Row
  <2>3. m \in [page : Pages, read : BOOLEAN, rows : [Goods -> Row]]
    <3>1. l \in [page : Pages, read : BOOLEAN, rows : [Goods -> Row]]
      OBVIOUS
    <3> QED BY <2>2, <3>1, ReadListIsTyped
  <2>4. \A g \in Goods : m.rows[g] # NoGoods => KnownUnder(g, m.page)
    <3>1. m.rows = RowsOf(l.page) /\ m.page = l.page /\ l.page \in Pages
      BY <2>2, ReadListIsTyped
    <3> QED BY <3>1 DEF RowsOf
  <2> HIDE DEF m
  <2> QED BY <2>1, <2>3, <2>4
<1>3. ASSUME NEW l \in loads, ListArrives(l) PROVE ShelfIInv'
  <2>1. /\ loads' = loads \ {l}
        /\ admin' = [admin EXCEPT !.list = [page |-> l.page, rows |-> l.rows]]
        /\ UNCHANGED <<shelf, texts, saving, moved>>
    BY <1>3 DEF ListArrives
  <2>2. /\ admin'.page = admin.page /\ admin'.draft = admin.draft
        /\ admin'.list = [page |-> l.page, rows |-> l.rows]
    BY <2>1
  <2>3. ShelfIsTyped'
    BY <2>1
  <2> QED BY <2>1, <2>2, <2>3
<1>4. ASSUME NEW g \in Goods, Edit(g) PROVE ShelfIInv'
  <2>1. /\ admin.list.rows[g] # NoGoods
        /\ Waits => admin.list.page = admin.page
        /\ admin' = [admin EXCEPT !.draft = [good |-> g, row |-> admin.list.rows[g]]]
        /\ UNCHANGED <<shelf, texts, saving, loads, moved>>
    BY <1>4 DEF Edit
  <2>2. /\ admin'.page = admin.page /\ admin'.list = admin.list
        /\ admin'.draft.good = g
    BY <2>1
  <2>3. ShelfIsTyped'
    BY <2>1
  <2> QED BY <2>1, <2>2, <2>3
<1>5. CASE Write
  <2>1. PICK on \in BOOLEAN :
          admin' = [admin EXCEPT !.draft.row =
                       [page |-> "none", text |-> texts', active |-> on]]
    BY <1>5 DEF Write
  <2>2. texts' \in Nat /\ UNCHANGED <<shelf, saving, loads, moved>>
    BY <1>5 DEF Write
  <2>3. [page |-> "none", text |-> texts', active |-> on] \in Row
    BY <2>2 DEF Row
  <2>4. /\ admin'.page = admin.page /\ admin'.list = admin.list
        /\ admin'.draft.good = admin.draft.good
    BY <2>1
  <2>5. ShelfIsTyped'
    BY <2>1, <2>2, <2>3
  <2> QED BY <2>2, <2>4, <2>5
<1> QED BY <1>1, <1>2, <1>3, <1>4, <1>5

\* Saving stores a product under the page it was edited on, and so never moves it.
LEMMA SavingKeepsIInv ==
    ASSUME ShelfIInv,
           \/ \E i \in Clicks :
                 Save(i) \/ UpsertProduct(i) \/ SaveAnswered(i) \/ SaveFails(i)
           \/ \E g \in Goods : RemoveProduct(g)
    PROVE  ShelfIInv'
<1> USE DEF ShelfIInv, ShelfIsTyped, EditedWhereItBelongs, KnownUnder
<1>1. ASSUME NEW i \in Clicks, Save(i) PROVE ShelfIInv'
  <2> DEFINE new == [good |-> admin.draft.good, row |-> admin.draft.row,
                     page |-> admin.page, sent |-> TRUE]
  <2>1. /\ saving' = [saving EXCEPT ![i] = new]
        /\ UNCHANGED <<shelf, texts, admin, loads, moved>>
    BY <1>1 DEF Save
  <2>2. /\ new \in SaveOf /\ new.page = admin.page
        /\ new.good = admin.draft.good
    BY DEF SaveOf
  <2> HIDE DEF new
  <2> QED BY <2>1, <2>2
<1>2. ASSUME NEW i \in Clicks, SaveFails(i) PROVE ShelfIInv'
  <2>1. /\ saving' = [saving EXCEPT ![i] = Saved]
        /\ UNCHANGED <<shelf, texts, admin, loads, moved>>
    BY <1>2 DEF SaveFails
  <2>2. Saved \in SaveOf /\ Saved.good = NoGood /\ ~Saved.sent
    BY NothingIsTyped DEF SaveOf
  <2> QED BY <2>1, <2>2, ShelfParameters
<1>3. ASSUME NEW i \in Clicks, SaveAnswered(i) PROVE ShelfIInv'
  <2>1. /\ saving[i].page \in Pages /\ saving' = [saving EXCEPT ![i] = Saved]
        /\ admin' = [admin EXCEPT !.draft = Blank]
        /\ loads' = loads \cup {[page |-> saving[i].page, read |-> FALSE,
                                 rows |-> NoList.rows]}
        /\ UNCHANGED <<shelf, texts, moved>>
    BY <1>3 DEF SaveAnswered, Load
  <2>2. /\ Blank \in [good : {NoGood}, row : Row]
        /\ Saved \in SaveOf /\ Saved.good = NoGood /\ ~Saved.sent
        /\ \A g \in Goods : NoList.rows[g] = NoGoods
    BY NothingIsTyped DEF SaveOf
  <2>3. /\ admin'.page = admin.page /\ admin'.draft = Blank /\ admin'.list = admin.list
    BY <2>1
  <2>4. ShelfIsTyped'
    <3>1. loads' \subseteq [page : Pages, read : BOOLEAN, rows : [Goods -> Row]]
      BY <2>1, AskedListIsTyped
    <3> QED BY <2>1, <2>2, <3>1
  <2> QED BY <2>1, <2>2, <2>3, <2>4, ShelfParameters
<1>4. ASSUME NEW g \in Goods, RemoveProduct(g) PROVE ShelfIInv'
  <2>1. /\ shelf' = [shelf EXCEPT ![g] = Removed]
        /\ loads' = loads \cup {[page |-> admin.page, read |-> FALSE,
                                 rows |-> NoList.rows]}
        /\ UNCHANGED <<texts, admin, saving, moved>>
    BY <1>4 DEF RemoveProduct, Load
  <2>2. /\ Removed \in Row /\ Removed.page = "removed"
        /\ \A h \in Goods : NoList.rows[h] = NoGoods
    BY NothingIsTyped
  <2>3. ShelfIsTyped'
    <3>1. loads' \subseteq [page : Pages, read : BOOLEAN, rows : [Goods -> Row]]
      BY <2>1, AskedListIsTyped
    <3> QED BY <2>1, <2>2, <3>1
  <2>4. \A h \in Goods : shelf'[h].page \in {shelf[h].page, "removed"}
    BY <2>1, <2>2
  <2> QED BY <2>1, <2>2, <2>3, <2>4
<1>5. ASSUME NEW i \in Clicks, UpsertProduct(i) PROVE ShelfIInv'
  <2> DEFINE good == saving[i].good
             new == [saving[i].row EXCEPT !.page = saving[i].page]
  <2>1. /\ saving[i] \in SaveOf /\ saving[i].page \in Pages
        /\ saving' = [saving EXCEPT ![i].sent = FALSE]
        /\ UNCHANGED <<texts, admin, loads>>
    BY <1>5 DEF UpsertProduct
  <2>2. saving' \in [Clicks -> SaveOf] /\ \A j \in Clicks :
           /\ saving'[j].good = saving[j].good /\ saving'[j].page = saving[j].page
           /\ saving'[j].sent => saving[j].sent
    BY <2>1 DEF SaveOf
  <2>3. new \in Row /\ new.page = saving[i].page
    BY <2>1 DEF Row, SaveOf
  <2> HIDE DEF new
  <2>4. ASSUME NEW g \in Goods, shelf[g] = NoGoods,
               shelf' = [shelf EXCEPT ![g] = new], UNCHANGED moved
        PROVE  ShelfIInv'
    <3>1. shelf[g].page = "none"
      BY <2>4 DEF NoGoods
    <3>2. ShelfIsTyped'
      BY <2>1, <2>2, <2>3, <2>4
    <3>3. \A h \in Goods, page \in Pages : KnownUnder(h, page) => KnownUnder(h, page)'
      BY <2>4, <3>1, ShelfParameters
    <3> QED BY <2>1, <2>2, <2>4, <3>2, <3>3, ShelfParameters
  <2>5. ASSUME good \in OnShelf,
               shelf' = [shelf EXCEPT ![good] = new],
               moved' = IF shelf[good].page = new.page THEN moved ELSE moved \cup {good}
        PROVE  ShelfIInv'
    <3>1. good \in Goods /\ shelf[good].page \in Pages
      BY <2>5 DEF OnShelf
    <3>2. ShelfIsTyped'
      BY <2>1, <2>2, <2>3, <2>5
    <3>3. SUFFICES ASSUME Waits PROVE EditedWhereItBelongs' /\ moved' = {}
      BY <3>2
    <3>4. shelf[good].page = new.page
      BY <2>3, <3>1, <3>3, ShelfParameters
    <3>5. \A h \in Goods : shelf'[h].page = shelf[h].page
      BY <2>3, <2>5, <3>4
    <3> QED BY <2>1, <2>2, <2>5, <3>1, <3>3, <3>4, <3>5
  <2>6. CASE UNCHANGED <<shelf, moved>>
    BY <2>1, <2>2, <2>6
  <2> QED BY <1>5, <2>4, <2>5, <2>6 DEF UpsertProduct, new
<1> QED BY <1>1, <1>2, <1>3, <1>4, <1>5

\* One customer's step, the pages of the shop being what they are.
LEMMA CustomerKeepsCart ==
    ASSUME CartIInv, CartNext
    PROVE  CartIInv'
<1> PICK t \in CartTabs :
        \/ OpenCart(t) \/ CloseTab(t) \/ CheckOut(t) \/ Cancel(t) \/ Return(t)
        \/ PaidEvent(t) \/ Poll(t) \/ Revisit(t)
        \/ \E g \in Goods : \/ AddToCart(t, g) \/ RemoveLine(t, g)
                            \/ \E n \in 1..MaxLine : SetQuantity(t, g, n)
  BY DEF CartNext
<1> USE DEF CartIInv, CartIsTyped
<1>1. NoTab \in [at : {"elsewhere"}, lines : [Goods -> 0..MaxLine], polls : Nat]
  BY ShelfParameters DEF NoTab, EmptyCart
<1>2. ASSUME NEW g \in Goods, AddToCart(t, g) PROVE CartIInv'
  <2>1. /\ tab[t].at = "elsewhere" /\ cart[g] < MaxLine
        /\ SideBySide \/ \A u \in CartTabs \ {t} : tab[u].at = "elsewhere"
        /\ cart' = [cart EXCEPT ![g] = @ + 1] /\ wanted' = wanted \cup {g}
        /\ UNCHANGED <<tab, paid>>
    BY <1>2 DEF AddToCart, OnlyHere
  <2>2. CartIsTyped'
    BY <2>1, ShelfParameters
  <2>3. ASSUME ~SideBySide /\ ~Revisits
        PROVE  TabsAgree' /\ \A h \in wanted' : cart'[h] > 0
    <3>1. \A u \in CartTabs : tab[u].at = "elsewhere"
      BY <2>1, <2>3
    <3> QED BY <2>1, <2>3, <3>1, ShelfParameters DEF TabsAgree
  <2> QED BY <2>2, <2>3
<1>3. ASSUME NEW next \in [at : {"cart", "success"}, lines : [Goods -> 0..MaxLine],
                           polls : Nat],
             \/ next.at = "cart" /\ next.lines = cart
             \/ next.at = "success" /\ paid /\ (Revisits \/ wanted = {}),
             \/ tab[t].at # "elsewhere"
             \/ SideBySide \/ \A u \in CartTabs \ {t} : tab[u].at = "elsewhere",
             tab' = [tab EXCEPT ![t] = next], UNCHANGED <<cart, paid, wanted>>
      PROVE  CartIInv'
  <2>1. tab'[t] = next /\ \A u \in CartTabs \ {t} : tab'[u] = tab[u]
    BY <1>3
  <2>2. CartIsTyped'
    BY <1>3
  <2> QED BY <1>3, <2>1, <2>2 DEF TabsAgree
<1>4. CASE OpenCart(t) \/ Cancel(t)
  <2> DEFINE next == [NoTab EXCEPT !.at = "cart", !.lines = cart]
  <2>1. /\ next \in [at : {"cart", "success"}, lines : [Goods -> 0..MaxLine], polls : Nat]
        /\ next.at = "cart" /\ next.lines = cart
    BY <1>1
  <2>2. tab' = [tab EXCEPT ![t] = next] /\ UNCHANGED <<cart, paid, wanted>>
    BY <1>4 DEF OpenCart, Cancel, Show
  <2>3. \/ tab[t].at # "elsewhere"
        \/ SideBySide \/ \A u \in CartTabs \ {t} : tab[u].at = "elsewhere"
    BY <1>4 DEF OpenCart, Cancel, OnlyHere
  <2> HIDE DEF next
  <2> QED BY <1>3, <2>1, <2>2, <2>3
<1>5. CASE Revisit(t)
  <2> DEFINE next == [NoTab EXCEPT !.at = "success"]
  <2>1. /\ next \in [at : {"cart", "success"}, lines : [Goods -> 0..MaxLine], polls : Nat]
        /\ next.at = "success"
    BY <1>1
  <2>2. /\ tab' = [tab EXCEPT ![t] = next] /\ UNCHANGED <<cart, paid, wanted>>
        /\ paid /\ (Revisits \/ wanted = {})
        /\ SideBySide \/ \A u \in CartTabs \ {t} : tab[u].at = "elsewhere"
    BY <1>5 DEF Revisit, OnlyHere
  <2> HIDE DEF next
  <2> QED BY <1>3, <2>1, <2>2
<1>6. CASE CloseTab(t)
  <2>1. tab' = [tab EXCEPT ![t] = NoTab] /\ UNCHANGED <<cart, paid, wanted>>
    BY <1>6 DEF CloseTab
  <2>2. /\ tab'[t].at = "elsewhere" /\ \A u \in CartTabs \ {t} : tab'[u] = tab[u]
    BY <1>1, <2>1
  <2>3. CartIsTyped'
    BY <1>1, <2>1
  <2> QED BY <2>1, <2>2, <2>3 DEF TabsAgree
<1>7. ASSUME NEW g \in Goods, NEW n \in 0..MaxLine,
             tab[t].at = "cart", Update(t, [tab[t].lines EXCEPT ![g] = n]),
             wanted' \subseteq wanted, g \in wanted' => n > 0
      PROVE  CartIInv'
  <2> DEFINE new == [tab[t].lines EXCEPT ![g] = n]
  <2>1. new \in [Goods -> 0..MaxLine] /\ new[g] = n
    OBVIOUS
  <2>2. \A h \in Goods : h # g => new[h] = tab[t].lines[h]
    OBVIOUS
  <2> HIDE DEF new
  <2>3. cart' = new /\ tab' = [tab EXCEPT ![t].lines = new] /\ UNCHANGED paid
    BY <1>7 DEF Update, new
  <2>4. /\ tab'[t].at = "cart" /\ tab'[t].lines = new
        /\ \A u \in CartTabs \ {t} : tab'[u] = tab[u]
    BY <1>7, <2>3
  <2>5. CartIsTyped'
    BY <1>7, <2>1, <2>3
  <2>6. ASSUME ~SideBySide /\ ~Revisits
        PROVE  TabsAgree' /\ \A h \in wanted' : cart'[h] > 0
    <3>1. \A u \in CartTabs \ {t} : tab[u].at = "elsewhere"
      BY <1>7, <2>6 DEF TabsAgree
    <3>2. TabsAgree'
      BY <2>3, <2>4, <3>1 DEF TabsAgree
    <3>3. tab[t].lines = cart
      BY <1>7, <2>6 DEF TabsAgree
    <3> QED BY <1>7, <2>1, <2>2, <2>3, <2>6, <3>2, <3>3
  <2> QED BY <2>5, <2>6
<1>8. ASSUME NEW g \in Goods,
             RemoveLine(t, g) \/ \E n \in 1..MaxLine : SetQuantity(t, g, n)
      PROVE  CartIInv'
  <2>1. 0 \in 0..MaxLine /\ 1..MaxLine \subseteq 0..MaxLine
    BY ShelfParameters
  <2>2. CASE RemoveLine(t, g)
    <3>1. /\ tab[t].at = "cart" /\ Update(t, [tab[t].lines EXCEPT ![g] = 0])
          /\ wanted' \subseteq wanted /\ g \notin wanted'
      BY <2>2 DEF RemoveLine, Update
    <3> QED BY <1>7, <2>1, <3>1
  <2>3. ASSUME NEW n \in 1..MaxLine, SetQuantity(t, g, n) PROVE CartIInv'
    <3>1. /\ tab[t].at = "cart" /\ Update(t, [tab[t].lines EXCEPT ![g] = n])
          /\ wanted' \subseteq wanted /\ n > 0 /\ n \in 0..MaxLine
      BY <2>1, <2>3 DEF SetQuantity, Update
    <3> QED BY <1>7, <3>1
  <2> QED BY <1>8, <2>2, <2>3
<1>9. CASE CheckOut(t)
  <2> DEFINE sold == [g \in Goods |-> IF g \in OnSale THEN tab[t].lines[g] ELSE 0]
  <2>1. /\ tab[t].at = "cart" /\ paid' = FALSE /\ wanted' = wanted \cap OnSale
        /\ UNCHANGED cart
        /\ tab' = [tab EXCEPT ![t].at = "stripe", ![t].lines = sold]
    BY <1>9 DEF CheckOut
  <2>2. sold \in [Goods -> 0..MaxLine] /\ \A g \in Goods \cap OnSale : sold[g] = tab[t].lines[g]
    BY ShelfParameters
  <2> HIDE DEF sold
  <2>3. /\ tab'[t].at = "stripe" /\ tab'[t].lines = sold
        /\ \A u \in CartTabs \ {t} : tab'[u] = tab[u]
    BY <2>1
  <2>4. CartIsTyped'
    BY <2>1, <2>2
  <2>5. ASSUME ~SideBySide /\ ~Revisits
        PROVE  TabsAgree' /\ \A h \in wanted' : cart'[h] > 0
    <3>1. /\ \A u \in CartTabs \ {t} : tab[u].at = "elsewhere"
          /\ tab[t].lines = cart
      BY <2>1, <2>5 DEF TabsAgree
    <3> QED BY <2>1, <2>2, <2>3, <2>5, <3>1 DEF TabsAgree
  <2> QED BY <2>4, <2>5
<1>10. CASE Return(t)
  <2>1. /\ tab[t].at = "stripe" /\ tab' = [tab EXCEPT ![t].at = "success"]
        /\ UNCHANGED <<cart, paid, wanted>>
    BY <1>10 DEF Return
  <2>2. /\ tab'[t].at = "success" /\ tab'[t].lines = tab[t].lines
        /\ \A u \in CartTabs \ {t} : tab'[u] = tab[u]
    BY <2>1
  <2>3. CartIsTyped'
    BY <2>1
  <2> QED BY <2>1, <2>2, <2>3 DEF TabsAgree
<1>11. CASE PaidEvent(t)
  <2>1. /\ tab[t].at \in {"stripe", "success"} /\ ~paid /\ paid' = TRUE
        /\ wanted' = wanted \ {g \in Goods : tab[t].lines[g] > 0}
        /\ UNCHANGED <<cart, tab>>
    BY <1>11 DEF PaidEvent
  <2> QED BY <2>1 DEF TabsAgree
<1>12. CASE Poll(t)
  <2>1. /\ tab[t].at = "success" /\ UNCHANGED <<paid, wanted>>
        /\ \/ paid /\ cart' = EmptyCart /\ tab' = [tab EXCEPT ![t].at = "done"]
           \/ ~paid /\ tab' = [tab EXCEPT ![t].polls = @ + 1] /\ UNCHANGED cart
    BY <1>12 DEF Poll
  <2>2. EmptyCart \in [Goods -> 0..MaxLine]
    BY ShelfParameters DEF EmptyCart
  <2>3. /\ tab'[t].at \in {"success", "done"} /\ tab'[t].lines = tab[t].lines
        /\ paid => tab'[t].at = "done"
        /\ \A u \in CartTabs \ {t} : tab'[u] = tab[u]
    BY <2>1
  <2>4. CartIsTyped'
    <3>1. CASE cart' = EmptyCart /\ tab' = [tab EXCEPT ![t].at = "done"]
      BY <2>1, <2>2, <3>1
    <3>2. CASE tab' = [tab EXCEPT ![t].polls = @ + 1] /\ UNCHANGED cart
      <4>1. tab[t].polls + 1 \in Nat
        OBVIOUS
      <4> QED BY <2>1, <3>2, <4>1
    <3> QED BY <2>1, <3>1, <3>2
  <2>5. ASSUME ~SideBySide /\ ~Revisits
        PROVE  TabsAgree' /\ \A h \in wanted' : cart'[h] > 0
    <3>1. \A u \in CartTabs \ {t} : tab[u].at = "elsewhere"
      BY <2>1, <2>5 DEF TabsAgree
    <3> QED BY <2>1, <2>3, <2>5, <3>1 DEF TabsAgree
  <2> QED BY <2>4, <2>5
<1> QED BY <1>2, <1>4, <1>5, <1>6, <1>8, <1>9, <1>10, <1>11, <1>12

\* Every step keeps both invariants: the administrator leaves the carts alone,
\* and a customer the shelf.
LEMMA NextShelfIInv ==
    ShelfIInv /\ CartIInv /\ [ShelfNext]_shelfVars => ShelfIInv' /\ CartIInv'
<1> SUFFICES ASSUME ShelfIInv, CartIInv, [ShelfNext]_shelfVars
             PROVE  ShelfIInv' /\ CartIInv'
  OBVIOUS
<1>1. ASSUME UNCHANGED editVars PROVE ShelfIInv'
  BY <1>1 DEF editVars, ShelfIInv, ShelfIsTyped, EditedWhereItBelongs, KnownUnder
<1>2. ASSUME UNCHANGED cartVars PROVE CartIInv'
  BY <1>2 DEF cartVars, CartIInv, CartIsTyped, TabsAgree
<1>3. CASE AdminNext
  <2>1. UNCHANGED cartVars
    BY <1>3 DEF AdminNext, OpenPageOfShop, ReadList, ListArrives, Edit,
       RemoveProduct, Write, Save, UpsertProduct, SaveAnswered, SaveFails
  <2>2. ShelfIInv'
    BY <1>3, EditingKeepsIInv, SavingKeepsIInv DEF AdminNext
  <2> QED BY <1>2, <2>1, <2>2
<1>4. CASE CartNext
  <2>1. UNCHANGED editVars
    BY <1>4 DEF CartNext, OpenCart, CloseTab, CheckOut, Cancel, Return,
       PaidEvent, Poll, Revisit, AddToCart, RemoveLine, SetQuantity, Update
  <2> QED BY <1>1, <1>4, <2>1, CustomerKeepsCart
<1>5. CASE UNCHANGED shelfVars
  BY <1>1, <1>2, <1>5 DEF shelfVars, editVars, cartVars
<1> QED BY <1>3, <1>4, <1>5 DEF ShelfNext

\* Editing a product never moves it to another page of the shop, and a cart keeps
\* what is wanted, whatever is answered when.
THEOREM ShelfIsAlwaysSound == ShelfSpec => []ShelfIsSound
<1>1. ShelfIInv /\ CartIInv => ShelfIsSound
  BY DEF ShelfIInv, CartIInv, ShelfIsSound, ProductsStayOnTheirPage, CartIsKept
<1> QED BY <1>1, InitShelfIInv, NextShelfIInv, PTL DEF ShelfSpec

-----------------------------------------------------------------------------
(* The printers.  Rows only gain names that matching and cleaning lead to, *)
(* and requests only add rows: what the clean-up read once is still true   *)
(* of every row it has not come to.                                        *)

\* Rows keep their shape, and the next ids are free.
RowsAreTyped ==
    /\ printer = [r \in Rows |-> printer[r]] /\ lastRow \in Nat
    /\ \A r \in Rows :
          /\ printer[r] = [name |-> printer[r].name, uuid |-> printer[r].uuid,
                           slug |-> printer[r].slug]
          /\ r \in Present => printer[r].name \in Names /\ r <= lastRow
ToolsAreTyped ==
    /\ toolhead = [t \in Tools |-> toolhead[t]]
    /\ \A t \in Tools : toolhead[t] = [of |-> toolhead[t].of, uuid |-> toolhead[t].uuid]
    /\ \E k \in 0..MaxTool : {t \in Tools : toolhead[t] # NoToolhead} = 1..k
ProfilesAreTyped ==
    /\ profile = [p \in Profiles |-> profile[p]]
    /\ \A p \in Profiles :
          /\ profile[p] = [printer |-> profile[p].printer, tool |-> profile[p].tool,
                           asked |-> profile[p].asked]
          /\ profile[p] # NoProfile => profile[p].asked \in Names /\ profile[p].tool \in Tools
PrintersAreTyped == RowsAreTyped /\ ToolsAreTyped /\ ProfilesAreTyped

\* The dataset finds its rows under the names it gave them.
DatasetKeepsNames ==
    \A r \in Present, n \in Dataset : printer[r].uuid = <<"dataset", n>> => printer[r].name = n

\* A request goes on with a row that was asked for, and with a toolhead of that row
\* unless the clean-up overtook it.
AskIsSound ==
    /\ ask = [step |-> ask.step, name |-> ask.name, asked |-> ask.asked, row |-> ask.row,
              tool |-> ask.tool, alone |-> ask.alone, overtaken |-> ask.overtaken]
    /\ ask.step \in {"idle", "insert", "equip", "store"}
    /\ ask.step # "idle" => ask.asked \in Names
    /\ ask.step = "insert" => ask.name \in SameMachine(ask.asked)
    /\ ask.step \in {"equip", "store"} =>
          /\ ask.row \in 1..lastRow
          /\ ask.row \in Present => printer[ask.row].name \in SameMachine(ask.asked)
    /\ ask.step = "store" =>
          /\ ask.tool \in Tools
          /\ ask.overtaken \/ (toolhead[ask.tool].of = ask.row /\ ~BeingEmptied(ask.row))

\* The importers know what they bring.
BringsItsOwn ==
    /\ work.kind = "dataset" =>
          /\ work.todo \subseteq Dataset
          /\ work.step \in {"insert", "update"} => work.name \in Dataset
          /\ work.step = "update" => work.row \in Present /\ printer[work.row].name = work.name
    /\ work.kind = "printer" =>
          /\ work.todo \subseteq Curated
          /\ work.step = "insert" => work.name \in Curated

AtOneRow == work.step \in {"rename", "toolheads", "profiles", "delete"}
Merging == work.step \in {"toolheads", "profiles", "delete"}

\* What the clean-up read at first is true of the rows that are left to it.
CleansWhatItRead ==
    /\ work.kind = "clean" =>
          \A r \in work.todo : /\ r \in Present /\ work.names[r] = printer[r].name
                               /\ CleanOf[printer[r].name] # printer[r].name
    /\ AtOneRow => /\ work.kind = "clean" /\ work.row \in Present /\ work.row \notin work.todo
                   /\ work.names[work.row] = printer[work.row].name
                   /\ CleanOf[printer[work.row].name] # printer[work.row].name
    /\ Merging => /\ work.clash \in Present /\ work.clash # work.row
                  /\ KeyOf[printer[work.clash].name] = KeyOf[CleanOf[printer[work.row].name]]
    /\ work.step = "profiles" =>
          \A p \in Profiles \ torn : profile[p] # NoProfile /\ profile[p].printer = work.row
                                       => toolhead[profile[p].tool].of = work.clash

WorkIsSound ==
    /\ work = [kind |-> work.kind, step |-> work.step, name |-> work.name, row |-> work.row,
               clash |-> work.clash, todo |-> work.todo, names |-> work.names]
    /\ BringsItsOwn /\ CleansWhatItRead

PrintersIInv ==
    /\ PrintersAreTyped /\ ToolheadsFit /\ ProfilesStayPut /\ DatasetKeepsNames
    /\ AskIsSound /\ WorkIsSound

LEMMA SameMachineIs ==
  ASSUME NEW n \in Names
  PROVE  /\ n \in SameMachine(n)
         /\ \A m \in SameMachine(n) :
               /\ m \in Names /\ CleanOf[m] \in SameMachine(n)
               /\ \A k \in Names : KeyOf[k] = KeyOf[m] => k \in SameMachine(n)
  <1>1. n \in SameMachine(n)
    BY DEF SameMachine
  <1>2. ASSUME NEW m \in SameMachine(n)
        PROVE  m \in Names /\ CleanOf[m] \in SameMachine(n)
    BY PrinterParameters DEF SameMachine, OneMachine
  <1>3. ASSUME NEW m \in SameMachine(n), NEW k \in Names, KeyOf[k] = KeyOf[m]
        PROVE  k \in SameMachine(n)
    <2> SUFFICES ASSUME NEW S \in SUBSET Names, n \in S, OneMachine(S) PROVE k \in S
      BY DEF SameMachine
    <2>1. m \in S
      BY DEF SameMachine
    <2> QED
      BY <1>3, <2>1 DEF OneMachine
  <1> QED
    BY <1>1, <1>2, <1>3

\* A name of the curated list or of the dataset is clean.
LEMMA BroughtIsClean ==
  ASSUME NEW n \in Curated \cup Dataset
  PROVE  n \in Names /\ CleanOf[n] = n
  BY PrinterParameters

LEMMA PrintersInitIsSound == PrintersInit => PrintersIInv
  <1> SUFFICES ASSUME PrintersInit PROVE PrintersIInv
      OBVIOUS
  <1>1. Present = {} /\ \A p \in Profiles : profile[p] = NoProfile
    BY DEF PrintersInit, Present
  <1>2. MaxTool \in Nat /\ {t \in Tools : toolhead[t] # NoToolhead} = 1..0
    BY PrinterParameters DEF PrintersInit
  <1>3. PrintersAreTyped
    <2>1. RowsAreTyped
      BY <1>1 DEF PrintersInit, RowsAreTyped, NoPrinter
    <2>2. ToolsAreTyped
      <3>1. \E k \in 0..MaxTool : {t \in Tools : toolhead[t] # NoToolhead} = 1..k
        BY <1>2
      <3> QED
        BY <3>1 DEF PrintersInit, ToolsAreTyped, NoToolhead
    <2>3. ProfilesAreTyped
      BY DEF PrintersInit, ProfilesAreTyped, NoProfile
    <2> QED
      BY <2>1, <2>2, <2>3 DEF PrintersAreTyped
  <1>4. ToolheadsFit /\ ProfilesStayPut /\ DatasetKeepsNames
    BY <1>1 DEF ToolheadsFit, ProfilesStayPut, DatasetKeepsNames
  <1>5. AskIsSound
    BY DEF PrintersInit, AskIsSound, NoAsk
  <1>6. WorkIsSound
    BY DEF PrintersInit, WorkIsSound, NoWork, BringsItsOwn, CleansWhatItRead, AtOneRow, Merging
  <1> QED
    BY <1>3, <1>4, <1>5, <1>6 DEF PrintersIInv

-----------------------------------------------------------------------------
(* The visitor's request.                                                  *)

\* Nothing but the request goes on.
LEMMA AskGoesOn ==
  ASSUME PrintersIInv, UNCHANGED <<printer, lastRow, toolhead, profile, work, torn>>, AskIsSound'
  PROVE  PrintersIInv'
  <1>1. Present' = Present
    BY DEF Present
  <1>2. PrintersAreTyped'
    BY <1>1 DEF PrintersIInv, PrintersAreTyped, RowsAreTyped, ToolsAreTyped, ProfilesAreTyped
  <1>3. ToolheadsFit' /\ ProfilesStayPut' /\ DatasetKeepsNames'
    BY <1>1 DEF PrintersIInv, ToolheadsFit, BeingMoved, BeingEmptied, ProfilesStayPut,
                DatasetKeepsNames
  <1>4. WorkIsSound'
    BY <1>1 DEF PrintersIInv, WorkIsSound, BringsItsOwn, CleansWhatItRead, AtOneRow, Merging
  <1> QED
    BY <1>2, <1>3, <1>4 DEF PrintersIInv

\* An id that is in use was given.
LEMMA PresentIsGiven ==
  ASSUME PrintersIInv, NEW r \in Present
  PROVE  r \in 1..lastRow /\ lastRow \in Nat
  BY DEF PrintersIInv, PrintersAreTyped, RowsAreTyped, Present, Rows

LEMMA AskPrinterIsSound ==
  ASSUME PrintersIInv, NEW n \in Names, AskPrinter(n)
  PROVE  PrintersIInv'
  <1>1. PICK curated : curated = {c \in Curated : KeyOf[c] = KeyOf[n]}
    OBVIOUS
  <1>2. PICK name \in IF curated = {} THEN {n} ELSE curated,
             r \in IF Alike(n) = {} THEN {NoRow} ELSE Alike(n) :
             ask' = [step |-> IF r = NoRow THEN "insert" ELSE "equip",
                     name |-> name, asked |-> n, row |-> r, tool |-> NoTool,
                     alone |-> work = NoWork, overtaken |-> FALSE]
    BY <1>1 DEF AskPrinter
  <1>3. UNCHANGED <<printer, lastRow, toolhead, profile, work, torn>>
    BY DEF AskPrinter
  <1>4. name \in SameMachine(n)
    <2>1. name \in Names /\ KeyOf[name] = KeyOf[n]
      BY <1>1, <1>2, BroughtIsClean
    <2> QED
      BY <2>1, SameMachineIs
  <1>5. r # NoRow => r \in 1..lastRow /\ printer[r].name \in SameMachine(n)
    <2> SUFFICES ASSUME r # NoRow PROVE r \in 1..lastRow /\ printer[r].name \in SameMachine(n)
      OBVIOUS
    <2>1. r \in Present /\ KeyOf[printer[r].name] = KeyOf[n]
      BY <1>2 DEF Alike
    <2>2. printer[r].name \in Names /\ r \in 1..lastRow
      BY <2>1, PresentIsGiven DEF PrintersIInv, PrintersAreTyped, RowsAreTyped, Present
    <2> QED
      BY <2>1, <2>2, SameMachineIs
  <1>6. PICK s, b : /\ s = (IF r = NoRow THEN "insert" ELSE "equip")
                    /\ ask' = [step |-> s, name |-> name, asked |-> n, row |-> r,
                               tool |-> NoTool, alone |-> b, overtaken |-> FALSE]
    BY <1>2
  <1>7. AskIsSound'
    BY <1>3, <1>4, <1>5, <1>6 DEF AskIsSound, Present
  <1> QED
    BY <1>3, <1>7, AskGoesOn

\* It ends, is refused, or reads a row again.
LEMMA AskEndsIsSound ==
  ASSUME PrintersIInv, RefuseAsk \/ EndAsk
  PROVE  PrintersIInv'
  <1>1. ask' = NoAsk /\ UNCHANGED <<printer, lastRow, toolhead, profile, work, torn>>
    BY DEF RefuseAsk, EndAsk
  <1>2. AskIsSound'
    BY <1>1 DEF AskIsSound, NoAsk
  <1> QED
    BY <1>1, <1>2, AskGoesOn

LEMMA AskReadsIsSound ==
  ASSUME PrintersIInv, NEW r \in Rows, AskReads(r)
  PROVE  PrintersIInv'
  <1>1. /\ ask.step = "insert" /\ r \in Present /\ printer[r].name = ask.name
        /\ ask' = [ask EXCEPT !.step = "equip", !.row = r]
        /\ UNCHANGED <<printer, lastRow, toolhead, profile, work, torn>>
    BY DEF AskReads, Named
  <1>2. r \in 1..lastRow
    BY <1>1, PresentIsGiven
  <1>3. AskIsSound'
    BY <1>1, <1>2 DEF PrintersIInv, AskIsSound, Present
  <1> QED
    BY <1>1, <1>3, AskGoesOn

\* A row is written under the next id.
LEMMA PrinterIsInserted ==
  ASSUME PrintersIInv, NEW r \in Rows, NEW n \in Names, NEW kind, InsertPrinter(r, n, kind),
         UNCHANGED <<toolhead, profile>>
  PROVE  /\ PrintersAreTyped' /\ ProfilesStayPut' /\ DatasetKeepsNames'
         /\ Present' = Present \cup {r} /\ r \notin Present /\ printer'[r].name = n
         /\ lastRow \in Nat /\ lastRow' = r /\ r = lastRow + 1
         /\ \A q \in Present : printer'[q] = printer[q]
  <1>1. PICK s : printer' = [printer EXCEPT ![r] = [name |-> n, uuid |-> <<kind, n>>, slug |-> s]]
    BY DEF InsertPrinter
  <1>2. r = lastRow + 1 /\ lastRow' = r /\ lastRow \in Nat
    BY DEF InsertPrinter, PrintersIInv, PrintersAreTyped, RowsAreTyped
  <1>3. r \notin Present
    <2>1. \A q \in Present : q <= lastRow
      BY DEF PrintersIInv, PrintersAreTyped, RowsAreTyped, Present
    <2> QED
      BY <1>2, <2>1
  <1>4. /\ \A q \in Rows : printer'[q] = IF q = r THEN [name |-> n, uuid |-> <<kind, n>>, slug |-> s]
                                         ELSE printer[q]
        /\ printer' = [q \in Rows |-> printer'[q]]
    BY <1>1 DEF PrintersIInv, PrintersAreTyped, RowsAreTyped
  <1>5. n # NoName
    BY PrinterParameters
  <1>6. Present' = Present \cup {r}
    BY <1>4, <1>5 DEF Present, NoPrinter
  <1>7. \A q \in Present : printer'[q] = printer[q]
    BY <1>3, <1>4 DEF Present
  <1>8. PrintersAreTyped'
    <2>1. ASSUME NEW q \in Rows
          PROVE  /\ printer'[q] = [name |-> printer'[q].name, uuid |-> printer'[q].uuid,
                                   slug |-> printer'[q].slug]
                 /\ q \in Present' => printer'[q].name \in Names /\ q <= lastRow'
      <3>1. CASE q = r
        BY <1>2, <1>4, <3>1 DEF Rows
      <3>2. CASE q # r
        BY <1>2, <1>4, <1>6, <3>2 DEF PrintersIInv, PrintersAreTyped, RowsAreTyped, Rows
      <3> QED
        BY <3>1, <3>2
    <2>2. RowsAreTyped'
      BY <1>2, <1>4, <2>1 DEF RowsAreTyped, Rows
    <2>3. ToolsAreTyped' /\ ProfilesAreTyped'
      BY DEF PrintersIInv, PrintersAreTyped, ToolsAreTyped, ProfilesAreTyped
    <2> QED
      BY <2>2, <2>3 DEF PrintersAreTyped
  <1>9. ProfilesStayPut'
    BY <1>6, <1>7 DEF PrintersIInv, ProfilesStayPut
  <1>10. DatasetKeepsNames'
    <2> SUFFICES ASSUME NEW q \in Present', NEW m \in Dataset, printer'[q].uuid = <<"dataset", m>>
                 PROVE  printer'[q].name = m
      BY DEF DatasetKeepsNames
    <2>1. CASE q = r
      BY <1>4, <2>1
    <2>2. CASE q # r
      BY <1>6, <1>7, <2>2 DEF PrintersIInv, DatasetKeepsNames
    <2> QED
      BY <2>1, <2>2
  <1> QED
    BY <1>2, <1>3, <1>4, <1>6, <1>7, <1>8, <1>9, <1>10

\* A toolhead is there, or gets the next id.
LEMMA ToolheadsAreEnsured ==
  ASSUME PrintersIInv, NEW r \in Rows, NEW t \in Tools, NEW kind, EnsureToolheads(r, t, kind)
  PROVE  /\ ToolsAreTyped' /\ toolhead'[t].of = r
         /\ \A u \in Tools : toolhead[u].of # NoRow => toolhead'[u] = toolhead[u]
  <1>0. ToolsAreTyped
    BY DEF PrintersIInv, PrintersAreTyped
  <1>1. CASE ToolsOf(r) # {}
    <2>1. t \in ToolsOf(r) /\ UNCHANGED toolhead
      BY <1>1 DEF EnsureToolheads
    <2> QED
      BY <1>0, <2>1 DEF ToolsOf, ToolsAreTyped
  <1>2. CASE ToolsOf(r) = {}
    <2>1. PICK k \in 0..MaxTool : {u \in Tools : toolhead[u] # NoToolhead} = 1..k
      BY <1>0 DEF ToolsAreTyped
    <2>2. Cardinality(1..k) = k
      BY <2>1, FS_Interval
    <2>3. t = k + 1
      BY <1>2, <2>1, <2>2 DEF EnsureToolheads
    <2>4. PICK x : toolhead' = [toolhead EXCEPT ![t] = [of |-> r, uuid |-> x]]
      BY <1>2 DEF EnsureToolheads
    <2>5. toolhead[t] = NoToolhead
      BY <2>1, <2>3
    <2>6. \A u \in Tools : toolhead'[u] = IF u = t THEN [of |-> r, uuid |-> x] ELSE toolhead[u]
      BY <1>0, <2>4 DEF ToolsAreTyped
    <2>7. [of |-> r, uuid |-> x] # NoToolhead
      BY DEF NoToolhead, NoRow, Rows
    <2>8. {u \in Tools : toolhead'[u] # NoToolhead} = 1..(k + 1) /\ k + 1 \in 0..MaxTool
      <3>1. \A u \in Tools : toolhead'[u] # NoToolhead <=> u = t \/ u \in 1..k
        BY <2>1, <2>6, <2>7
      <3> QED
        BY <2>1, <2>3, <3>1, PrinterParameters DEF Tools
    <2>9. ToolsAreTyped'
      BY <1>0, <2>4, <2>6, <2>8 DEF ToolsAreTyped
    <2> QED
      BY <2>5, <2>6, <2>9 DEF NoToolhead
  <1> QED
    BY <1>1, <1>2

\* Nobody's toolhead is moved by that.
LEMMA ToolheadsStillFit ==
  ASSUME PrintersIInv, UNCHANGED <<profile, torn>>,
         work.step = "profiles" => UNCHANGED work,
         \A u \in Tools : toolhead[u].of # NoRow => toolhead'[u] = toolhead[u]
  PROVE  ToolheadsFit'
  <1> SUFFICES ASSUME NEW p \in Profiles \ torn, profile[p] # NoProfile, ~BeingMoved(p)'
               PROVE  toolhead'[profile[p].tool].of = profile[p].printer
    BY DEF ToolheadsFit
  <1>1. toolhead[profile[p].tool].of = profile[p].printer
    BY DEF PrintersIInv, ToolheadsFit, BeingMoved, BeingEmptied
  <1>2. profile[p].tool \in Tools
    BY DEF PrintersIInv, PrintersAreTyped, ProfilesAreTyped
  <1>3. profile[p].printer # NoRow
    BY DEF PrintersIInv, ProfilesStayPut, Present, Rows, NoRow
  <1> QED
    BY <1>1, <1>2, <1>3

\* A request adds a row or a toolhead beside whatever job.
LEMMA OthersStay ==
  ASSUME PrintersIInv, UNCHANGED <<profile, torn, work>>,
         Present \subseteq Present', \A q \in Present : printer'[q] = printer[q],
         \A u \in Tools : toolhead[u].of # NoRow => toolhead'[u] = toolhead[u]
  PROVE  ToolheadsFit' /\ WorkIsSound'
  <1>1. ToolheadsFit'
    BY ToolheadsStillFit
  <1>2. BringsItsOwn'
    BY DEF PrintersIInv, WorkIsSound, BringsItsOwn
  <1>3. CleansWhatItRead'
    <2>1. CleansWhatItRead
      BY DEF PrintersIInv, WorkIsSound
    <2>2. ASSUME work.step = "profiles", NEW p \in Profiles \ torn, profile[p] # NoProfile,
                 profile[p].printer = work.row
          PROVE  toolhead'[profile[p].tool].of = work.clash
      <3>1. /\ toolhead[profile[p].tool].of = work.clash /\ work.clash \in Present
            /\ profile[p].tool \in Tools
        BY <2>1, <2>2 DEF CleansWhatItRead, Merging, PrintersIInv, PrintersAreTyped, ProfilesAreTyped
      <3> QED
        BY <3>1 DEF Present, Rows, NoRow
    <2> QED
      BY <2>1, <2>2 DEF CleansWhatItRead, AtOneRow, Merging
  <1> QED
    BY <1>1, <1>2, <1>3 DEF PrintersIInv, WorkIsSound

LEMMA AskInsertsIsSound ==
  ASSUME PrintersIInv, NEW r \in Rows, AskInserts(r)
  PROVE  PrintersIInv'
  <1>1. /\ ask.step = "insert" /\ InsertPrinter(r, ask.name, "printer-user")
        /\ ask' = [ask EXCEPT !.step = "equip", !.row = r]
        /\ UNCHANGED <<toolhead, profile, work, torn>>
    BY DEF AskInserts
  <1>2. ask.name \in SameMachine(ask.asked) /\ ask.name \in Names
    BY <1>1, SameMachineIs DEF PrintersIInv, AskIsSound
  <1>3. /\ PrintersAreTyped' /\ ProfilesStayPut' /\ DatasetKeepsNames'
        /\ Present' = Present \cup {r} /\ printer'[r].name = ask.name
        /\ lastRow \in Nat /\ lastRow' = r /\ r = lastRow + 1
        /\ \A q \in Present : printer'[q] = printer[q]
    BY <1>1, <1>2, PrinterIsInserted
  <1>4. ToolheadsFit' /\ WorkIsSound'
    BY <1>1, <1>3, OthersStay
  <1>5. AskIsSound'
    <2>1. /\ ask'.step = "equip" /\ ask'.row = r /\ ask'.asked = ask.asked
          /\ ask' = [step |-> ask'.step, name |-> ask'.name, asked |-> ask'.asked,
                     row |-> ask'.row, tool |-> ask'.tool, alone |-> ask'.alone,
                     overtaken |-> ask'.overtaken]
      BY <1>1 DEF PrintersIInv, AskIsSound
    <2> QED
      BY <1>1, <1>2, <1>3, <2>1 DEF PrintersIInv, AskIsSound
  <1> QED
    BY <1>3, <1>4, <1>5 DEF PrintersIInv

LEMMA AskEquipsIsSound ==
  ASSUME PrintersIInv, NEW t \in Tools, AskEquips(t)
  PROVE  PrintersIInv'
  <1>1. /\ ask.step = "equip" /\ EnsureToolheads(ask.row, t, "printer-user")
        /\ ask' = [ask EXCEPT !.step = "store", !.tool = t,
                             !.overtaken = BeingEmptied(ask.row)]
        /\ UNCHANGED <<printer, lastRow, profile, work, torn>>
    BY DEF AskEquips
  <1>2. /\ ask.row \in Rows /\ ask.asked \in Names /\ ask.row \in 1..lastRow
        /\ ask.row \in Present /\ printer[ask.row].name \in SameMachine(ask.asked)
    BY <1>1 DEF PrintersIInv, AskIsSound, Present, EnsureToolheads, MayEquip
  <1>3. /\ ToolsAreTyped' /\ toolhead'[t].of = ask.row
        /\ \A u \in Tools : toolhead[u].of # NoRow => toolhead'[u] = toolhead[u]
    BY <1>1, <1>2, ToolheadsAreEnsured
  <1>4. Present' = Present
    BY <1>1 DEF Present
  <1>5. ToolheadsFit' /\ WorkIsSound'
    BY <1>1, <1>3, <1>4, OthersStay
  <1>6. AskIsSound'
    <2>1. /\ ask'.step = "store" /\ ask'.row = ask.row /\ ask'.asked = ask.asked /\ ask'.tool = t
          /\ ask'.overtaken \/ ~BeingEmptied(ask.row)'
          /\ ask' = [step |-> ask'.step, name |-> ask'.name, asked |-> ask'.asked,
                     row |-> ask'.row, tool |-> ask'.tool, alone |-> ask'.alone,
                     overtaken |-> ask'.overtaken]
      BY <1>1 DEF PrintersIInv, AskIsSound, BeingEmptied
    <2> QED
      BY <1>1, <1>2, <1>3, <1>4, <2>1 DEF PrintersIInv, AskIsSound
  <1>7. PrintersAreTyped' /\ ProfilesStayPut' /\ DatasetKeepsNames'
    BY <1>1, <1>3, <1>4 DEF PrintersIInv, PrintersAreTyped, RowsAreTyped, ProfilesAreTyped,
                            ProfilesStayPut, DatasetKeepsNames
  <1> QED
    BY <1>5, <1>6, <1>7 DEF PrintersIInv

LEMMA StoreProfileIsSound ==
  ASSUME PrintersIInv, NEW p \in Profiles, StoreProfile(p)
  PROVE  PrintersIInv'
  <1>1. PICK f : f = [printer |-> ask.row, tool |-> ask.tool, asked |-> ask.asked]
    OBVIOUS
  <1>2. /\ ask.step = "store" /\ profile' = [profile EXCEPT ![p] = f] /\ ask' = NoAsk
        /\ UNCHANGED <<printer, lastRow, toolhead, work>>
        /\ torn \subseteq torn' /\ (p \notin torn' => ~ask.overtaken) /\ torn' \subseteq torn \cup {p}
    BY <1>1 DEF StoreProfile
  <1>3. /\ ask.row \in Present /\ ask.asked \in Names
        /\ printer[ask.row].name \in SameMachine(ask.asked)
        /\ ask.tool \in Tools
        /\ p \notin torn' => toolhead[ask.tool].of = ask.row /\ ~BeingEmptied(ask.row)
    BY <1>2 DEF PrintersIInv, AskIsSound, StoreProfile
  <1>4. Present' = Present
    BY <1>2 DEF Present
  <1>5. /\ \A q \in Profiles : profile'[q] = IF q = p THEN f ELSE profile[q]
        /\ profile' = [q \in Profiles |-> profile'[q]]
    BY <1>2 DEF PrintersIInv, PrintersAreTyped, ProfilesAreTyped
  <1>6. PrintersAreTyped'
    <2>1. ProfilesAreTyped'
      BY <1>1, <1>3, <1>5 DEF PrintersIInv, PrintersAreTyped, ProfilesAreTyped
    <2>2. RowsAreTyped' /\ ToolsAreTyped'
      BY <1>2, <1>4 DEF PrintersIInv, PrintersAreTyped, RowsAreTyped, ToolsAreTyped
    <2> QED
      BY <2>1, <2>2 DEF PrintersAreTyped
  <1>8. ToolheadsFit'
    BY <1>1, <1>2, <1>3, <1>5 DEF PrintersIInv, ToolheadsFit, BeingMoved, BeingEmptied
  <1>9. ProfilesStayPut' /\ DatasetKeepsNames'
    BY <1>1, <1>2, <1>3, <1>4, <1>5 DEF PrintersIInv, ProfilesStayPut, DatasetKeepsNames
  <1>10. AskIsSound'
    BY <1>2 DEF AskIsSound, NoAsk
  <1>11. WorkIsSound'
    <2>1. ASSUME work.step = "profiles", NEW q \in Profiles \ torn', profile'[q] # NoProfile,
                 profile'[q].printer = work.row
          PROVE  toolhead[profile'[q].tool].of = work.clash
      BY <1>1, <1>2, <1>3, <1>5, <2>1
      DEF PrintersIInv, WorkIsSound, CleansWhatItRead, BeingEmptied
    <2> QED
      BY <1>2, <1>4, <2>1 DEF PrintersIInv, WorkIsSound, BringsItsOwn, CleansWhatItRead, AtOneRow,
                              Merging
  <1> QED
    BY <1>6, <1>8, <1>9, <1>10, <1>11 DEF PrintersIInv

-----------------------------------------------------------------------------
(* The jobs that bring printers.                                           *)

\* A job goes on beside a request.
LEMMA AskWaits ==
  ASSUME PrintersIInv, ask' = [ask EXCEPT !.alone = FALSE],
         lastRow' \in Nat, lastRow <= lastRow',
         \A r \in Present' :
            \/ r > lastRow
            \/ /\ r \in Present
               /\ printer'[r].name \in {printer[r].name, CleanOf[printer[r].name]},
         \A t \in Tools : toolhead[t].of # NoRow => toolhead'[t] = toolhead[t],
         work'.step # "profiles"
  PROVE  AskIsSound'
  <1>1. /\ ask'.step = ask.step /\ ask'.name = ask.name /\ ask'.asked = ask.asked
        /\ ask'.row = ask.row /\ ask'.tool = ask.tool /\ ask'.overtaken = ask.overtaken
        /\ ask' = [step |-> ask'.step, name |-> ask'.name, asked |-> ask'.asked, row |-> ask'.row,
                   tool |-> ask'.tool, alone |-> ask'.alone, overtaken |-> ask'.overtaken]
    BY DEF PrintersIInv, AskIsSound
  <1>2. AskIsSound /\ lastRow \in Nat
    BY DEF PrintersIInv, PrintersAreTyped, RowsAreTyped
  <1>3. ASSUME ask.step \in {"equip", "store"}, ask.row \in Present'
        PROVE  printer'[ask.row].name \in SameMachine(ask.asked)
    <2>1. ask.row \in 1..lastRow /\ ask.asked \in Names
      BY <1>2, <1>3 DEF AskIsSound
    <2>2. /\ ask.row \in Present
          /\ printer'[ask.row].name \in {printer[ask.row].name, CleanOf[printer[ask.row].name]}
      BY <1>2, <1>3, <2>1
    <2>3. printer[ask.row].name \in SameMachine(ask.asked)
      BY <1>2, <1>3, <2>2 DEF AskIsSound
    <2> QED
      BY <2>1, <2>2, <2>3, SameMachineIs
  <1>4. ASSUME ask.step = "store"
        PROVE  ask.overtaken \/ (toolhead'[ask.tool].of = ask.row /\ ~BeingEmptied(ask.row)')
    <2>1. ask.row # NoRow
      BY <1>2, <1>4 DEF AskIsSound, NoRow
    <2> QED
      BY <1>2, <1>4, <2>1 DEF AskIsSound, BeingEmptied
  <1>5. ask.row \in 1..lastRow => ask.row \in 1..lastRow'
    BY <1>2
  <1> QED
    BY <1>1, <1>2, <1>3, <1>4, <1>5 DEF AskIsSound, BeingEmptied

\* It does so without writing.
LEMMA WorkGoesOn ==
  ASSUME PrintersIInv, UNCHANGED <<printer, lastRow, toolhead, profile, torn>>,
         ask' = [ask EXCEPT !.alone = FALSE], WorkIsSound',
         work.step # "profiles", work'.step # "profiles"
  PROVE  PrintersIInv'
  <1>1. Present' = Present /\ lastRow \in Nat
    BY DEF Present, PrintersIInv, PrintersAreTyped, RowsAreTyped
  <1>2. PrintersAreTyped'
    BY <1>1 DEF PrintersIInv, PrintersAreTyped, RowsAreTyped, ToolsAreTyped, ProfilesAreTyped
  <1>3. ToolheadsFit' /\ ProfilesStayPut' /\ DatasetKeepsNames'
    BY <1>1 DEF PrintersIInv, ToolheadsFit, BeingMoved, BeingEmptied, ProfilesStayPut,
                DatasetKeepsNames
  <1>4. AskIsSound'
    BY <1>1, AskWaits
  <1> QED
    BY <1>2, <1>3, <1>4 DEF PrintersIInv

LEMMA StartBringingIsSound ==
  ASSUME PrintersIInv, NEW kind \in {"printer", "dataset"}, StartBringing(kind)
  PROVE  PrintersIInv'
  <1>1. PICK todo : todo = IF kind = "printer" THEN Curated ELSE Dataset
    OBVIOUS
  <1>2. PICK names : work' = [kind |-> kind, step |-> "next", name |-> NoName, row |-> NoRow,
                              clash |-> NoRow, todo |-> todo, names |-> names]
    BY <1>1 DEF StartBringing, Work, NoWork
  <1>3. WorkIsSound'
    BY <1>1, <1>2 DEF WorkIsSound, BringsItsOwn, CleansWhatItRead, AtOneRow, Merging
  <1>4. work.step # "profiles"
    BY DEF StartBringing, NoWork
  <1> QED
    BY <1>2, <1>3, <1>4, WorkGoesOn DEF StartBringing, Work

LEMMA BringNextIsSound ==
  ASSUME PrintersIInv, NEW n \in Names, BringNext(n)
  PROVE  PrintersIInv'
  <1>1. PICK r \in IF Found(n) = {} THEN {NoRow} ELSE Found(n) :
           Work([work EXCEPT !.name = n, !.row = r, !.todo = @ \ {n},
                    !.step = IF r = NoRow THEN "insert" ELSE "update"])
    BY DEF BringNext
  <1>2. /\ work.kind \in {"printer", "dataset"} /\ work.step = "next" /\ n \in work.todo
        /\ UNCHANGED <<printer, lastRow, toolhead, torn>>
    BY DEF BringNext, Bringing
  <1>3. PICK s, left : /\ s = (IF r = NoRow THEN "insert" ELSE "update") /\ left = work.todo \ {n}
                       /\ work' = [work EXCEPT !.name = n, !.row = r, !.todo = left, !.step = s]
    BY <1>1 DEF Work
  <1>4. /\ work'.kind = work.kind /\ work'.name = n /\ work'.row = r /\ work'.todo = left
        /\ work'.step = s /\ work'.clash = work.clash /\ work'.names = work.names
        /\ work' = [kind |-> work'.kind, step |-> work'.step, name |-> work'.name,
                    row |-> work'.row, clash |-> work'.clash, todo |-> work'.todo,
                    names |-> work'.names]
    BY <1>3 DEF PrintersIInv, WorkIsSound
  <1>5. s = "update" /\ work.kind = "dataset" => r \in Present /\ printer[r].name = n
    <2> SUFFICES ASSUME s = "update", work.kind = "dataset" PROVE r \in Present /\ printer[r].name = n
      OBVIOUS
    <2>1. r \in Found(n)
      BY <1>1, <1>3
    <2>2. n \in Dataset
      BY <1>2 DEF PrintersIInv, WorkIsSound, BringsItsOwn
    <2>3. CASE Named(n) # {}
      BY <2>1, <2>3 DEF Found, Named
    <2>4. CASE Named(n) = {}
      BY <2>1, <2>2, <2>4 DEF Found, PrintersIInv, DatasetKeepsNames
    <2> QED
      BY <2>3, <2>4
  <1>6. Present' = Present
    BY <1>2 DEF Present
  <1>7. BringsItsOwn'
    BY <1>2, <1>3, <1>4, <1>5, <1>6 DEF PrintersIInv, WorkIsSound, BringsItsOwn
  <1>8. WorkIsSound'
    BY <1>2, <1>3, <1>4, <1>7 DEF WorkIsSound, CleansWhatItRead, AtOneRow, Merging
  <1> QED
    BY <1>1, <1>2, <1>3, <1>4, <1>8, WorkGoesOn DEF Work

LEMMA BringInsertsIsSound ==
  ASSUME PrintersIInv, NEW r \in Rows, BringInserts(r)
  PROVE  PrintersIInv'
  <1>1. /\ work.kind \in {"printer", "dataset"} /\ work.step = "insert"
        /\ InsertPrinter(r, work.name, work.kind)
        /\ work' = [work EXCEPT !.step = "equip", !.row = r]
        /\ ask' = [ask EXCEPT !.alone = FALSE] /\ UNCHANGED <<toolhead, profile, torn>>
    BY DEF BringInserts, Bringing, Work
  <1>2. work.name \in Names
    BY <1>1, BroughtIsClean DEF PrintersIInv, WorkIsSound, BringsItsOwn
  <1>3. /\ PrintersAreTyped' /\ ProfilesStayPut' /\ DatasetKeepsNames'
        /\ Present' = Present \cup {r} /\ \A q \in Present : printer'[q] = printer[q]
        /\ lastRow \in Nat /\ lastRow' = r /\ r = lastRow + 1
    BY <1>1, <1>2, PrinterIsInserted
  <1>4. /\ work'.kind = work.kind /\ work'.name = work.name /\ work'.row = r /\ work'.step = "equip"
        /\ work'.todo = work.todo
        /\ work' = [kind |-> work'.kind, step |-> work'.step, name |-> work'.name,
                    row |-> work'.row, clash |-> work'.clash, todo |-> work'.todo,
                    names |-> work'.names]
    BY <1>1 DEF PrintersIInv, WorkIsSound
  <1>5. WorkIsSound'
    BY <1>1, <1>4 DEF PrintersIInv, WorkIsSound, BringsItsOwn, CleansWhatItRead, AtOneRow, Merging
  <1>6. ToolheadsFit'
    BY <1>1, ToolheadsStillFit
  <1>7. AskIsSound'
    BY <1>1, <1>3, <1>4, AskWaits
  <1> QED
    BY <1>3, <1>5, <1>6, <1>7 DEF PrintersIInv

\* What the dataset writes over a name is that name.
LEMMA BringUpdatesIsSound ==
  ASSUME PrintersIInv, BringUpdates
  PROVE  PrintersIInv'
  <1>1. /\ work.kind \in {"printer", "dataset"} /\ work.step = "update"
        /\ printer' = (IF work.kind = "dataset" /\ work.row \in Present
                       THEN [printer EXCEPT ![work.row].name = work.name] ELSE printer)
        /\ work' = [work EXCEPT !.step = "equip"]
        /\ ask' = [ask EXCEPT !.alone = FALSE] /\ UNCHANGED <<lastRow, toolhead, profile, torn>>
    BY DEF BringUpdates, Bringing, Work
  <1>2. printer' = printer
    <2>1. CASE work.kind = "dataset" /\ work.row \in Present
      <3>1. printer[work.row].name = work.name /\ work.row \in Rows
        BY <1>1, <2>1 DEF PrintersIInv, WorkIsSound, BringsItsOwn, Present
      <3>2. PICK r \in Rows : r = work.row
        BY <3>1
      <3>3. [printer[r] EXCEPT !.name = work.name] = printer[r]
        BY <3>1, <3>2 DEF PrintersIInv, PrintersAreTyped, RowsAreTyped
      <3>4. [printer EXCEPT ![r].name = work.name] = [printer EXCEPT ![r] = printer[r]]
        BY <3>3
      <3>5. [printer EXCEPT ![r] = printer[r]] = printer
        BY DEF PrintersIInv, PrintersAreTyped, RowsAreTyped
      <3> QED
        BY <1>1, <2>1, <3>2, <3>4, <3>5
    <2>2. CASE ~(work.kind = "dataset" /\ work.row \in Present)
      BY <1>1, <2>2
    <2> QED
      BY <2>1, <2>2
  <1>3. /\ work'.kind = work.kind /\ work'.name = work.name /\ work'.step = "equip"
        /\ work'.todo = work.todo
        /\ work' = [kind |-> work'.kind, step |-> work'.step, name |-> work'.name,
                    row |-> work'.row, clash |-> work'.clash, todo |-> work'.todo,
                    names |-> work'.names]
    BY <1>1 DEF PrintersIInv, WorkIsSound
  <1>4. WorkIsSound'
    BY <1>1, <1>3 DEF PrintersIInv, WorkIsSound, BringsItsOwn, CleansWhatItRead, AtOneRow, Merging
  <1> QED
    BY <1>1, <1>2, <1>3, <1>4, WorkGoesOn

LEMMA BringEquipsIsSound ==
  ASSUME PrintersIInv, NEW t \in Tools, BringEquips(t)
  PROVE  PrintersIInv'
  <1>1. /\ work.kind \in {"printer", "dataset"} /\ work.step = "equip"
        /\ EnsureToolheads(work.row, t, work.kind) /\ work' = NextOne
        /\ ask' = [ask EXCEPT !.alone = FALSE] /\ UNCHANGED <<printer, lastRow, profile, torn>>
    BY DEF BringEquips, Bringing, Work
  <1>2. work.row \in Rows
    BY <1>1 DEF EnsureToolheads, MayEquip, Present
  <1>3. /\ ToolsAreTyped'
        /\ \A u \in Tools : toolhead[u].of # NoRow => toolhead'[u] = toolhead[u]
    BY <1>1, <1>2, ToolheadsAreEnsured
  <1>4. Present' = Present /\ lastRow \in Nat
    BY <1>1 DEF Present, PrintersIInv, PrintersAreTyped, RowsAreTyped
  <1>5. /\ work'.kind = work.kind /\ work'.step = "next" /\ work'.todo = work.todo
        /\ work' = [kind |-> work'.kind, step |-> work'.step, name |-> work'.name,
                    row |-> work'.row, clash |-> work'.clash, todo |-> work'.todo,
                    names |-> work'.names]
    BY <1>1 DEF PrintersIInv, WorkIsSound, NextOne
  <1>6. WorkIsSound'
    BY <1>1, <1>5 DEF PrintersIInv, WorkIsSound, BringsItsOwn, CleansWhatItRead, AtOneRow, Merging
  <1>7. ToolheadsFit'
    BY <1>1, <1>3, ToolheadsStillFit
  <1>8. AskIsSound'
    BY <1>1, <1>3, <1>4, <1>5, AskWaits
  <1>9. PrintersAreTyped' /\ ProfilesStayPut' /\ DatasetKeepsNames'
    BY <1>1, <1>3, <1>4 DEF PrintersIInv, PrintersAreTyped, RowsAreTyped, ProfilesAreTyped,
                            ProfilesStayPut, DatasetKeepsNames
  <1> QED
    BY <1>6, <1>7, <1>8, <1>9 DEF PrintersIInv

-----------------------------------------------------------------------------
(* The clean-up.                                                           *)

LEMMA StartCleaningIsSound ==
  ASSUME PrintersIInv, StartCleaning
  PROVE  PrintersIInv'
  <1>1. PICK todo, names :
           /\ todo = {r \in Present : CleanOf[printer[r].name] # printer[r].name}
           /\ names = [r \in Rows |-> printer[r].name]
           /\ work' = [kind |-> "clean", step |-> "next", name |-> NoName, row |-> NoRow,
                       clash |-> NoRow, todo |-> todo, names |-> names]
    BY DEF StartCleaning, Work, NoWork
  <1>2. /\ work.step = "idle" /\ ask' = [ask EXCEPT !.alone = FALSE]
        /\ UNCHANGED <<printer, lastRow, toolhead, profile, torn>>
    BY DEF StartCleaning, NoWork, Work
  <1>3. \A r \in todo : /\ r \in Present' /\ names[r] = printer'[r].name
                        /\ CleanOf[printer'[r].name] # printer'[r].name
    BY <1>1, <1>2 DEF Present
  <1>4. WorkIsSound'
    BY <1>1, <1>3 DEF WorkIsSound, BringsItsOwn, CleansWhatItRead, AtOneRow, Merging
  <1> QED
    BY <1>1, <1>2, <1>4, WorkGoesOn

LEMMA CleanNextIsSound ==
  ASSUME PrintersIInv, NEW r \in Rows, CleanNext(r)
  PROVE  PrintersIInv'
  <1>1. PICK others : others = Alike(CleanOf[work.names[r]]) \ {r}
    OBVIOUS
  <1>2. PICK clash \in IF others = {} THEN {NoRow} ELSE others :
           Work([work EXCEPT !.row = r, !.clash = clash, !.todo = @ \ {r},
                    !.step = IF clash = NoRow THEN "rename" ELSE "toolheads"])
    BY <1>1 DEF CleanNext
  <1>3. /\ work.kind = "clean" /\ work.step = "next" /\ r \in work.todo
        /\ UNCHANGED <<printer, lastRow, toolhead, torn>>
    BY DEF CleanNext
  <1>4. PICK s, left : /\ s = (IF clash = NoRow THEN "rename" ELSE "toolheads")
                       /\ left = work.todo \ {r}
                       /\ work' = [work EXCEPT !.row = r, !.clash = clash, !.todo = left, !.step = s]
    BY <1>2 DEF Work
  <1>5. /\ work'.kind = "clean" /\ work'.row = r /\ work'.clash = clash /\ work'.todo = left
        /\ work'.step = s /\ work'.names = work.names
        /\ work' = [kind |-> work'.kind, step |-> work'.step, name |-> work'.name,
                    row |-> work'.row, clash |-> work'.clash, todo |-> work'.todo,
                    names |-> work'.names]
    BY <1>3, <1>4 DEF PrintersIInv, WorkIsSound
  <1>6. /\ r \in Present /\ work.names[r] = printer[r].name
        /\ CleanOf[printer[r].name] # printer[r].name
    BY <1>3 DEF PrintersIInv, WorkIsSound, CleansWhatItRead
  <1>7. clash # NoRow => /\ clash \in Present /\ clash # r
                         /\ KeyOf[printer[clash].name] = KeyOf[CleanOf[printer[r].name]]
    BY <1>1, <1>2, <1>6 DEF Alike
  <1>8. Present' = Present
    BY <1>3 DEF Present
  <1>9. CleansWhatItRead'
    <2>1. \A q \in left : /\ q \in Present /\ work.names[q] = printer[q].name
                          /\ CleanOf[printer[q].name] # printer[q].name
      BY <1>3, <1>4 DEF PrintersIInv, WorkIsSound, CleansWhatItRead
    <2>2. s \in {"rename", "toolheads"} /\ (s = "toolheads" => clash # NoRow) /\ r \notin left
      BY <1>4
    <2> QED
      BY <1>3, <1>5, <1>6, <1>7, <1>8, <2>1, <2>2 DEF CleansWhatItRead, AtOneRow, Merging
  <1>10. WorkIsSound'
    BY <1>5, <1>9 DEF WorkIsSound, BringsItsOwn
  <1> QED
    BY <1>2, <1>3, <1>4, <1>5, <1>10, WorkGoesOn DEF Work

\* A row gets its clean name; the dataset's rows have one.
LEMMA RenameIsSound ==
  ASSUME PrintersIInv, Rename
  PROVE  PrintersIInv'
  <1>1. /\ work.step = "rename" /\ work.kind = "clean" /\ work.row \in Present
        /\ work.names[work.row] = printer[work.row].name /\ work.row \notin work.todo
        /\ CleanOf[printer[work.row].name] # printer[work.row].name
    BY DEF Rename, PrintersIInv, WorkIsSound, CleansWhatItRead, AtOneRow
  <1>2. PICK r \in Rows : r = work.row
    BY <1>1 DEF Present
  <1>3. PICK n : n = CleanOf[printer[r].name]
    OBVIOUS
  <1>4. /\ printer' = [printer EXCEPT ![r].name = n] /\ work' = NextOne
        /\ ask' = [ask EXCEPT !.alone = FALSE] /\ UNCHANGED <<lastRow, toolhead, profile, torn>>
    BY <1>1, <1>2, <1>3 DEF Rename, Work, CleanName
  <1>5. printer[r].name \in Names /\ n \in Names /\ n # NoName
    BY <1>1, <1>2, <1>3, PrinterParameters DEF PrintersIInv, PrintersAreTyped, RowsAreTyped
  <1>6. /\ printer' = [q \in Rows |-> printer'[q]]
        /\ \A q \in Rows : q # r => printer'[q] = printer[q]
        /\ printer'[r] = [name |-> n, uuid |-> printer[r].uuid, slug |-> printer[r].slug]
    BY <1>4 DEF PrintersIInv, PrintersAreTyped, RowsAreTyped
  <1>7. Present' = Present
    BY <1>1, <1>2, <1>5, <1>6 DEF Present, NoPrinter
  <1>8. PrintersAreTyped'
    <2>1. RowsAreTyped'
      BY <1>4, <1>5, <1>6, <1>7 DEF PrintersIInv, PrintersAreTyped, RowsAreTyped
    <2>2. ToolsAreTyped' /\ ProfilesAreTyped'
      BY <1>4 DEF PrintersIInv, PrintersAreTyped, ToolsAreTyped, ProfilesAreTyped
    <2> QED
      BY <2>1, <2>2 DEF PrintersAreTyped
  <1>9. ProfilesStayPut'
    <2> SUFFICES ASSUME NEW p \in Profiles, profile[p] # NoProfile
                 PROVE  /\ profile[p].printer \in Present
                        /\ printer'[profile[p].printer].name \in SameMachine(profile[p].asked)
      BY <1>4, <1>7 DEF ProfilesStayPut
    <2>1. /\ profile[p].printer \in Present /\ profile[p].asked \in Names
          /\ printer[profile[p].printer].name \in SameMachine(profile[p].asked)
      BY DEF PrintersIInv, ProfilesStayPut, PrintersAreTyped, ProfilesAreTyped
    <2>2. CASE profile[p].printer = r
      BY <1>3, <1>6, <2>1, <2>2, SameMachineIs
    <2>3. CASE profile[p].printer # r
      BY <1>6, <2>1, <2>3 DEF Present
    <2> QED
      BY <2>2, <2>3
  <1>10. DatasetKeepsNames'
    <2> SUFFICES ASSUME NEW q \in Present, NEW m \in Dataset, printer'[q].uuid = <<"dataset", m>>
                 PROVE  printer'[q].name = m
      BY <1>7 DEF DatasetKeepsNames
    <2>1. printer[q].name = m
      BY <1>6 DEF PrintersIInv, DatasetKeepsNames, Present
    <2>2. CleanOf[m] = m
      BY BroughtIsClean
    <2>3. q # r
      BY <1>1, <1>2, <2>1, <2>2
    <2> QED
      BY <1>6, <2>1, <2>3 DEF Present
  <1>11. ToolheadsFit'
    BY <1>1, <1>4 DEF PrintersIInv, ToolheadsFit, BeingMoved, BeingEmptied
  <1>12. /\ work'.kind = "clean" /\ work'.step = "next" /\ work'.todo = work.todo
         /\ work'.names = work.names
         /\ work' = [kind |-> work'.kind, step |-> work'.step, name |-> work'.name,
                     row |-> work'.row, clash |-> work'.clash, todo |-> work'.todo,
                     names |-> work'.names]
    BY <1>1, <1>4 DEF PrintersIInv, WorkIsSound, NextOne
  <1>13. WorkIsSound'
    <2>1. \A q \in work.todo : /\ q \in Present /\ work.names[q] = printer'[q].name
                               /\ CleanOf[printer'[q].name] # printer'[q].name
      BY <1>1, <1>2, <1>6 DEF PrintersIInv, WorkIsSound, CleansWhatItRead, Present
    <2> QED
      BY <1>7, <1>12, <2>1 DEF WorkIsSound, BringsItsOwn, CleansWhatItRead, AtOneRow, Merging
  <1>14. AskIsSound'
    <2>1. /\ lastRow \in Nat
          /\ \A q \in Present' :
                q \in Present /\ printer'[q].name \in {printer[q].name, CleanOf[printer[q].name]}
      BY <1>2, <1>3, <1>6, <1>7 DEF PrintersIInv, PrintersAreTyped, RowsAreTyped, Present
    <2> QED
      BY <1>4, <1>12, <2>1, AskWaits
  <1> QED
    BY <1>8, <1>9, <1>10, <1>11, <1>13, <1>14 DEF PrintersIInv

\* The toolheads go first, and the profiles on them are known by their printer.
LEMMA MoveToolheadsIsSound ==
  ASSUME PrintersIInv, MoveToolheads
  PROVE  PrintersIInv'
  <1>1. /\ work.step = "toolheads" /\ work.kind = "clean" /\ work.row \in Present
        /\ work.clash \in Present
    BY DEF MoveToolheads, PrintersIInv, WorkIsSound, CleansWhatItRead, AtOneRow
  <1>2. /\ toolhead' = [t \in Tools |-> IF toolhead[t].of = work.row
                                        THEN [toolhead[t] EXCEPT !.of = work.clash] ELSE toolhead[t]]
        /\ work' = [work EXCEPT !.step = "profiles"]
        /\ ask' = [ask EXCEPT !.alone = FALSE,
                             !.overtaken = @ \/ (ask.step = "store" /\ ask.row = work.row)]
        /\ UNCHANGED <<printer, lastRow, profile, torn>>
    BY DEF MoveToolheads
  <1>3. \A t \in Tools :
           /\ toolhead'[t] = [of |-> toolhead'[t].of, uuid |-> toolhead'[t].uuid]
           /\ toolhead[t].of = work.row => toolhead'[t].of = work.clash
           /\ toolhead[t].of # work.row => toolhead'[t] = toolhead[t]
    BY <1>2 DEF PrintersIInv, PrintersAreTyped, ToolsAreTyped
  <1>4. work.row # NoRow /\ work.clash # NoRow
    BY <1>1 DEF Present, Rows, NoRow
  <1>5. ToolsAreTyped'
    <2>1. \A t \in Tools : toolhead'[t] # NoToolhead <=> toolhead[t] # NoToolhead
      <3> SUFFICES ASSUME NEW t \in Tools
                   PROVE  toolhead'[t] # NoToolhead <=> toolhead[t] # NoToolhead
        OBVIOUS
      <3>1. NoToolhead.of = NoRow
        BY DEF NoToolhead
      <3>2. CASE toolhead[t].of = work.row
        BY <1>3, <1>4, <3>1, <3>2
      <3>3. CASE toolhead[t].of # work.row
        BY <1>3, <3>3
      <3> QED
        BY <3>2, <3>3
    <2>2. {t \in Tools : toolhead'[t] # NoToolhead} = {t \in Tools : toolhead[t] # NoToolhead}
      BY <2>1
    <2>3. toolhead' = [t \in Tools |-> toolhead'[t]]
      BY <1>2
    <2> QED
      BY <1>3, <2>2, <2>3 DEF PrintersIInv, PrintersAreTyped, ToolsAreTyped
  <1>6. Present' = Present
    BY <1>2 DEF Present
  <1>7. PrintersAreTyped' /\ ProfilesStayPut' /\ DatasetKeepsNames'
    BY <1>2, <1>5, <1>6 DEF PrintersIInv, PrintersAreTyped, RowsAreTyped, ProfilesAreTyped,
                            ProfilesStayPut, DatasetKeepsNames
  <1>8. /\ work'.kind = "clean" /\ work'.step = "profiles" /\ work'.todo = work.todo
        /\ work'.names = work.names /\ work'.row = work.row /\ work'.clash = work.clash
        /\ work' = [kind |-> work'.kind, step |-> work'.step, name |-> work'.name,
                    row |-> work'.row, clash |-> work'.clash, todo |-> work'.todo,
                    names |-> work'.names]
    BY <1>1, <1>2 DEF PrintersIInv, WorkIsSound
  <1>9. ASSUME NEW p \in Profiles \ torn, profile[p] # NoProfile
        PROVE  /\ toolhead[profile[p].tool].of = profile[p].printer /\ profile[p].tool \in Tools
    BY <1>1, <1>9 DEF PrintersIInv, ToolheadsFit, BeingMoved, BeingEmptied, PrintersAreTyped,
                      ProfilesAreTyped
  <1>10. WorkIsSound'
    <2>1. \A p \in Profiles \ torn : profile[p] # NoProfile /\ profile[p].printer = work.row
                                       => toolhead'[profile[p].tool].of = work.clash
      BY <1>3, <1>9
    <2> QED
      BY <1>1, <1>2, <1>6, <1>8, <2>1
      DEF PrintersIInv, WorkIsSound, BringsItsOwn, CleansWhatItRead, AtOneRow, Merging
  <1>11. ToolheadsFit'
    BY <1>2, <1>3, <1>8, <1>9 DEF ToolheadsFit, BeingMoved, BeingEmptied
  <1>12. AskIsSound'
    <2>1. /\ ask'.step = ask.step /\ ask'.name = ask.name /\ ask'.asked = ask.asked
          /\ ask'.row = ask.row /\ ask'.tool = ask.tool
          /\ ask'.overtaken = (ask.overtaken \/ (ask.step = "store" /\ ask.row = work.row))
          /\ ask' = [step |-> ask'.step, name |-> ask'.name, asked |-> ask'.asked,
                     row |-> ask'.row, tool |-> ask'.tool, alone |-> ask'.alone,
                     overtaken |-> ask'.overtaken]
      BY <1>2 DEF PrintersIInv, AskIsSound
    <2>2. ASSUME ask.step = "store", ~ask'.overtaken
          PROVE  toolhead'[ask.tool].of = ask.row /\ ~BeingEmptied(ask.row)'
      <3>1. /\ ask.tool \in Tools /\ toolhead[ask.tool].of = ask.row /\ ask.row # work.row
        BY <2>1, <2>2 DEF PrintersIInv, AskIsSound
      <3>2. toolhead'[ask.tool].of = ask.row
        BY <1>3, <3>1
      <3>3. work'.row # ask'.row
        BY <1>8, <2>1, <3>1
      <3> QED
        BY <3>2, <3>3 DEF BeingEmptied
    <2> QED
      BY <1>2, <1>6, <2>1, <2>2 DEF PrintersIInv, AskIsSound, BeingEmptied
  <1> QED
    BY <1>7, <1>10, <1>11, <1>12 DEF PrintersIInv

\* The profiles follow, to a printer that has the clean name.
LEMMA MoveProfilesIsSound ==
  ASSUME PrintersIInv, MoveProfiles
  PROVE  PrintersIInv'
  <1>1. /\ work.step = "profiles" /\ work.kind = "clean" /\ work.row \in Present
        /\ work.clash \in Present /\ work.clash # work.row
        /\ KeyOf[printer[work.clash].name] = KeyOf[CleanOf[printer[work.row].name]]
    BY DEF MoveProfiles, PrintersIInv, WorkIsSound, CleansWhatItRead, AtOneRow, Merging
  <1>2. /\ profile' = [p \in Profiles |-> IF profile[p].printer = work.row
                                          THEN [profile[p] EXCEPT !.printer = work.clash]
                                          ELSE profile[p]]
        /\ work' = [work EXCEPT !.step = "delete"]
        /\ ask' = [ask EXCEPT !.alone = FALSE] /\ UNCHANGED <<printer, lastRow, toolhead, torn>>
    BY DEF MoveProfiles, Moved
  <1>3. /\ profile' = [p \in Profiles |-> profile'[p]]
        /\ \A p \in Profiles :
              /\ profile[p].printer = work.row =>
                    profile'[p] = [printer |-> work.clash, tool |-> profile[p].tool,
                                   asked |-> profile[p].asked]
              /\ profile[p].printer # work.row => profile'[p] = profile[p]
    BY <1>2 DEF PrintersIInv, PrintersAreTyped, ProfilesAreTyped
  <1>4. work.row # NoRow
    BY <1>1 DEF Present, Rows, NoRow
  <1>5. \A p \in Profiles : profile[p].printer = work.row => profile[p] # NoProfile
    BY <1>4 DEF NoProfile
  <1>6. Present' = Present
    BY <1>2 DEF Present
  <1>7. PrintersAreTyped'
    <2>1. ProfilesAreTyped'
      BY <1>3, <1>5 DEF PrintersIInv, PrintersAreTyped, ProfilesAreTyped
    <2> QED
      BY <1>2, <1>6, <2>1 DEF PrintersIInv, PrintersAreTyped, RowsAreTyped, ToolsAreTyped
  <1>8. ProfilesStayPut'
    <2> SUFFICES ASSUME NEW p \in Profiles, profile'[p] # NoProfile
                 PROVE  /\ profile'[p].printer \in Present
                        /\ printer[profile'[p].printer].name \in SameMachine(profile'[p].asked)
      BY <1>2, <1>6 DEF ProfilesStayPut
    <2>1. CASE profile[p].printer # work.row
      BY <1>3, <2>1 DEF PrintersIInv, ProfilesStayPut
    <2>2. CASE profile[p].printer = work.row
      <3>1. /\ profile[p].asked \in Names
            /\ printer[work.row].name \in SameMachine(profile[p].asked)
        BY <1>5, <2>2 DEF PrintersIInv, ProfilesStayPut, PrintersAreTyped, ProfilesAreTyped
      <3>2. printer[work.clash].name \in Names
        BY <1>1 DEF PrintersIInv, PrintersAreTyped, RowsAreTyped, Present
      <3>3. printer[work.clash].name \in SameMachine(profile[p].asked)
        BY <1>1, <3>1, <3>2, SameMachineIs
      <3> QED
        BY <1>1, <1>3, <2>2, <3>3
    <2> QED
      BY <2>1, <2>2
  <1>9. DatasetKeepsNames'
    BY <1>2, <1>6 DEF PrintersIInv, DatasetKeepsNames
  <1>10. /\ work'.kind = "clean" /\ work'.step = "delete" /\ work'.todo = work.todo
         /\ work'.names = work.names /\ work'.row = work.row /\ work'.clash = work.clash
         /\ work' = [kind |-> work'.kind, step |-> work'.step, name |-> work'.name,
                     row |-> work'.row, clash |-> work'.clash, todo |-> work'.todo,
                     names |-> work'.names]
    BY <1>1, <1>2 DEF PrintersIInv, WorkIsSound
  <1>11. WorkIsSound'
    BY <1>1, <1>2, <1>6, <1>10
    DEF PrintersIInv, WorkIsSound, BringsItsOwn, CleansWhatItRead, AtOneRow, Merging
  <1>12. ToolheadsFit'
    <2> SUFFICES ASSUME NEW p \in Profiles \ torn, profile'[p] # NoProfile
                 PROVE  toolhead[profile'[p].tool].of = profile'[p].printer
      BY <1>2 DEF ToolheadsFit
    <2>1. CASE profile[p].printer # work.row
      BY <1>3, <2>1 DEF PrintersIInv, ToolheadsFit, BeingMoved, BeingEmptied
    <2>2. CASE profile[p].printer = work.row
      BY <1>1, <1>3, <1>5, <2>2 DEF PrintersIInv, WorkIsSound, CleansWhatItRead
    <2> QED
      BY <2>1, <2>2
  <1>13. AskIsSound'
    <2>1. lastRow \in Nat
      BY DEF PrintersIInv, PrintersAreTyped, RowsAreTyped
    <2> QED
      BY <1>2, <1>6, <1>10, <2>1, AskWaits
  <1> QED
    BY <1>7, <1>8, <1>9, <1>11, <1>12, <1>13 DEF PrintersIInv

\* And the row goes, when nothing names it.
LEMMA DeletePrinterIsSound ==
  ASSUME PrintersIInv, DeletePrinter
  PROVE  PrintersIInv'
  <1>1. /\ work.step = "delete" /\ work.kind = "clean" /\ work.row \in Present
        /\ work.row \notin work.todo /\ \A p \in Profiles : profile[p].printer # work.row
    BY DEF DeletePrinter, MayDelete, PrintersIInv, WorkIsSound, CleansWhatItRead, AtOneRow, Merging
  <1>2. /\ printer' = [printer EXCEPT ![work.row] = NoPrinter] /\ work' = NextOne
        /\ ask' = [ask EXCEPT !.alone = FALSE] /\ UNCHANGED <<lastRow, toolhead, profile, torn>>
    BY DEF DeletePrinter, Work
  <1>3. /\ printer' = [q \in Rows |-> printer'[q]]
        /\ \A q \in Rows : printer'[q] = IF q = work.row THEN NoPrinter ELSE printer[q]
    BY <1>2 DEF PrintersIInv, PrintersAreTyped, RowsAreTyped
  <1>4. Present' = Present \ {work.row}
    BY <1>3 DEF Present
  <1>5. PrintersAreTyped'
    <2>1. RowsAreTyped'
      BY <1>2, <1>3, <1>4 DEF PrintersIInv, PrintersAreTyped, RowsAreTyped, NoPrinter
    <2> QED
      BY <1>2, <2>1 DEF PrintersIInv, PrintersAreTyped, ToolsAreTyped, ProfilesAreTyped
  <1>6. \A q \in Present' : q \in Present /\ q # work.row /\ printer'[q] = printer[q]
    BY <1>3, <1>4 DEF Present
  <1>7. ProfilesStayPut'
    BY <1>1, <1>2, <1>4, <1>6 DEF PrintersIInv, ProfilesStayPut
  <1>8. DatasetKeepsNames'
    BY <1>6 DEF PrintersIInv, DatasetKeepsNames
  <1>9. ToolheadsFit'
    BY <1>1, <1>2 DEF PrintersIInv, ToolheadsFit, BeingMoved, BeingEmptied
  <1>10. /\ work'.kind = "clean" /\ work'.step = "next" /\ work'.todo = work.todo
         /\ work'.names = work.names
         /\ work' = [kind |-> work'.kind, step |-> work'.step, name |-> work'.name,
                     row |-> work'.row, clash |-> work'.clash, todo |-> work'.todo,
                     names |-> work'.names]
    BY <1>1, <1>2 DEF PrintersIInv, WorkIsSound, NextOne
  <1>11. WorkIsSound'
    <2>1. \A q \in work.todo : /\ q \in Present' /\ work.names[q] = printer'[q].name
                               /\ CleanOf[printer'[q].name] # printer'[q].name
      BY <1>1, <1>4, <1>6 DEF PrintersIInv, WorkIsSound, CleansWhatItRead
    <2> QED
      BY <1>10, <2>1 DEF WorkIsSound, BringsItsOwn, CleansWhatItRead, AtOneRow, Merging
  <1>12. AskIsSound'
    <2>1. lastRow \in Nat
      BY DEF PrintersIInv, PrintersAreTyped, RowsAreTyped
    <2> QED
      BY <1>2, <1>6, <1>10, <2>1, AskWaits
  <1> QED
    BY <1>5, <1>7, <1>8, <1>9, <1>11, <1>12 DEF PrintersIInv

\* A job ends; what a stop left half moved is known.
LEMMA EndWorkIsSound ==
  ASSUME PrintersIInv, EndWork
  PROVE  PrintersIInv'
  <1>1. /\ torn' = torn \cup {p \in Profiles : BeingMoved(p)} /\ work' = NoWork
        /\ ask' = [ask EXCEPT !.alone = FALSE] /\ UNCHANGED <<printer, lastRow, toolhead, profile>>
    BY DEF EndWork, Work
  <1>2. Present' = Present /\ lastRow \in Nat
    BY <1>1 DEF Present, PrintersIInv, PrintersAreTyped, RowsAreTyped
  <1>3. PrintersAreTyped' /\ ProfilesStayPut' /\ DatasetKeepsNames'
    BY <1>1, <1>2 DEF PrintersIInv, PrintersAreTyped, RowsAreTyped, ToolsAreTyped, ProfilesAreTyped,
                      ProfilesStayPut, DatasetKeepsNames
  <1>4. ToolheadsFit'
    BY <1>1 DEF PrintersIInv, ToolheadsFit
  <1>5. WorkIsSound'
    BY <1>1 DEF WorkIsSound, NoWork, BringsItsOwn, CleansWhatItRead, AtOneRow, Merging
  <1>6. AskIsSound'
    BY <1>1, <1>2, AskWaits DEF NoWork
  <1> QED
    BY <1>3, <1>4, <1>5, <1>6 DEF PrintersIInv

LEMMA PrintersStepIsSound ==
  ASSUME PrintersIInv, [PrintersNext]_printerVars
  PROVE  PrintersIInv'
  <1>1. ASSUME NEW n \in Names, AskPrinter(n) \/ BringNext(n) PROVE PrintersIInv'
    BY <1>1, AskPrinterIsSound, BringNextIsSound
  <1>2. ASSUME NEW r \in Rows, AskInserts(r) \/ AskReads(r) \/ BringInserts(r) \/ CleanNext(r)
        PROVE  PrintersIInv'
    BY <1>2, AskInsertsIsSound, AskReadsIsSound, BringInsertsIsSound, CleanNextIsSound
  <1>3. ASSUME NEW t \in Tools, AskEquips(t) \/ BringEquips(t) PROVE PrintersIInv'
    BY <1>3, AskEquipsIsSound, BringEquipsIsSound
  <1>4. ASSUME NEW p \in Profiles, StoreProfile(p) PROVE PrintersIInv'
    BY <1>4, StoreProfileIsSound
  <1>5. ASSUME NEW kind \in {"printer", "dataset"}, StartBringing(kind) PROVE PrintersIInv'
    BY <1>5, StartBringingIsSound
  <1>6. CASE RefuseAsk \/ EndAsk
    BY <1>6, AskEndsIsSound
  <1>7. CASE BringUpdates \/ StartCleaning \/ Rename \/ MoveToolheads \/ MoveProfiles
    BY <1>7, BringUpdatesIsSound, StartCleaningIsSound, RenameIsSound, MoveToolheadsIsSound,
       MoveProfilesIsSound
  <1>8. CASE DeletePrinter \/ EndWork
    BY <1>8, DeletePrinterIsSound, EndWorkIsSound
  <1>9. CASE UNCHANGED printerVars
    <2>1. UNCHANGED <<printer, lastRow, toolhead, profile, work, torn, ask>>
      BY <1>9 DEF printerVars
    <2>2. AskIsSound'
      BY <2>1 DEF PrintersIInv, AskIsSound, Present, BeingEmptied
    <2> QED
      BY <2>1, <2>2, AskGoesOn
  <1> QED
    BY <1>1, <1>2, <1>3, <1>4, <1>5, <1>6, <1>7, <1>8, <1>9 DEF PrintersNext

\* For any printers, spellings, toolheads and profiles: no import and no clean-up takes
\* a profile off the machine it was measured on, whatever requests come beside them and
\* wherever they stop; nor its toolhead, unless a clean-up stopped in the middle of that
\* profile or overtook the request that stored it.
THEOREM PrintersAreAlwaysSound == PrintersSpec => []PrintersAreSound
  <1>1. PrintersIInv /\ [PrintersNext]_printerVars => PrintersIInv'
    BY PrintersStepIsSound
  <1>2. PrintersIInv => PrintersAreSound
    BY DEF PrintersIInv, PrintersAreSound
  <1> QED
    BY <1>1, <1>2, PrintersInitIsSound, PTL DEF PrintersSpec

-----------------------------------------------------------------------------
(* The camera.  A stream is on only while the page's ref, which a stop     *)
(* reads, is its own: leave that comes late finds either the video element *)
(* or nothing to start.                                                    *)

\* One start at a time, the last one; that of a phone is the first.
StartsAreOrderly ==
    /\ starts \in Nat
    /\ \A w \in waiting : /\ starts # 0 /\ w.at \in {"asking", "playing"}
                          /\ w = [no |-> starts, at |-> w.at]
    /\ timer => place = "scan" /\ waiting = {}

\* The camera is on for the page's own stream only, and not yet for a start that
\* awaits leave.
StreamIsHeld ==
    /\ live \subseteq {streamRef}
    /\ \A w \in waiting : w.at = "asking" => live = {}
    /\ place # "left" /\ onScreen # NoStream => onScreen = streamRef /\ streamRef \in live

\* Scanning is of a stream on the screen.
ScansWhatItShows ==
    /\ scanning = active
    /\ scanning => onScreen # NoStream

\* What the page turned away from stays off.
AwayIsOff ==
    /\ place \in {"scan", "gone", "left"}
    /\ place = "left" => opening /\ waiting = {}
    /\ place = "gone" => ~opening
    /\ ~opening /\ (place # "scan" \/ mode = "phone") =>
          live = {} /\ onScreen = NoStream /\ ~scanning
    /\ ~opening /\ waiting = {} /\ ~scanning => live = {}

\* An answer for the label's last request is of its variant.
AnswersAreOfRequests ==
    /\ label = [at |-> label.at, asked |-> label.asked, no |-> label.no, shows |-> label.shows]
    /\ label.no \in Nat /\ label.shows \in {NoSpool, label.at}
    /\ \A a \in label.asked : /\ a.no \in Nat /\ a.no <= label.no
                              /\ a.no = label.no => a.spool = label.at

CameraIsInOrder ==
    StartsAreOrderly /\ StreamIsHeld /\ ScansWhatItShows /\ AwayIsOff

ScanIInv == CameraIsInOrder /\ AnswersAreOfRequests

LEMMA ScanInitIsSound == ScanInit => ScanIInv
  <1> SUFFICES ASSUME ScanInit PROVE ScanIInv
      OBVIOUS
  <1>1. CameraIsInOrder
    BY DEF ScanInit, CameraIsInOrder, StartsAreOrderly, StreamIsHeld, ScansWhatItShows, AwayIsOff
  <1>2. AnswersAreOfRequests
    BY DEF ScanInit, AnswersAreOfRequests
  <1> QED
    BY <1>1, <1>2 DEF ScanIInv

\* What a stop leaves is off, whatever was on.
LEMMA HaltedIsOff ==
  ASSUME CameraIsInOrder, Halted
  PROVE  /\ live' = {} /\ streamRef' = NoStream /\ onScreen' = NoStream
         /\ ~active' /\ ~scanning'
  BY DEF CameraIsInOrder, StreamIsHeld, Halted

\* A stop keeps the order, while starts that are left and the place are in it.
LEMMA StopIsSound ==
  ASSUME CameraIsInOrder, StopCamera, waiting' \subseteq waiting, UNCHANGED <<starts, opening>>,
         timer' => timer, timer' => place' = place,
         place' = place \/ (~opening /\ place' = "gone"),
         opening => place' = place /\ (waiting = {} => waiting' = {})
  PROVE  CameraIsInOrder'
  <1>1. StartsAreOrderly'
    BY DEF CameraIsInOrder, StartsAreOrderly
  <1>2. CASE opening
    <2>1. UNCHANGED <<active, scanning, live, streamRef, onScreen, place, opening>>
      BY <1>2 DEF StopCamera
    <2>2. StreamIsHeld' /\ ScansWhatItShows'
      BY <2>1 DEF CameraIsInOrder, StreamIsHeld, ScansWhatItShows
    <2>3. AwayIsOff'
      BY <1>2, <2>1 DEF CameraIsInOrder, AwayIsOff
    <2> QED
      BY <1>1, <2>2, <2>3 DEF CameraIsInOrder
  <1>3. CASE ~opening
    <2>1. Halted
      BY <1>3 DEF StopCamera
    <2>2. /\ live' = {} /\ streamRef' = NoStream /\ onScreen' = NoStream
          /\ ~active' /\ ~scanning'
      BY <2>1, HaltedIsOff
    <2>3. StreamIsHeld'
      BY <2>2 DEF StreamIsHeld
    <2>4. ScansWhatItShows'
      BY <2>1 DEF ScansWhatItShows, Halted
    <2>5. AwayIsOff'
      BY <1>3, <2>2 DEF CameraIsInOrder, AwayIsOff
    <2> QED
      BY <1>1, <2>3, <2>4, <2>5 DEF CameraIsInOrder
  <1> QED
    BY <1>2, <1>3

\* A start begins from nothing.
LEMMA StartIsSound ==
  ASSUME CameraIsInOrder, StartCamera, place = "scan", waiting = {}, ~timer'
  PROVE  CameraIsInOrder'
  <1>1. /\ starts' = starts + 1 /\ ~opening' /\ place' = "scan" /\ Halted
        /\ waiting' = {[no |-> starts + 1, at |-> "asking"]}
    BY DEF StartCamera
  <1>2. /\ live' = {} /\ streamRef' = NoStream /\ onScreen' = NoStream
        /\ ~active' /\ ~scanning'
    BY <1>1, HaltedIsOff
  <1>3. StartsAreOrderly'
    BY <1>1 DEF CameraIsInOrder, StartsAreOrderly
  <1>4. StreamIsHeld'
    BY <1>2 DEF StreamIsHeld
  <1>5. ScansWhatItShows'
    BY <1>1 DEF ScansWhatItShows, Halted
  <1>6. AwayIsOff'
    BY <1>1, <1>2 DEF AwayIsOff
  <1> QED
    BY <1>3, <1>4, <1>5, <1>6 DEF CameraIsInOrder

LEMMA StreamComesIsSound ==
  ASSUME CameraIsInOrder, NEW w \in waiting, StreamComes(w)
  PROVE  CameraIsInOrder'
  <1>1. /\ w.no = starts /\ starts # 0 /\ w.at = "asking" /\ live = {} /\ streamRef' = starts
        /\ place # "left" /\ UNCHANGED <<place, mode, timer, starts, active, opening, scanning>>
    BY DEF CameraIsInOrder, StartsAreOrderly, StreamIsHeld, StreamComes
  <1>2. onScreen = NoStream
    BY <1>1 DEF CameraIsInOrder, StreamIsHeld
  <1>3. ~scanning /\ ScansWhatItShows'
    BY <1>1, <1>2 DEF CameraIsInOrder, ScansWhatItShows
  <1>4. CASE place = "scan" /\ mode = "camera"
    <2>1. /\ live' = {starts} /\ onScreen' = starts
          /\ waiting' = (waiting \ {w}) \cup {[w EXCEPT !.at = "playing"]}
      BY <1>1, <1>4 DEF StreamComes
    <2>2. w = [no |-> starts, at |-> "asking"]
      BY <1>1 DEF CameraIsInOrder, StartsAreOrderly
    <2>3. [w EXCEPT !.at = "playing"] = [no |-> starts, at |-> "playing"]
      BY <2>2
    <2>4. \A v \in waiting' : v = [no |-> starts, at |-> "playing"]
      BY <2>1, <2>2, <2>3 DEF CameraIsInOrder, StartsAreOrderly
    <2>5. [no |-> starts, at |-> "playing"] \in waiting'
      BY <2>1, <2>3
    <2>6. StartsAreOrderly'
      BY <1>1, <1>4, <2>4 DEF CameraIsInOrder, StartsAreOrderly
    <2>7. StreamIsHeld'
      BY <1>1, <2>1, <2>4 DEF StreamIsHeld
    <2>8. AwayIsOff'
      BY <1>1, <1>4, <2>5 DEF AwayIsOff
    <2> QED
      BY <1>3, <2>6, <2>7, <2>8 DEF CameraIsInOrder
  <1>5. CASE ~(place = "scan" /\ mode = "camera")
    <2>1. waiting' = waiting \ {w} /\ UNCHANGED <<live, onScreen>>
      BY <1>5 DEF StreamComes
    <2> QED
      BY <1>1, <1>2, <1>3, <2>1 DEF CameraIsInOrder, StartsAreOrderly, StreamIsHeld, AwayIsOff
  <1> QED
    BY <1>4, <1>5

LEMMA VideoPlaysIsSound ==
  ASSUME CameraIsInOrder, NEW w \in waiting, VideoPlays(w)
  PROVE  CameraIsInOrder'
  <1>1. /\ w.no = starts /\ starts # 0 /\ starts \in Nat /\ place # "left" /\ onScreen = starts
        /\ active' = TRUE /\ scanning' = TRUE /\ waiting' = waiting \ {w}
        /\ UNCHANGED <<place, mode, timer, starts, live, streamRef, onScreen, opening>>
    BY DEF CameraIsInOrder, StartsAreOrderly, AwayIsOff, VideoPlays
  <1>2. StartsAreOrderly' /\ StreamIsHeld'
    BY <1>1 DEF CameraIsInOrder, StartsAreOrderly, StreamIsHeld
  <1>3. ScansWhatItShows'
    BY <1>1 DEF ScansWhatItShows, NoStream
  <1>4. AwayIsOff'
    BY <1>1 DEF CameraIsInOrder, AwayIsOff, NoStream
  <1> QED
    BY <1>2, <1>3, <1>4 DEF CameraIsInOrder

\* A variant is opened from the page itself, and its camera goes off.
LEMMA OpenIsSound ==
  ASSUME CameraIsInOrder, NEW v, NEW rest, OpenVariant(v, rest), place = "scan",
         UNCHANGED <<place, mode, timer, starts, waiting>>
  PROVE  CameraIsInOrder'
  <1>1. StartsAreOrderly'
    BY DEF CameraIsInOrder, StartsAreOrderly
  <1>2. CASE opening
    <2>1. UNCHANGED <<live, streamRef, onScreen, active, opening, scanning>>
      BY <1>2 DEF OpenVariant
    <2> QED
      BY <1>1, <2>1 DEF CameraIsInOrder, StreamIsHeld, ScansWhatItShows, AwayIsOff
  <1>3. CASE ~opening
    <2>1. /\ opening' = TRUE /\ active' = FALSE /\ scanning' = FALSE
          /\ live' = live \ {streamRef} /\ streamRef' = NoStream /\ onScreen' = NoStream
      BY <1>3 DEF OpenVariant
    <2>2. live' = {}
      BY <2>1 DEF CameraIsInOrder, StreamIsHeld
    <2> QED
      BY <1>1, <2>1, <2>2 DEF CameraIsInOrder, StreamIsHeld, ScansWhatItShows, AwayIsOff
  <1> QED
    BY <1>2, <1>3

\* Nothing of the camera but its frames.
LEMMA LooksOnly ==
  ASSUME CameraIsInOrder,
         UNCHANGED <<place, mode, timer, starts, waiting, live, streamRef, onScreen, active,
                     opening, scanning>>
  PROVE  CameraIsInOrder'
  BY DEF CameraIsInOrder, StartsAreOrderly, StreamIsHeld, ScansWhatItShows, AwayIsOff

LEMMA DetectedIsSound ==
  ASSUME CameraIsInOrder, NEW l \in loops, Detected(l)
  PROVE  CameraIsInOrder'
  <1>1. place # "left" /\ UNCHANGED <<place, mode, timer, starts, waiting>>
    BY DEF Detected
  <1>2. CASE Parsed(l.says) # NoSpool /\ active
    <2>1. OpenVariant(Parsed(l.says), loops \ {l})
      BY <1>2 DEF Detected
    <2>2. place = "scan"
      BY <1>1, <1>2 DEF CameraIsInOrder, ScansWhatItShows, AwayIsOff
    <2> QED
      BY <1>1, <2>1, <2>2, OpenIsSound
  <1>3. CASE ~(Parsed(l.says) # NoSpool /\ active)
    <2>1. UNCHANGED <<live, streamRef, onScreen, active, opening, scanning>>
      BY <1>3 DEF Detected
    <2> QED
      BY <1>1, <2>1, LooksOnly
  <1> QED
    BY <1>2, <1>3

LEMMA TypeInIsSound ==
  ASSUME CameraIsInOrder, NEW code \in Says, TypeIn(code)
  PROVE  CameraIsInOrder'
  <1>1. place = "scan" /\ UNCHANGED <<place, mode, timer, starts, waiting>>
    BY DEF TypeIn
  <1>2. CASE Parsed(code) # NoSpool
    <2>1. OpenVariant(Parsed(code), loops)
      BY <1>2 DEF TypeIn
    <2> QED
      BY <1>1, <2>1, OpenIsSound
  <1>3. CASE Parsed(code) = NoSpool
    <2>1. UNCHANGED <<live, streamRef, onScreen, active, opening, scanning>>
      BY <1>3 DEF TypeIn
    <2> QED
      BY <1>1, <2>1, LooksOnly
  <1> QED
    BY <1>2, <1>3

LEMMA ArriveIsSound ==
  ASSUME CameraIsInOrder, Arrive
  PROVE  CameraIsInOrder'
  <1>1. /\ opening /\ place' = "left" /\ live' = {} /\ waiting' = {} /\ timer' = FALSE
        /\ UNCHANGED <<starts, streamRef, onScreen, active, opening, scanning>>
    BY DEF Arrive
  <1> QED
    BY <1>1 DEF CameraIsInOrder, StartsAreOrderly, StreamIsHeld, ScansWhatItShows, AwayIsOff

\* The camera, while Start is pressed for one start after another.
LEMMA CameraStepIsSound ==
  ASSUME ~Impatient, CameraIsInOrder, CameraNext
  PROVE  CameraIsInOrder'
  <1>1. CASE PressStart
    <2>1. StartCamera /\ place = "scan" /\ waiting = {} /\ ~timer'
      BY <1>1 DEF PressStart
    <2> QED
      BY <2>1, StartIsSound
  <1>2. CASE AutoStart
    <2>1. StartCamera /\ ~timer'
      BY <1>2 DEF AutoStart
    <2>2. place = "scan" /\ waiting = {}
      BY <1>2 DEF AutoStart, CameraIsInOrder, StartsAreOrderly
    <2> QED
      BY <2>1, <2>2, StartIsSound
  <1>3. CASE PressStop \/ SwitchMode
    <2>1. StopCamera /\ UNCHANGED <<place, timer, starts, waiting, opening>>
      BY <1>3 DEF PressStop, SwitchMode
    <2> QED
      BY <2>1, StopIsSound
  <1>4. CASE GoElsewhere
    <2>1. /\ StopCamera /\ UNCHANGED <<starts, waiting, opening>> /\ ~timer'
          /\ ~opening /\ place' = "gone"
      BY <1>4 DEF GoElsewhere
    <2> QED
      BY <2>1, StopIsSound
  <1>5. ASSUME NEW w \in waiting, StartFails(w) PROVE CameraIsInOrder'
    <2>1. StopCamera /\ UNCHANGED <<place, timer, starts, opening>> /\ waiting' = waiting \ {w}
      BY <1>5 DEF StartFails
    <2>2. waiting' \subseteq waiting /\ (waiting = {} => waiting' = {})
      BY <2>1
    <2> QED
      BY <2>1, <2>2, StopIsSound
  <1>6. ASSUME NEW l \in loops, NEW code, Tick(l, code) PROVE CameraIsInOrder'
    BY <1>6, LooksOnly DEF Tick
  <1> QED
    BY <1>1, <1>2, <1>3, <1>4, <1>5, <1>6, StreamComesIsSound, VideoPlaysIsSound,
       DetectedIsSound, TypeInIsSound, ArriveIsSound DEF CameraNext

LEMMA LabelStepIsSound ==
  ASSUME AnswersAreOfRequests, LabelNext
  PROVE  AnswersAreOfRequests'
  <1>1. ASSUME NEW v \in Spools, ViewLabel(v) PROVE AnswersAreOfRequests'
    BY <1>1 DEF AnswersAreOfRequests, ViewLabel
  <1>2. ASSUME NEW a \in label.asked, LabelComes(a) PROVE AnswersAreOfRequests'
    BY <1>2 DEF AnswersAreOfRequests, LabelComes
  <1> QED
    BY <1>1, <1>2 DEF LabelNext

LEMMA ScanStepIsSound ==
  ASSUME ~Impatient, ScanIInv, [CameraNext \/ LabelNext]_scanVars
  PROVE  ScanIInv'
  <1>1. CASE CameraNext
    <2>1. UNCHANGED label
      BY <1>1 DEF CameraNext, PressStart, AutoStart, StartCamera, PressStop, SwitchMode, GoElsewhere,
                  Arrive, StreamComes, VideoPlays, StartFails, Detected, Tick, TypeIn
    <2> QED
      BY <1>1, <2>1, CameraStepIsSound DEF ScanIInv, AnswersAreOfRequests
  <1>2. CASE LabelNext
    <2>1. UNCHANGED <<place, mode, timer, starts, waiting, live, streamRef, onScreen, active,
                      opening, scanning>>
      BY <1>2 DEF LabelNext, ViewLabel, LabelComes, cameraVars
    <2> QED
      BY <1>2, <2>1, LooksOnly, LabelStepIsSound DEF ScanIInv
  <1>3. CASE UNCHANGED scanVars
    BY <1>3, LooksOnly DEF scanVars, ScanIInv, AnswersAreOfRequests
  <1> QED
    BY <1>1, <1>2, <1>3

\* For any spools, codes, starts and labels: no camera stays on that the page cannot turn
\* off or that no start is for, and a label leads back to its variant, as long as Start
\* is not pressed during a start.
THEOREM CodesAreAlwaysSound ==
  ASSUME ~Impatient
  PROVE  ScanSpec => []CodesAreSound
  <1>1. ScanIInv /\ [CameraNext \/ LabelNext]_scanVars => ScanIInv'
    BY ScanStepIsSound
  <1>2. ScanIInv => CodesAreSound
    <2> SUFFICES ASSUME ScanIInv PROVE CodesAreSound
      OBVIOUS
    <2>1. CameraIsReleased
      BY DEF ScanIInv, CameraIsInOrder, StreamIsHeld, AwayIsOff, CameraIsReleased
    <2>2. ScanningIsShown
      BY DEF ScanIInv, CameraIsInOrder, StreamIsHeld, ScansWhatItShows, ScanningIsShown
    <2>3. LabelsLeadBack
      BY DEF ScanIInv, AnswersAreOfRequests, LabelsLeadBack, Parsed, Printed, Identity
    <2> QED
      BY <2>1, <2>2, <2>3 DEF CodesAreSound
  <1> QED
    BY <1>1, <1>2, ScanInitIsSound, PTL DEF ScanSpec

-----------------------------------------------------------------------------
(* The spools of the Cloud.                                                *)

StockRow == [of : Owners \cup {NoOwner}, by : Owners \cup {NoOwner},
             client : Clients \cup {NoClient}, version : 0..MaxSync,
             at : {"absent", "living", "deleted", "old"}, archived : BOOLEAN]
StockDb == [stock : [SpoolIds -> StockRow],
            kids : SUBSET (SpoolIds \X (Dryings \cup Marks \cup Usages)), ok : BOOLEAN]

\* What every statement of an upsert leaves: an entry is of one spool, a spool that is
\* there has an owner, who wrote it last, and a client id is of one spool of its user.
EntriesAreOfOne(kid) == \A r, s \in kid : r[2] = s[2] => r = s
EntriesHaveSpools(db) == \A r \in db.kids : db.stock[r[1]].at # "absent"
RowsAreOwned(rows) ==
    \A i \in SpoolIds : /\ rows[i].at # "absent" => rows[i].of \in Owners
                        /\ rows[i].by = rows[i].of
ClientsAreOfOne(rows) ==
    \A i, j \in SpoolIds :
        rows[i].client # NoClient /\ rows[i].client = rows[j].client /\ rows[i].of = rows[j].of
        => i = j

DbIsSound(db) ==
    /\ db \in StockDb
    /\ EntriesAreOfOne(db.kids) /\ EntriesHaveSpools(db)
    /\ RowsAreOwned(db.stock) /\ ClientsAreOfOne(db.stock)

IsListOf(n, list) == list = Unsaid \/ list \in Seq(Tables[n])

\* A body has for every table a list of its entries, or none.
LEMMA TablesAreOfEntries ==
  /\ \A n \in 1..3 : Tables[n] \subseteq Dryings \cup Marks \cup Usages
  /\ \A body \in SpoolBodyType : \A n \in 1..3 : IsListOf(n, body.lists[n])
  <1>1. Tables[1] = Dryings /\ Tables[2] = Marks /\ Tables[3] = Usages
    BY DEF Tables
  <1>2. \A n \in 1..3 : n = 1 \/ n = 2 \/ n = 3
    OBVIOUS
  <1>3. ASSUME NEW body \in SpoolBodyType
        PROVE  IsListOf(1, body.lists[1]) /\ IsListOf(2, body.lists[2]) /\ IsListOf(3, body.lists[3])
    BY <1>1 DEF SpoolBodyType, IsListOf
  <1> QED
    BY <1>1, <1>2, <1>3

\* To clear a table of a spool leaves the others' entries.
LEMMA ClearedIsSound ==
  ASSUME NEW db, DbIsSound(db), NEW i, NEW kind
  PROVE  DbIsSound([db EXCEPT !.kids = Cleared(@, i, kind)])
  BY DEF DbIsSound, StockDb, EntriesAreOfOne, EntriesHaveSpools, Cleared

\* To fill it up to the first refusal leaves no entry twice.
LEMMA ReplacedIsSound ==
  ASSUME NEW db, DbIsSound(db), NEW i \in SpoolIds, db.ok => db.stock[i].at # "absent",
         NEW n \in 1..3, NEW list, IsListOf(n, list)
  PROVE  /\ DbIsSound(Replaced(db, i, n, list))
         /\ Replaced(db, i, n, list).stock = db.stock
         /\ Replaced(db, i, n, list).ok => db.ok
  <1>1. CASE list = Unsaid \/ ~db.ok
    BY <1>1 DEF Replaced
  <1>2. CASE list # Unsaid /\ db.ok
    <2> DEFINE table == Cleared(db.kids, i, Tables[n])
               refused == Doubled(table, list)
               stored == {m \in 1..Len(list) : \A r \in refused : m < r}
               new == {<<i, list[m]>> : m \in stored}
               out == [db EXCEPT !.kids = table \cup new, !.ok = refused = {}]
    <2>1. Replaced(db, i, n, list) = out
      BY <1>2 DEF Replaced
    <2>2. table \subseteq db.kids
      BY DEF Cleared
    <2>3. list \in Seq(Dryings \cup Marks \cup Usages)
      BY <1>2, TablesAreOfEntries DEF IsListOf
    <2>4. \A m \in stored : /\ m \in 1..Len(list) /\ list[m] \in Dryings \cup Marks \cup Usages
                            /\ \A row \in table : row[2] # list[m]
      <3>1. \A m \in stored : m \in 1..Len(list) /\ m \notin refused
        <4>1. \A r \in refused : r \in Nat
          BY DEF Doubled
        <4> QED
          BY <4>1
      <3>2. \A m \in 1..Len(list) : m \notin refused => \A row \in table : row[2] # list[m]
        BY DEF Doubled
      <3> HIDE DEF stored, refused, table
      <3> QED
        BY <3>1, <3>2, <2>3
    <2>5. \A m, k \in stored : list[m] = list[k] => m = k
      <3>1. \A m, k \in 1..Len(list) : m < k /\ list[m] = list[k] => k \in refused
        <4>1. \A m, k \in 1..Len(list) : m < k => m \in 1..(k - 1)
          BY <2>3
        <4> QED
          BY <4>1 DEF Doubled
      <3>2. \A k \in stored : k \in 1..Len(list) /\ k \notin refused
        <4>1. \A r \in refused : r \in Nat
          BY DEF Doubled
        <4> QED
          BY <4>1
      <3> HIDE DEF stored, refused
      <3>3. \A m, k \in stored : m < k \/ k < m \/ m = k
        BY <3>2
      <3> QED
        BY <3>1, <3>2, <3>3
    <2>6. new \subseteq SpoolIds \X (Dryings \cup Marks \cup Usages)
      <3> HIDE DEF stored
      <3> QED
        BY <2>4
    <2>7. \A r \in new : r[1] = i /\ \E m \in stored : r = <<i, list[m]>> /\ r[2] = list[m]
      <3> HIDE DEF stored
      <3> QED
        OBVIOUS
    <2> HIDE DEF table, refused, stored, new
    <2>8. EntriesAreOfOne(table \cup new)
      <3>1. SUFFICES ASSUME NEW r \in table \cup new, NEW s \in table \cup new, r[2] = s[2]
                     PROVE  r = s
        BY DEF EntriesAreOfOne
      <3>2. CASE r \in table /\ s \in table
        BY <3>1, <3>2, <2>2 DEF DbIsSound, EntriesAreOfOne
      <3>3. CASE r \in new /\ s \in new
        BY <3>1, <3>3, <2>5, <2>7
      <3>4. CASE r \in table /\ s \in new
        BY <3>1, <3>4, <2>4, <2>7
      <3>5. CASE r \in new /\ s \in table
        BY <3>1, <3>5, <2>4, <2>7
      <3> QED
        BY <3>2, <3>3, <3>4, <3>5
    <2>9. out \in StockDb /\ out.stock = db.stock /\ out.kids = table \cup new
      BY <2>2, <2>6 DEF DbIsSound, StockDb
    <2>10. EntriesHaveSpools(out)
      BY <2>2, <2>7, <2>9, <1>2 DEF DbIsSound, EntriesHaveSpools
    <2> HIDE DEF out
    <2>11. DbIsSound(out)
      BY <2>8, <2>9, <2>10 DEF DbIsSound
    <2> QED
      BY <2>1, <2>9, <2>11, <1>2
  <1> QED
    BY <1>1, <1>2

\* So it is table by table, until an insertion is refused.
LEMMA ChildrenAreSound ==
  ASSUME NEW db, DbIsSound(db), NEW i \in SpoolIds, db.ok => db.stock[i].at # "absent",
         NEW lists, \A n \in 1..3 : IsListOf(n, lists[n]), NEW n \in 0..3
  PROVE  DbIsSound(ReplaceChildren(db, i, lists, n))
  <1> DEFINE dried  == Replaced(db, i, 1, lists[1])
             marked == Replaced(dried, i, 2, lists[2])
             used   == Replaced(marked, i, 3, lists[3])
  <1>1. ReplaceChildren(db, i, lists, n) = <<db, dried, marked, used>>[n + 1]
    BY DEF ReplaceChildren
  <1>2. DbIsSound(dried) /\ (dried.ok => dried.stock[i].at # "absent")
    BY ReplacedIsSound
  <1> HIDE DEF dried
  <1>3. DbIsSound(marked) /\ (marked.ok => marked.stock[i].at # "absent")
    BY <1>2, ReplacedIsSound
  <1> HIDE DEF marked
  <1>4. DbIsSound(used)
    BY <1>3, ReplacedIsSound
  <1> HIDE DEF used
  <1>5. n = 0 \/ n = 1 \/ n = 2 \/ n = 3
    OBVIOUS
  <1> QED
    BY <1>1, <1>2, <1>3, <1>4, <1>5

\* The rows an upsert finds are the user's own, and the row it writes is one there is
\* a uuid for.
LEMMA TargetIsThere ==
  ASSUME NEW db, DbIsSound(db), NEW u \in Owners, NEW body \in SpoolBodyType, Fits(db, u, body)
  PROVE  /\ Target(db, u, body) \in SpoolIds
         /\ \A i \in Existing(db, u, body) : i \in SpoolIds /\ db.stock[i].of = u
  <1>1. Existing(db, u, body) \subseteq SpoolIds /\ \A i \in Existing(db, u, body) : db.stock[i].of = u
    BY DEF Existing
  <1>2. AbsentIn(db) \subseteq SpoolIds
    BY DEF AbsentIn
  <1>3. CASE Existing(db, u, body) # {}
    <2>1. Target(db, u, body) = CHOOSE i \in Existing(db, u, body) : TRUE
      BY <1>3 DEF Target
    <2> QED
      BY <1>1, <1>3, <2>1
  <1>4. CASE Existing(db, u, body) = {} /\ body.id # NoId
    <2>1. Target(db, u, body) = body.id
      BY <1>4 DEF Target
    <2> QED
      BY <1>1, <1>4, <2>1 DEF SpoolBodyType
  <1>5. CASE Existing(db, u, body) = {} /\ body.id = NoId
    <2>1. Target(db, u, body) = CHOOSE i \in AbsentIn(db) : TRUE
      BY <1>5 DEF Target
    <2>2. AbsentIn(db) # {}
      BY <1>5 DEF Fits
    <2> QED
      BY <1>1, <1>2, <2>1, <2>2
  <1> QED
    BY <1>3, <1>4, <1>5

\* A row that is written is its user's, under a client id no other of them has.
LEMMA RowIsSound ==
  ASSUME NEW db, DbIsSound(db), NEW u \in Owners, NEW body \in SpoolBodyType, Fits(db, u, body),
         ~Stale(db, u, body), NEW i, i = Target(db, u, body)
  PROVE  /\ DbIsSound(WriteRow(db, u, i, body))
         /\ WriteRow(db, u, i, body).ok => WriteRow(db, u, i, body).stock[i].at # "absent"
  <1> DEFINE row    == db.stock[i]
             found  == i \in Existing(db, u, body)
             client == IF found /\ body.client = NoClient THEN row.client ELSE body.client
             first  == [of |-> u, by |-> u, client |-> client, version |-> body.version,
                        at |-> "living", archived |-> body.archived = TRUE]
             new    == IF found THEN Merged(row, u, body, client) ELSE first
             out    == [db EXCEPT !.stock[i] = new]
             refused == (~found /\ row.at # "absent") \/ ~ClientFree(db, u, i, client)
  <1>1. WriteRow(db, u, i, body) = IF refused THEN [db EXCEPT !.ok = FALSE] ELSE out
    BY DEF WriteRow
  <1>2. i \in SpoolIds /\ row \in StockRow /\ (found => row.of = u)
    BY TargetIsThere DEF DbIsSound, StockDb
  <1>3. CASE refused
    <2>1. WriteRow(db, u, i, body) = [db EXCEPT !.ok = FALSE]
      BY <1>1, <1>3
    <2>2. DbIsSound([db EXCEPT !.ok = FALSE]) /\ ~[db EXCEPT !.ok = FALSE].ok
      BY DEF DbIsSound, StockDb, EntriesHaveSpools
    <2> QED
      BY <2>1, <2>2
  <1>4. CASE ~refused
    <2>1. WriteRow(db, u, i, body) = out
      BY <1>1, <1>4
    <2>2. ClientFree(db, u, i, client)
      BY <1>4
    <2>3. client \in Clients \cup {NoClient}
      BY <1>2 DEF SpoolBodyType, StockRow
    <2> HIDE DEF client
    <2>4. new \in StockRow /\ new.of = u /\ new.by = u /\ new.client = client /\ new.at = "living"
      <3>1. CASE found
        <4>1. row.version \in 0..MaxSync /\ row.version < MaxSync
          BY <1>2, <3>1 DEF Fits, StockRow
        <4>2. Merged(row, u, body, client) \in StockRow
          <5> DEFINE version == IF body.version > row.version + 1 THEN body.version
                                ELSE row.version + 1
                     archived == IF body.archived = Unsaid THEN row.archived ELSE body.archived
          <5>1. Merged(row, u, body, client)
                  = [row EXCEPT !.by = u, !.client = client, !.at = "living",
                                !.version = version, !.archived = archived]
            BY DEF Merged
          <5>2. version \in 0..MaxSync
            BY <4>1, CloudSpoolParameters DEF SpoolBodyType
          <5>3. archived \in BOOLEAN
            BY <1>2 DEF StockRow, SpoolBodyType
          <5> HIDE DEF version, archived, row
          <5> QED
            BY <1>2, <2>3, <5>1, <5>2, <5>3 DEF StockRow
        <4> QED
          BY <1>2, <3>1, <4>2 DEF Merged, StockRow
      <3>2. CASE ~found
        BY <2>3, <3>2 DEF StockRow, SpoolBodyType
      <3> QED
        BY <3>1, <3>2
    <2> HIDE DEF new, found, row
    <2>5. /\ out \in StockDb /\ out.kids = db.kids /\ out.ok = db.ok
          /\ out.stock = [db.stock EXCEPT ![i] = new]
          /\ out.stock[i] = new /\ \A j \in SpoolIds \ {i} : out.stock[j] = db.stock[j]
      BY <1>2, <2>4 DEF DbIsSound, StockDb
    <2> HIDE DEF out
    <2>6. RowsAreOwned(out.stock)
      BY <1>2, <2>4, <2>5 DEF DbIsSound, RowsAreOwned
    <2>7. ClientsAreOfOne(out.stock)
      <3>1. \A j \in SpoolIds \ {i} : out.stock[j].client # NoClient /\ out.stock[j].of = u
                                      => out.stock[j].client # client
        BY <2>2, <2>5 DEF ClientFree
      <3> QED
        BY <3>1, <1>2, <2>4, <2>5 DEF DbIsSound, ClientsAreOfOne
    <2>8. EntriesHaveSpools(out)
      BY <1>2, <2>4, <2>5 DEF DbIsSound, EntriesHaveSpools, StockDb
    <2>9. DbIsSound(out)
      BY <2>5, <2>6, <2>7, <2>8 DEF DbIsSound
    <2> QED
      BY <2>1, <2>4, <2>5, <2>9
  <1> QED
    BY <1>3, <1>4

\* A whole upsert, or what came before the statement that was refused.
LEMMA UpsertedIsSound ==
  ASSUME NEW db, DbIsSound(db), NEW u \in Owners, NEW body \in SpoolBodyType, Fits(db, u, body)
  PROVE  DbIsSound(Upserted(db, u, body))
  <1>1. CASE ~db.ok \/ Stale(db, u, body)
    BY <1>1 DEF Upserted
  <1>2. CASE ~(~db.ok \/ Stale(db, u, body))
    <2> DEFINE i == Target(db, u, body)
               written == WriteRow(db, u, i, body)
    <2>1. Upserted(db, u, body) = ReplaceChildren(written, i, body.lists, 3)
      BY <1>2 DEF Upserted
    <2>2. DbIsSound(written) /\ (written.ok => written.stock[i].at # "absent")
      BY <1>2, RowIsSound
    <2>3. i \in SpoolIds
      BY TargetIsThere
    <2>4. \A n \in 1..3 : IsListOf(n, body.lists[n])
      BY TablesAreOfEntries
    <2> HIDE DEF written, i
    <2> QED
      BY <2>1, <2>2, <2>3, <2>4, ChildrenAreSound
  <1> QED
    BY <1>1, <1>2

\* So is what it leaves where the process stops.
LEMMA HalfwayIsSound ==
  ASSUME NEW db, DbIsSound(db), NEW u \in Owners, NEW body \in SpoolBodyType, Fits(db, u, body),
         ~Stale(db, u, body), NEW out \in Halfway(db, u, body)
  PROVE  DbIsSound(out)
  <1> DEFINE i == Target(db, u, body)
             written == WriteRow(db, u, i, body)
             before(n) == ReplaceChildren(written, i, body.lists, n - 1)
  <1>1. \/ \E n \in 1..3 : out = before(n)
        \/ \E n \in 1..3 : out = [before(n) EXCEPT !.kids = Cleared(@, i, Tables[n])]
    BY DEF Halfway
  <1>2. DbIsSound(written) /\ (written.ok => written.stock[i].at # "absent")
    BY RowIsSound
  <1>3. i \in SpoolIds
    BY TargetIsThere
  <1>4. \A n \in 1..3 : IsListOf(n, body.lists[n])
    BY TablesAreOfEntries
  <1>5. \A n \in 1..3 : n - 1 \in 0..3
    OBVIOUS
  <1>6. \A n \in 1..3 : DbIsSound(before(n))
    <2> HIDE DEF written, i
    <2> QED
      BY <1>2, <1>3, <1>4, <1>5, ChildrenAreSound
  <1> HIDE DEF before
  <1> QED
    BY <1>1, <1>6, ClearedIsSound

\* The least number of a set.
LEMMA SomeIsLeast ==
  ASSUME NEW T \in SUBSET Nat, T # {}
  PROVE  \E n \in T : \A m \in T : n <= m
  <1>1. PICK n \in T : \A m \in T : ~(<<m, n>> \in OpToRel(<, Nat))
    BY NatLessThanWellFounded, WFMin
  <1>2. ASSUME NEW m \in T PROVE n <= m
    <2>1. ~(m < n)
      BY <1>1 DEF OpToRel
    <2> QED
      BY <2>1
  <1> QED
    BY <1>2

\* What a batch leaves after each of its bodies exists, and is computed one from the
\* other: by contradiction, at the least number of bodies of which that is not so.
LEMMA BatchGoesOn ==
  ASSUME NEW u, NEW batch, Len(batch) \in Nat
  PROVE  /\ AfterEach(u, batch)[0] = Db
         /\ \A n \in 1..Len(batch) :
               AfterEach(u, batch)[n] = Upserted(AfterEach(u, batch)[n - 1], u, batch[n])
  <1> DEFINE L == Len(batch)
             Computes(g, k) == g = [n \in 0..k |-> IF n = 0 THEN Db ELSE Upserted(g[n - 1], u, batch[n])]
             Missing == {k \in 0..L : ~ \E g : Computes(g, k)}
  <1>1. Missing = {}
    <2>1. SUFFICES ASSUME Missing # {} PROVE FALSE
      OBVIOUS
    <2>2. PICK k \in Missing : \A m \in Missing : k <= m
      <3>1. Missing \in SUBSET Nat
        OBVIOUS
      <3> HIDE DEF Missing
      <3> QED
        BY <2>1, <3>1, SomeIsLeast
    <2>3. k \in 0..L /\ \A g : ~Computes(g, k)
      BY <2>2
    <2>4. k # 0
      <3>1. Computes([n \in 0..0 |-> Db], 0)
        OBVIOUS
      <3> HIDE DEF Computes
      <3> QED
        BY <2>3, <3>1
    <2>5. PICK g : Computes(g, k - 1)
      <3>1. k - 1 \in 0..L /\ ~(k <= k - 1)
        BY <2>3, <2>4
      <3> QED
        BY <2>2, <3>1
    <2> DEFINE h == [n \in 0..k |-> IF n < k THEN g[n] ELSE Upserted(g[k - 1], u, batch[k])]
    <2>6. \A n \in 0..k : h[n] = IF n = 0 THEN Db ELSE Upserted(h[n - 1], u, batch[n])
      <3>1. SUFFICES ASSUME NEW n \in 0..k
                     PROVE  h[n] = IF n = 0 THEN Db ELSE Upserted(h[n - 1], u, batch[n])
        OBVIOUS
      <3>2. k \in Nat /\ n \in Nat /\ (n # 0 => n - 1 \in 0..k /\ n - 1 < k /\ h[n - 1] = g[n - 1])
        BY <2>3, <2>4
      <3>3. CASE n = k
        BY <2>4, <3>2, <3>3
      <3>4. CASE n # k
        <4>1. h[n] = g[n] /\ n \in 0..(k - 1)
          BY <3>2, <3>4
        <4>2. g[n] = IF n = 0 THEN Db ELSE Upserted(g[n - 1], u, batch[n])
          BY <4>1, <2>5
        <4> QED
          BY <4>1, <4>2, <3>2
      <3> QED
        BY <3>3, <3>4
    <2>7. DOMAIN h = 0..k /\ h = [n \in 0..k |-> h[n]]
      OBVIOUS
    <2> HIDE DEF h
    <2>8. Computes(h, k)
      BY <2>6, <2>7
    <2> QED
      BY <2>3, <2>8
  <1>2. PICK g : Computes(g, L)
    BY <1>1
  <1>3. Computes(AfterEach(u, batch), L)
    BY <1>2 DEF AfterEach
  <1> QED
    BY <1>3

\* A batch leaves what its bodies leave, one after the other.
LEMMA BatchIsSound ==
  ASSUME DbIsSound(Db), NEW u \in Owners, NEW batch \in Seq(SpoolBodyType),
         \A n \in 1..Len(batch) : Fits(AfterEach(u, batch)[n - 1], u, batch[n])
  PROVE  DbIsSound(AfterEach(u, batch)[Len(batch)])
  <1> DEFINE L == Len(batch)
             after == AfterEach(u, batch)
             Wrong == {n \in 0..L : ~DbIsSound(after[n])}
  <1>1. /\ L \in Nat /\ after[0] = Db
        /\ \A n \in 1..L : after[n] = Upserted(after[n - 1], u, batch[n])
        /\ \A n \in 1..L : Fits(after[n - 1], u, batch[n]) /\ batch[n] \in SpoolBodyType
    BY BatchGoesOn
  <1>2. Wrong = {}
    <2> HIDE DEF after, L
    <2>1. SUFFICES ASSUME Wrong # {} PROVE FALSE
      OBVIOUS
    <2>2. PICK n \in Wrong : \A m \in Wrong : n <= m
      <3>1. Wrong \in SUBSET Nat
        BY <1>1
      <3> HIDE DEF Wrong
      <3> QED
        BY <2>1, <3>1, SomeIsLeast
    <2>3. n \in 0..L /\ ~DbIsSound(after[n])
      BY <2>2
    <2>4. n # 0
      BY <2>3, <1>1
    <2>5. n \in 1..L /\ n - 1 \in 0..L /\ ~(n <= n - 1)
      BY <2>3, <2>4, <1>1
    <2>6. DbIsSound(after[n - 1])
      BY <2>2, <2>5
    <2>7. DbIsSound(Upserted(after[n - 1], u, batch[n]))
      BY <2>5, <2>6, <1>1, UpsertedIsSound
    <2> QED
      BY <2>3, <2>5, <2>7, <1>1
  <1>3. L \in 0..L
    BY <1>1
  <1> HIDE DEF after, L
  <1>4. DbIsSound(after[L])
    BY <1>2, <1>3
  <1> QED
    BY <1>4 DEF after, L

\* The inductive invariant of the table and its children.
StockIInv == DbIsSound(Db)

\* What is stored outlives the request, refused or not.
LEMMA StoredIsSound ==
  ASSUME NEW db, DbIsSound(db), Store(db)
  PROVE  StockIInv'
  BY DEF Store, StockIInv, Db, DbIsSound, StockDb, EntriesHaveSpools

\* One spool that is posted.
LEMMA PostIsSound ==
  ASSUME StockIInv, NEW u \in Owners, NEW body \in SpoolBodyType, PostSpool(u, body)
  PROVE  StockIInv'
  BY UpsertedIsSound, StoredIsSound DEF StockIInv, PostSpool

\* What an uuid is taken from goes with its entries.
LEMMA EraseIsSound ==
  ASSUME StockIInv, NEW gone, Erase(gone)
  PROVE  StockIInv'
  <1>1. /\ stock \in [SpoolIds -> StockRow]
        /\ kids \subseteq SpoolIds \X (Dryings \cup Marks \cup Usages)
        /\ EntriesAreOfOne(kids) /\ RowsAreOwned(stock) /\ ClientsAreOfOne(stock)
        /\ \A r \in kids : stock[r[1]].at # "absent"
    BY DEF StockIInv, DbIsSound, Db, StockDb, EntriesHaveSpools
  <1>2. /\ \A i \in SpoolIds : stock'[i] = IF i \in gone THEN NoRoll ELSE stock[i]
        /\ DOMAIN stock' = SpoolIds /\ stock' = [i \in SpoolIds |-> stock'[i]]
        /\ \A r \in kids' : r \in kids /\ r[1] \notin gone
    BY DEF Erase, WithoutKids
  <1>3. NoRoll \in StockRow
    BY CloudSpoolParameters DEF NoRoll, StockRow
  <1>4. stock' \in [SpoolIds -> StockRow]
    BY <1>1, <1>2, <1>3
  <1>5. kids' \subseteq kids /\ \A r \in kids' : stock'[r[1]] = stock[r[1]]
    BY <1>1, <1>2
  <1>6. RowsAreOwned(stock') /\ ClientsAreOfOne(stock')
    BY <1>1, <1>2 DEF RowsAreOwned, ClientsAreOfOne, NoRoll
  <1>7. EntriesAreOfOne(kids') /\ \A r \in kids' : stock'[r[1]].at # "absent"
    BY <1>1, <1>5 DEF EntriesAreOfOne
  <1> QED
    BY <1>1, <1>4, <1>5, <1>6, <1>7 DEF StockIInv, DbIsSound, Db, StockDb, EntriesHaveSpools

\* A spool that is deleted softly, or was long ago, keeps its row, its client id and
\* its entries.
LEMMA DeletedIsSound ==
  ASSUME StockIInv, NEW i \in SpoolIds, NEW at \in {"deleted", "old"}, stock[i].at # "absent",
         stock' = [stock EXCEPT ![i].at = at], UNCHANGED kids
  PROVE  StockIInv'
  <1>1. /\ stock \in [SpoolIds -> StockRow]
        /\ kids \subseteq SpoolIds \X (Dryings \cup Marks \cup Usages)
        /\ EntriesAreOfOne(kids) /\ RowsAreOwned(stock) /\ ClientsAreOfOne(stock)
        /\ \A r \in kids : stock[r[1]].at # "absent"
    BY DEF StockIInv, DbIsSound, Db, StockDb, EntriesHaveSpools
  <1>2. /\ stock' \in [SpoolIds -> StockRow]
        /\ \A j \in SpoolIds : /\ stock'[j].of = stock[j].of /\ stock'[j].by = stock[j].by
                               /\ stock'[j].client = stock[j].client
                               /\ stock'[j].at # "absent" <=> stock[j].at # "absent"
    BY <1>1 DEF StockRow
  <1>3. RowsAreOwned(stock') /\ ClientsAreOfOne(stock')
    BY <1>1, <1>2 DEF RowsAreOwned, ClientsAreOfOne
  <1> QED
    BY <1>1, <1>2, <1>3 DEF StockIInv, DbIsSound, Db, StockDb, EntriesHaveSpools, EntriesAreOfOne

\* No spools are found.
LEMMA StockStart == StockInit => StockIInv
  <1> SUFFICES ASSUME StockInit PROVE StockIInv
    OBVIOUS
  <1>1. stock = [i \in SpoolIds |-> NoRoll] /\ kids = {}
    BY DEF StockInit
  <1>2. NoRoll \in StockRow
    BY CloudSpoolParameters DEF NoRoll, StockRow
  <1>3. RowsAreOwned(stock) /\ ClientsAreOfOne(stock)
    BY <1>1 DEF RowsAreOwned, ClientsAreOfOne, NoRoll
  <1> QED
    BY <1>1, <1>2, <1>3 DEF StockIInv, DbIsSound, Db, StockDb, EntriesAreOfOne, EntriesHaveSpools

\* Every route, job and stop keeps the invariant.
LEMMA StockStep == StockIInv /\ [StockNext]_stockVars => StockIInv'
  <1> SUFFICES ASSUME StockIInv, [StockNext]_stockVars PROVE StockIInv'
    OBVIOUS
  <1>0. SpoolBodies \subseteq SpoolBodyType
    BY CloudSpoolParameters
  <1>1. ASSUME NEW u \in Owners, NEW body \in SpoolBodies, PostSpool(u, body) PROVE StockIInv'
    BY <1>0, <1>1, PostIsSound
  <1>2. ASSUME NEW u \in Owners, NEW body \in SpoolBodies, StopInUpsert(u, body) PROVE StockIInv'
    <2>1. PICK db \in Halfway(Db, u, body) : Store(db)
      BY <1>2 DEF StopInUpsert
    <2>2. DbIsSound(db)
      BY <1>0, <1>2, <2>1, HalfwayIsSound DEF StopInUpsert, StockIInv
    <2> QED
      BY <2>1, <2>2, StoredIsSound
  <1>3. ASSUME NEW u \in Owners, NEW n \in 1..MaxBatch, NEW batch \in [1..n -> SpoolBodies],
               SyncSpools(u, batch)
        PROVE  StockIInv'
    <2>1. batch \in Seq(SpoolBodyType)
      BY <1>0, CloudSpoolParameters
    <2>2. DbIsSound(AfterEach(u, batch)[Len(batch)])
      BY <2>1, <1>3, BatchIsSound DEF SyncSpools, StockIInv
    <2> QED
      BY <1>3, <2>2, StoredIsSound DEF SyncSpools
  <1>4. ASSUME NEW u \in Owners, NEW i \in SpoolIds, SoftDelete(u, i) PROVE StockIInv'
    BY <1>4, DeletedIsSound DEF SoftDelete, Owned
  <1>5. ASSUME NEW u \in Owners, NEW i \in SpoolIds, HardDelete(u, i) PROVE StockIInv'
    BY <1>5, EraseIsSound DEF HardDelete
  <1>6. ASSUME NEW u \in Owners, NEW i \in SpoolIds, NEW body \in SpoolBodies, PutSpool(u, i, body)
        PROVE  StockIInv'
    <2>1. [body EXCEPT !.id = i] \in SpoolBodyType
      BY <1>0 DEF SpoolBodyType
    <2> QED
      BY <1>6, <2>1, PostIsSound DEF PutSpool
  <1>7. ASSUME NEW u \in Owners, PurgeAll(u) PROVE StockIInv'
    BY <1>7, EraseIsSound DEF PurgeAll
  <1>8. CASE PurgeSoftDeleted
    BY <1>8, EraseIsSound DEF PurgeSoftDeleted
  <1>9. ASSUME NEW i \in SpoolIds, Grow(i) PROVE StockIInv'
    BY <1>9, DeletedIsSound DEF Grow
  <1>10. CASE UNCHANGED stockVars
    BY <1>10 DEF stockVars, StockIInv, Db
  <1> QED
    BY <1>1, <1>2, <1>3, <1>4, <1>5, <1>6, <1>7, <1>8, <1>9, <1>10 DEF StockNext

\* The invariant is what a search needs.
LEMMA SoundIsFound == StockIInv => SpoolsAreFound
  <1> SUFFICES ASSUME StockIInv PROVE SpoolsAreFound
    OBVIOUS
  <1>1. /\ stock \in [SpoolIds -> StockRow]
        /\ kids \subseteq SpoolIds \X (Dryings \cup Marks \cup Usages)
        /\ EntriesAreOfOne(kids) /\ RowsAreOwned(stock) /\ ClientsAreOfOne(stock)
        /\ \A r \in kids : stock[r[1]].at # "absent"
    BY DEF StockIInv, DbIsSound, Db, StockDb, EntriesHaveSpools
  <1>2. CodesFindSpools
    <2>1. SUFFICES ASSUME NEW k \in Marks
                   PROVE  LET holders == {i \in SpoolIds : <<i, k>> \in kids} IN
                          /\ Cardinality(holders) <= 1
                          /\ Resolve(k) = {i \in holders : \E u \in Owners : i \in Listed(u, FALSE)}
      BY DEF CodesFindSpools
    <2> DEFINE holders == {i \in SpoolIds : <<i, k>> \in kids}
    <2>2. \A i, j \in holders : i = j
      <3>1. \A i, j : <<i, k>> \in kids /\ <<j, k>> \in kids => <<i, k>> = <<j, k>>
        BY <1>1 DEF EntriesAreOfOne
      <3> QED
        BY <3>1
    <2>3. Cardinality(holders) <= 1
      <3>1. CASE holders = {}
        <4> HIDE DEF holders
        <4> QED
          BY <3>1, FS_EmptySet
      <3>2. CASE holders # {}
        <4>1. PICK i \in holders : TRUE
          BY <3>2
        <4>2. holders = {i}
          BY <4>1, <2>2
        <4> HIDE DEF holders
        <4> QED
          BY <4>2, FS_Singleton
      <3> QED
        BY <3>1, <3>2
    <2>4. \A i : i \in Resolve(k) <=> i \in holders /\ stock[i].at = "living" /\ ~stock[i].archived
      <3>1. \A r \in kids : r = <<r[1], r[2]>> /\ r[1] \in SpoolIds
        BY <1>1
      <3> QED
        BY <3>1 DEF Resolve
    <2>5. \A i \in SpoolIds : (\E u \in Owners : i \in Listed(u, FALSE))
                              <=> stock[i].at = "living" /\ ~stock[i].archived
      BY <1>1 DEF Listed, Owned, RowsAreOwned
    <2> QED
      BY <2>3, <2>4, <2>5
  <1>3. NothingIsLeftBehind
    BY <1>1 DEF NothingIsLeftBehind, Exported, Listed, Owned
  <1>4. ClientsFindSpools /\ OnlyOwnersWrite
    BY <1>1 DEF ClientsFindSpools, OnlyOwnersWrite, ClientsAreOfOne, RowsAreOwned
  <1> QED
    BY <1>2, <1>3, <1>4 DEF SpoolsAreFound

\* Whoever stores, uploads, deletes, purges or stops, for any owners, bodies and batches:
\* a code leads to one spool and a client id to one of its user, nothing outlives its
\* spool, and only owners write (CloudSpools, user-spools.ts and account-privacy.ts).
THEOREM SpoolsAreAlwaysFound == StockSpec => []SpoolsAreFound
  BY StockStart, StockStep, SoundIsFound, PTL DEF StockSpec

\* Both halves of CodesLeadHome: the page with the camera and the label, and the rows
\* a user's code leads to, each by its own specification.
THEOREM CodesAlwaysLeadHome ==
  ASSUME ~Impatient
  PROVE  ScanSpec /\ StockSpec => []CodesLeadHome
  <1>1. CodesAreSound /\ SpoolsAreFound => CodesLeadHome
    BY DEF CodesLeadHome
  <1> QED
    BY <1>1, CodesAreAlwaysSound, SpoolsAreAlwaysFound, PTL
=============================================================================
