----------------------- MODULE CloudEntitlementProofs -----------------------
(***************************************************************************)
(* Theorems about CloudEntitlement, for any users, payments, gifts, term   *)
(* lengths and horizon.                                                    *)
(***************************************************************************)
EXTENDS CloudEntitlement, WellFoundedInduction, TLAPS

-----------------------------------------------------------------------------
(* The reduce in maxPaidUntilFromGrants and the one in recompute: they     *)
(* return the greatest end and the least start of the active grants.       *)

\* Every inhabited set of ticks has a least element.
LEMMA LeastElement ==
    ASSUME NEW S \in SUBSET Nat, S # {}
    PROVE  \E m \in S : \A n \in S : m <= n
<1> DEFINE R == {ss \in Nat \X Nat : ss[1] < ss[2]}
<1>1. IsWellFoundedOn(R, Nat)
  BY NatLessThanWellFounded, Zenon DEF OpToRel
<1>2. \E x \in S : \A y \in S : <<y, x>> \notin R
  <2> HIDE DEF R
  <2> QED BY <1>1, WFMin, Zenon
<1>3. PICK m \in S : \A y \in S : <<y, m>> \notin R
  BY <1>2
<1>4. ASSUME NEW n \in S PROVE m <= n
  <2>1. <<n, m>> \notin R
    BY <1>3
  <2>2. n \in Nat /\ m \in Nat
    OBVIOUS
  <2>3. ~(n < m)
    BY <2>1, <2>2
  <2> QED BY <2>2, <2>3
<1> QED BY <1>4

\* Among grants whose ends are ticks, one ends last.
LEMMA LatestEndExists ==
    ASSUME NEW A, A # {}, NEW G, \A g \in A : G[g].endsAt \in Time
    PROVE  \E g \in A : \A h \in A : G[h].endsAt <= G[g].endsAt
<1> DEFINE S == {Horizon - G[g].endsAt : g \in A}
<1>1. S \in SUBSET Nat /\ S # {}
  BY ParametersAreTicks DEF Time
<1>2. PICK m \in S : \A n \in S : m <= n
  <2> HIDE DEF S
  <2> QED BY <1>1, LeastElement
<1>3. PICK g \in A : m = Horizon - G[g].endsAt
  OBVIOUS
<1>4. ASSUME NEW h \in A PROVE G[h].endsAt <= G[g].endsAt
  <2>1. m <= Horizon - G[h].endsAt
    BY <1>2
  <2> QED BY <2>1, <1>3, ParametersAreTicks DEF Time
<1> QED BY <1>4

\* Among grants whose starts are ticks, one starts first.
LEMMA EarliestStartExists ==
    ASSUME NEW A, A # {}, NEW G, \A g \in A : G[g].startsAt \in Time
    PROVE  \E g \in A : \A h \in A : G[g].startsAt <= G[h].startsAt
<1> DEFINE S == {G[g].startsAt : g \in A}
<1>1. S \in SUBSET Nat /\ S # {}
  BY ParametersAreTicks DEF Time
<1>2. PICK m \in S : \A n \in S : m <= n
  <2> HIDE DEF S
  <2> QED BY <1>1, LeastElement
<1>3. PICK g \in A : m = G[g].startsAt
  OBVIOUS
<1> QED BY <1>2, <1>3

\* paidUntil is null without active grants, and otherwise the end of one of
\* them that no other exceeds.
LEMMA MaxPaidUntilIsMax ==
    ASSUME NEW u, NEW G \in [Grants -> GrantRow]
    PROVE  LET A == ActiveGrants(u, G)
               m == MaxPaidUntil(u, G) IN
           \/ A = {} /\ m = None
           \/ /\ A # {} /\ m \in Time
              /\ \E g \in A : m = G[g].endsAt
              /\ \A g \in A : G[g].endsAt <= m
<1> DEFINE A == ActiveGrants(u, G)
<1>1. CASE A = {}
  BY <1>1 DEF MaxPaidUntil
<1>2. CASE A # {}
  <2> DEFINE last == CHOOSE g \in A : \A h \in A : G[h].endsAt <= G[g].endsAt
  <2>1. \A g \in A : G[g].endsAt \in Time
    BY DEF ActiveGrants, GrantRow
  <2>2. \E g \in A : \A h \in A : G[h].endsAt <= G[g].endsAt
    <3> HIDE DEF A
    <3> QED BY <1>2, <2>1, LatestEndExists
  <2>3. last \in A /\ \A h \in A : G[h].endsAt <= G[last].endsAt
    <3> HIDE DEF A
    <3> QED BY <2>2
  <2>4. MaxPaidUntil(u, G) = G[last].endsAt
    BY <1>2 DEF MaxPaidUntil
  <2> QED BY <1>2, <2>1, <2>3, <2>4
<1> QED BY <1>1, <1>2

\* startsAt is null without active grants, and otherwise a tick.
LEMMA MinStartsAtType ==
    ASSUME NEW u, NEW G \in [Grants -> GrantRow]
    PROVE  LET A == ActiveGrants(u, G)
               m == MinStartsAt(u, G) IN
           \/ A = {} /\ m = None
           \/ /\ A # {} /\ m \in Time
              /\ \E g \in A : m = G[g].startsAt
              /\ \A g \in A : m <= G[g].startsAt
<1> DEFINE A == ActiveGrants(u, G)
<1>1. CASE A = {}
  BY <1>1 DEF MinStartsAt
<1>2. CASE A # {}
  <2> DEFINE first == CHOOSE g \in A : \A h \in A : G[g].startsAt <= G[h].startsAt
  <2>1. \A g \in A : G[g].startsAt \in Time
    BY DEF ActiveGrants, GrantRow
  <2>2. \E g \in A : \A h \in A : G[g].startsAt <= G[h].startsAt
    <3> HIDE DEF A
    <3> QED BY <1>2, <2>1, EarliestStartExists
  <2>3. first \in A /\ \A h \in A : G[first].startsAt <= G[h].startsAt
    <3> HIDE DEF A
    <3> QED BY <2>2
  <2>4. MinStartsAt(u, G) = G[first].startsAt
    BY <1>2 DEF MinStartsAt
  <2> QED BY <1>2, <2>1, <2>3, <2>4
<1> QED BY <1>1, <1>2

\* Both depend on nothing but the user's own active grants.
LEMMA SnapshotDependsOnOwnGrants ==
    ASSUME NEW u, NEW G \in [Grants -> GrantRow],
           NEW H \in [Grants -> GrantRow],
           ActiveGrants(u, G) = ActiveGrants(u, H),
           \A g \in ActiveGrants(u, G) : G[g] = H[g]
    PROVE  /\ MaxPaidUntil(u, G) = MaxPaidUntil(u, H)
           /\ MinStartsAt(u, G) = MinStartsAt(u, H)
<1>1. MaxPaidUntil(u, G) = MaxPaidUntil(u, H)
  <2> HIDE DEF Time
  <2>1. \A g \in ActiveGrants(u, G) : G[g].endsAt \in Int
    BY ParametersAreTicks DEF ActiveGrants, GrantRow, Time
  <2>2. \A x, y \in Int : x <= y /\ y <= x => x = y
    OBVIOUS
  <2> QED BY <2>1, <2>2, MaxPaidUntilIsMax
<1>2. MinStartsAt(u, G) = MinStartsAt(u, H)
  <2>1. \A g \in ActiveGrants(u, G) : G[g].startsAt \in Int
    BY ParametersAreTicks DEF ActiveGrants, GrantRow, Time
  <2>2. \A x, y \in Int : x <= y /\ y <= x => x = y
    OBVIOUS
  <2> QED BY <2>1, <2>2, MinStartsAtType
<1> QED BY <1>1, <1>2

\* Whatever it is computed from, the status is one of the column's values.
LEMMA DeriveStatusType ==
    ASSUME NEW paidUntil, NEW disputed, NEW t
    PROVE  DeriveStatus(paidUntil, disputed, t) \in EntitlementStatus
BY DEF DeriveStatus, EntitlementStatus

\* A recomputed row is a well-typed row.
LEMMA RecomputedType ==
    ASSUME NEW u, NEW P, NEW G \in [Grants -> GrantRow]
    PROVE  Recomputed(u, P, G) \in SnapshotRow
BY MaxPaidUntilIsMax, MinStartsAtType, DeriveStatusType
   DEF Recomputed, SnapshotRow

\* A stacked term that fits below the horizon is a well-typed grant.
LEMMA NewGrantType ==
    ASSUME NEW u \in Users \cup {None}, NEW d \in Time \cup {None},
           NEW t \in Time, NEW term \in Nat \ {0},
           StackFrom(d, t) + term <= Horizon
    PROVE  NewGrant(u, StackFrom(d, t), term) \in GrantRow
BY ParametersAreTicks, IdentitiesAreDistinct
   DEF NewGrant, StackFrom, GrantRow, Time
-----------------------------------------------------------------------------
(* Type correctness.                                                       *)

\* The empty database is well typed.
LEMMA InitTypeOK == Init => TypeOK
BY ParametersAreTicks DEF Init, TypeOK, NoPayment, NoGrant, NewRow, Time,
   PaymentRow, GrantRow, SnapshotRow,
   PaymentStatus, EntitlementStatus, Settled, Closed

\* Every operation writes values of the columns' types.
LEMMA NextTypeOK == TypeOK /\ [Next]_vars => TypeOK'
<1> SUFFICES ASSUME TypeOK, [Next]_vars PROVE TypeOK'
  OBVIOUS
<1> USE DEF TypeOK
<1>r. ASSUME NEW u, Recompute(u), grant' \in [Grants -> GrantRow]
      PROVE  row' \in [Users -> SnapshotRow]
  <2>1. Recomputed(u, payment', grant') \in SnapshotRow
    BY <1>r, RecomputedType
  <2> QED BY <1>r, <2>1 DEF Recompute
<1>1. CASE Tick
  BY <1>1, ParametersAreTicks DEF Tick, Time
<1>2. ASSUME NEW u \in Users, NEW p \in Payments, CreatePendingPayment(u, p)
      PROVE  TypeOK'
  BY <1>2 DEF CreatePendingPayment, PaymentStatus, PaymentRow
<1>3. ASSUME NEW p \in Payments, NEW status \in Closed, ClosePending(p, status)
      PROVE  TypeOK'
  BY <1>3 DEF ClosePending, PaymentStatus, PaymentRow
<1>4. ASSUME NEW p \in Payments, NEW t \in Time, t <= now,
             ApplyPaidPayment(p, t)
      PROVE  TypeOK'
  <2> DEFINE u == payment[p].user
             d == MaxPaidUntil(u, grant)
  <2>1. payment' \in [Payments -> PaymentRow]
    BY <1>4 DEF ApplyPaidPayment, PaymentRow, PaymentStatus, Settled
  <2>2. grant' \in [Grants -> GrantRow]
    <3>1. d \in Time \cup {None}
      BY MaxPaidUntilIsMax
    <3>2. u \in Users \cup {None}
      BY DEF PaymentRow
    <3>3. CASE UNCHANGED grant
      BY <3>3
    <3>4. CASE /\ StackFrom(d, t) + AccessTerm <= Horizon
               /\ grant' = [grant EXCEPT ![p] =
                               NewGrant(u, StackFrom(d, t), AccessTerm)]
      <4> HIDE DEF d, u
      <4>1. NewGrant(u, StackFrom(d, t), AccessTerm) \in GrantRow
        BY <3>1, <3>2, <3>4, NewGrantType, ParametersAreTicks
      <4> QED BY <3>4, <4>1
    <3> QED BY <1>4, <3>3, <3>4 DEF ApplyPaidPayment
  <2>3. row' \in [Users -> SnapshotRow]
    BY <1>4, <1>r, <2>2 DEF ApplyPaidPayment
  <2> QED BY <1>4, <2>1, <2>2, <2>3 DEF ApplyPaidPayment
<1>5. ASSUME NEW p \in Payments, MarkRefunded(p) PROVE TypeOK'
  <2>1. payment' \in [Payments -> PaymentRow]
    BY <1>5 DEF MarkRefunded, PaymentRow, PaymentStatus, Settled
  <2>2. grant' \in [Grants -> GrantRow]
    BY <1>5 DEF MarkRefunded, RevokeGrant, GrantRow
  <2>3. row' \in [Users -> SnapshotRow]
    BY <1>5, <1>r, <2>2 DEF MarkRefunded
  <2> QED BY <1>5, <2>1, <2>2, <2>3 DEF MarkRefunded
<1>6. ASSUME NEW p \in Payments, MarkPartiallyRefunded(p) PROVE TypeOK'
  BY <1>6 DEF MarkPartiallyRefunded, PaymentRow, PaymentStatus, Settled
<1>7. ASSUME NEW p \in Payments, MarkDisputed(p) PROVE TypeOK'
  <2>1. payment' \in [Payments -> PaymentRow]
    BY <1>7 DEF MarkDisputed, PaymentRow, PaymentStatus, Settled
  <2>2. row' \in [Users -> SnapshotRow]
    BY <1>7, <1>r DEF MarkDisputed
  <2> QED BY <1>7, <2>1, <2>2 DEF MarkDisputed
<1>8. ASSUME NEW u \in Users, NEW g \in ManualGrants, NEW term \in ManualTerms,
             GrantManualAccess(u, g, term)
      PROVE  TypeOK'
  <2>1. grant' \in [Grants -> GrantRow]
    <3>1. row[u].paidUntil \in Time \cup {None}
      BY DEF SnapshotRow
    <3>2. NewGrant(u, StackFrom(row[u].paidUntil, now), term) \in GrantRow
      BY <1>8, <3>1, NewGrantType, ParametersAreTicks DEF GrantManualAccess
    <3> QED BY <1>8, <3>2 DEF GrantManualAccess, Grants
  <2>2. row' \in [Users -> SnapshotRow]
    BY <1>8, <1>r, <2>1 DEF GrantManualAccess
  <2> QED BY <1>8, <2>1, <2>2 DEF GrantManualAccess
<1>9. ASSUME NEW g \in Grants, RevokeAccess(g) PROVE TypeOK'
  <2>1. grant' \in [Grants -> GrantRow]
    BY <1>9 DEF RevokeAccess, GrantRow
  <2>2. row' \in [Users -> SnapshotRow]
    BY <1>9, <1>r, <2>1 DEF RevokeAccess
  <2> QED BY <1>9, <2>1, <2>2 DEF RevokeAccess
<1>10. ASSUME NEW u \in Users, RefreshEntitlement(u) PROVE TypeOK'
  <2>1. row' \in [Users -> SnapshotRow]
    BY <1>10, <1>r DEF RefreshEntitlement
  <2> QED BY <1>10, <2>1 DEF RefreshEntitlement
<1>11. CASE UNCHANGED vars
  BY <1>11 DEF vars
<1> QED
  BY <1>1, <1>2, <1>3, <1>4, <1>5, <1>6, <1>7, <1>8, <1>9, <1>10, <1>11
     DEF Next

\* In every reachable state the clock and the three tables hold values of
\* their columns' types, for any size of the database.
THEOREM TypeCorrect == Spec => []TypeOK
BY InitTypeOK, NextTypeOK, PTL DEF Spec
-----------------------------------------------------------------------------
(* The inductive invariant.  Disjointness of terms needs the snapshot to   *)
(* agree with the ledger (the administrator's grant stacks on the row);    *)
(* the agreement needs each grant of a payment to belong to that payment's *)
(* user (it is that user's row that is recomputed).                        *)

\* The foreign key: a payment that exists belongs to a user.
PaymentsAreOwned ==
    \A p \in Payments :
        payment[p].status # "absent" => payment[p].user \in Users

IInv == TypeOK /\ SnapshotAgrees /\ TermsDisjoint /\ SettledHasGrant
               /\ RefundEndsGrant /\ PaymentsAreOwned

\* Recomputing u's row restores the agreement after a step that touched no
\* grant of another user.
LEMMA RecomputeRestoresAgreement ==
    ASSUME TypeOK, SnapshotAgrees, NEW u, Recompute(u),
           grant' \in [Grants -> GrantRow],
           \A g \in Grants : \/ grant'[g] = grant[g]
                             \/ /\ grant'[g].user = u
                                /\ \/ grant[g].user = u
                                   \/ grant[g].status = "absent"
    PROVE  SnapshotAgrees'
<1> SUFFICES ASSUME NEW v \in Users
             PROVE  /\ row'[v].paidUntil = MaxPaidUntil(v, grant')
                    /\ row'[v].startsAt = MinStartsAt(v, grant')
  BY DEF SnapshotAgrees
<1>1. CASE v = u
  BY <1>1 DEF Recompute, Recomputed, TypeOK
<1>2. CASE v # u
  <2>1. row'[v] = row[v]
    BY <1>2 DEF Recompute, TypeOK
  <2>2. ActiveGrants(v, grant') = ActiveGrants(v, grant)
    BY <1>2 DEF ActiveGrants
  <2>3. \A g \in ActiveGrants(v, grant) : grant'[g] = grant[g]
    BY <1>2 DEF ActiveGrants
  <2>4. /\ MaxPaidUntil(v, grant') = MaxPaidUntil(v, grant)
        /\ MinStartsAt(v, grant') = MinStartsAt(v, grant)
    BY <2>2, <2>3, SnapshotDependsOnOwnGrants DEF TypeOK
  <2> QED BY <2>1, <2>4 DEF SnapshotAgrees
<1> QED BY <1>1, <1>2

\* A term stacked on a date that no term in force of the user exceeds keeps
\* the terms disjoint.
LEMMA StackedTermIsDisjoint ==
    ASSUME TypeOK, TermsDisjoint, NEW g \in Grants, NEW u, NEW from \in Time,
           NEW term, grant[g].status = "absent",
           grant' = [grant EXCEPT ![g] = NewGrant(u, from, term)],
           \A h \in ActiveGrants(u, grant) : grant[h].endsAt <= from
    PROVE  TermsDisjoint'
BY DEF TypeOK, TermsDisjoint, NewGrant, ActiveGrants

\* Revoking a grant keeps the others disjoint.
LEMMA RevokedTermIsDisjoint ==
    ASSUME TypeOK, TermsDisjoint,
           grant' \in [Grants -> GrantRow],
           \A g \in Grants :
              \/ grant'[g] = grant[g]
              \/ grant'[g].status = "revoked"
    PROVE  TermsDisjoint'
BY DEF TypeOK, TermsDisjoint

\* The stacking rule starts no earlier than the latest end it is given.
LEMMA StackFromCovers ==
    ASSUME TypeOK, NEW u, NEW t \in Time
    PROVE  /\ StackFrom(MaxPaidUntil(u, grant), t) \in Time
           /\ \A h \in ActiveGrants(u, grant) :
                 grant[h].endsAt <= StackFrom(MaxPaidUntil(u, grant), t)
<1> DEFINE d == MaxPaidUntil(u, grant)
           A == ActiveGrants(u, grant)
<1>1. \A h \in A : grant[h].endsAt \in Time
  BY DEF ActiveGrants, TypeOK, GrantRow
<1>2. \/ A = {} /\ d = None
      \/ d \in Time /\ \A h \in A : grant[h].endsAt <= d
  BY MaxPaidUntilIsMax DEF TypeOK
<1> HIDE DEF A, d
<1>3. /\ StackFrom(d, t) \in Time
      /\ \A h \in A : grant[h].endsAt <= StackFrom(d, t)
  BY <1>1, <1>2, ParametersAreTicks, IdentitiesAreDistinct DEF StackFrom, Time
<1> QED BY <1>3 DEF A, d

\* No payment exists at first.
LEMMA InitOwned == Init => PaymentsAreOwned
BY DEF Init, PaymentsAreOwned, NoPayment

\* No operation hands a payment to another user; a payment Stripe can refund
\* or dispute exists.
LEMMA NextOwned ==
    TypeOK /\ SettledHasGrant /\ PaymentsAreOwned /\ [Next]_vars
        => PaymentsAreOwned'
<1> SUFFICES ASSUME TypeOK, SettledHasGrant, PaymentsAreOwned, [Next]_vars,
                    NEW p \in Payments, payment'[p].status # "absent"
             PROVE  payment'[p].user \in Users
  BY DEF PaymentsAreOwned
<1> USE DEF TypeOK, PaymentsAreOwned
<1>1. CASE UNCHANGED payment
  BY <1>1
<1>2. ASSUME NEW u \in Users, NEW q \in Payments, CreatePendingPayment(u, q)
      PROVE  payment'[p].user \in Users
  BY <1>2 DEF CreatePendingPayment
<1>3. ASSUME NEW q \in Payments, payment[q].status # "absent",
             \/ \E status \in Closed : ClosePending(q, status)
             \/ \E t \in Time : ApplyPaidPayment(q, t)
             \/ MarkRefunded(q) \/ MarkPartiallyRefunded(q) \/ MarkDisputed(q)
      PROVE  payment'[p].user \in Users
  <2>1. /\ payment'[q].user = payment[q].user
        /\ p # q => payment'[p] = payment[p]
    BY <1>3 DEF ClosePending, ApplyPaidPayment, MarkRefunded,
                MarkPartiallyRefunded, MarkDisputed, PaymentRow
  <2> QED BY <1>3, <2>1
<1>4. \A q \in Payments : payment[q].linked => payment[q].status # "absent"
  BY DEF SettledHasGrant, Settled
<1>5. CASE Tick \/ \E u \in Users : RefreshEntitlement(u)
  BY <1>1, <1>5 DEF Tick, RefreshEntitlement
<1>6. CASE \/ \E u \in Users, g \in ManualGrants, term \in ManualTerms :
                GrantManualAccess(u, g, term)
           \/ \E g \in Grants : RevokeAccess(g)
           \/ UNCHANGED vars
  BY <1>1, <1>6 DEF GrantManualAccess, RevokeAccess, vars
<1> QED
  BY <1>2, <1>3, <1>4, <1>5, <1>6
     DEF Next, ClosePending, ApplyPaidPayment, MarkRefunded,
         MarkPartiallyRefunded, MarkDisputed

\* The empty database satisfies the inductive invariant.
LEMMA InitIInv == Init => IInv
<1> SUFFICES ASSUME Init PROVE IInv
  OBVIOUS
<1>1. TypeOK
  BY InitTypeOK
<1>2. \A u \in Users : ActiveGrants(u, grant) = {}
  BY DEF Init, ActiveGrants, NoGrant
<1>3. SnapshotAgrees
  BY <1>2 DEF Init, SnapshotAgrees, MaxPaidUntil, MinStartsAt, NewRow
<1>4. TermsDisjoint /\ SettledHasGrant /\ RefundEndsGrant
  BY DEF Init, TermsDisjoint, SettledHasGrant, RefundEndsGrant, NoGrant,
         NoPayment, Settled, Grants
<1> QED BY <1>1, <1>3, <1>4, InitOwned DEF IInv

\* Every operation of the file preserves the inductive invariant.
LEMMA NextIInv == IInv /\ [Next]_vars => IInv'
<1> SUFFICES ASSUME IInv, [Next]_vars PROVE IInv'
  OBVIOUS
<1>t. TypeOK /\ TypeOK' /\ PaymentsAreOwned'
  BY NextTypeOK, NextOwned DEF IInv
<1> USE DEF IInv
<1>g. grant' \in [Grants -> GrantRow] /\ payment' \in [Payments -> PaymentRow]
  BY <1>t DEF TypeOK
<1>s. ASSUME NEW p \in Payments
      PROVE  p \in Grants
  BY DEF Grants
<1>1. CASE UNCHANGED <<payment, grant, row>>
  BY <1>1, <1>t DEF SnapshotAgrees, TermsDisjoint, SettledHasGrant,
                    RefundEndsGrant
<1>2. ASSUME NEW u \in Users, NEW p \in Payments, CreatePendingPayment(u, p)
      PROVE  IInv'
  <2>1. SnapshotAgrees' /\ TermsDisjoint'
    BY <1>2 DEF CreatePendingPayment, SnapshotAgrees, TermsDisjoint
  <2>2. SettledHasGrant' /\ RefundEndsGrant'
    BY <1>2, <1>t DEF CreatePendingPayment, SettledHasGrant, RefundEndsGrant,
                      Settled, TypeOK
  <2> QED BY <1>t, <2>1, <2>2
<1>3. ASSUME NEW p \in Payments, NEW status \in Closed, ClosePending(p, status)
      PROVE  IInv'
  <2>1. SnapshotAgrees' /\ TermsDisjoint'
    BY <1>3 DEF ClosePending, SnapshotAgrees, TermsDisjoint
  <2>2. \A q \in Payments : /\ payment'[q].user = payment[q].user
                            /\ q # p => payment'[q] = payment[q]
    BY <1>3, <1>t DEF ClosePending, TypeOK, PaymentRow
  <2>3. payment'[p].status \notin Settled /\ payment[p].status \notin Settled
    BY <1>3, <1>t DEF ClosePending, TypeOK, PaymentRow, Closed, Settled
  <2>4. SettledHasGrant' /\ RefundEndsGrant'
    BY <1>3, <2>2, <2>3 DEF ClosePending, SettledHasGrant, RefundEndsGrant,
                            Settled
  <2> QED BY <1>t, <2>1, <2>4
<1>4. ASSUME NEW p \in Payments, NEW t \in Time, t <= now,
             ApplyPaidPayment(p, t)
      PROVE  IInv'
  <2> DEFINE u == payment[p].user
             from == StackFrom(MaxPaidUntil(u, grant), t)
  <2>0. Recompute(u)
    BY <1>4 DEF ApplyPaidPayment
  <2>1. CASE UNCHANGED <<payment, grant>>
    <3>1. SnapshotAgrees'
      BY <1>t, <1>g, <2>0, <2>1, RecomputeRestoresAgreement
    <3> QED BY <1>t, <2>1, <3>1 DEF TermsDisjoint, SettledHasGrant,
                                    RefundEndsGrant
  <2>2. CASE /\ ~AlreadyApplied(p)
             /\ payment' = [payment EXCEPT ![p].status = "paid",
                                           ![p].linked = TRUE]
             /\ grant' = [grant EXCEPT ![p] = NewGrant(u, from, AccessTerm)]
    <3>1. grant[p].status = "absent" /\ p \in Grants
      BY <2>2, <1>s DEF AlreadyApplied
    <3>2. grant'[p].user = u /\ grant'[p].status = "active"
      BY <2>2, <3>1, <1>t DEF TypeOK, NewGrant
    <3>3. \A g \in Grants : g # p => grant'[g] = grant[g]
      BY <2>2, <1>t DEF TypeOK
    <3>4. SnapshotAgrees'
      BY <1>t, <1>g, <2>0, <3>1, <3>2, <3>3, RecomputeRestoresAgreement
    <3>5. TermsDisjoint'
      BY <1>t, <2>2, <3>1, StackFromCovers, StackedTermIsDisjoint
    <3>6. /\ payment'[p].status = "paid" /\ payment'[p].linked
          /\ payment'[p].user = u
          /\ \A q \in Payments : q # p => payment'[q] = payment[q]
      BY <2>2, <1>t DEF TypeOK, PaymentRow
    <3>7. SettledHasGrant' /\ RefundEndsGrant'
      BY <3>2, <3>3, <3>6, <1>s DEF SettledHasGrant, RefundEndsGrant, Settled
    <3> QED BY <1>t, <3>4, <3>5, <3>7
  <2> QED BY <1>4, <2>1, <2>2 DEF ApplyPaidPayment
<1>5. ASSUME NEW p \in Payments, MarkRefunded(p) PROVE IInv'
  <2>1. /\ payment'[p].status = "refunded"
        /\ payment'[p].user = payment[p].user
        /\ \A q \in Payments : q # p => payment'[q] = payment[q]
    BY <1>5, <1>t DEF MarkRefunded, TypeOK, PaymentRow
  <2>2. /\ grant'[p].user = grant[p].user
        /\ grant'[p].status =
              IF grant[p].status = "active" THEN "revoked" ELSE grant[p].status
        /\ \A g \in Grants : g # p => grant'[g] = grant[g]
    BY <1>5, <1>s, <1>t DEF MarkRefunded, RevokeGrant, TypeOK, GrantRow
  <2>3. grant[p].status # "absent" /\ payment[p].status \in Settled
        /\ grant[p].user = payment[p].user
    BY <1>5 DEF MarkRefunded, SettledHasGrant
  <2>4. SnapshotAgrees'
    <3>1. Recompute(payment[p].user)
      BY <1>5 DEF MarkRefunded
    <3> QED BY <1>t, <1>g, <2>2, <2>3, <3>1, RecomputeRestoresAgreement
  <2>5. TermsDisjoint'
    <3>1. grant'[p] = grant[p] \/ grant'[p].status = "revoked"
      BY <1>5, <1>s, <1>t DEF MarkRefunded, RevokeGrant, TypeOK, GrantRow
    <3> QED BY <1>t, <1>g, <2>2, <3>1, RevokedTermIsDisjoint
  <2>6. payment'[p].linked
    BY <1>5, <1>t DEF MarkRefunded, TypeOK, PaymentRow
  <2>7. SettledHasGrant'
    BY <2>1, <2>2, <2>3, <2>6, <1>s DEF SettledHasGrant, Settled
  <2>8. RefundEndsGrant'
    <3>1. grant'[p].status = "revoked"
      BY <2>2, <2>3, <1>s, <1>t DEF TypeOK, GrantRow
    <3> QED BY <2>1, <2>2, <3>1, <1>s DEF RefundEndsGrant
  <2> QED BY <1>t, <2>4, <2>5, <2>7, <2>8
<1>6. ASSUME NEW p \in Payments,
             MarkPartiallyRefunded(p) \/ MarkDisputed(p)
      PROVE  IInv'
  <2>1. /\ payment'[p].status \in {"partially_refunded", "disputed"}
        /\ payment'[p].user = payment[p].user
        /\ payment'[p].linked = payment[p].linked
        /\ \A q \in Payments : q # p => payment'[q] = payment[q]
    BY <1>6, <1>t DEF MarkPartiallyRefunded, MarkDisputed, TypeOK, PaymentRow
  <2>2. UNCHANGED grant /\ payment[p].linked
    BY <1>6 DEF MarkPartiallyRefunded, MarkDisputed
  <2>3. SnapshotAgrees'
    <3>1. CASE UNCHANGED row
      BY <3>1, <2>2 DEF SnapshotAgrees
    <3>2. CASE Recompute(payment[p].user)
      BY <1>t, <1>g, <2>2, <3>2, RecomputeRestoresAgreement
    <3> QED BY <1>6, <3>1, <3>2 DEF MarkPartiallyRefunded, MarkDisputed
  <2>4. TermsDisjoint'
    BY <2>2 DEF TermsDisjoint
  <2>5. SettledHasGrant' /\ RefundEndsGrant'
    BY <2>1, <2>2, <1>s DEF SettledHasGrant, RefundEndsGrant, Settled
  <2> QED BY <1>t, <2>3, <2>4, <2>5
<1>7. ASSUME NEW u \in Users, NEW g \in ManualGrants, NEW term \in ManualTerms,
             GrantManualAccess(u, g, term)
      PROVE  IInv'
  <2> DEFINE from == StackFrom(row[u].paidUntil, now)
  <2>0. g \in Grants /\ g \notin Payments
    BY IdentitiesAreDistinct DEF Grants
  <2>1. from = StackFrom(MaxPaidUntil(u, grant), now)
    BY DEF SnapshotAgrees
  <2>2. /\ grant[g].status = "absent" /\ UNCHANGED payment /\ Recompute(u)
        /\ grant' = [grant EXCEPT ![g] = NewGrant(u, from, term)]
    BY <1>7 DEF GrantManualAccess
  <2>3. /\ grant'[g].user = u
        /\ \A h \in Grants : h # g => grant'[h] = grant[h]
    BY <2>0, <2>2, <1>t DEF TypeOK, NewGrant
  <2>4. SnapshotAgrees'
    BY <1>t, <1>g, <2>2, <2>3, RecomputeRestoresAgreement
  <2>5. TermsDisjoint'
    <3>1. now \in Time
      BY <1>t DEF TypeOK
    <3> HIDE DEF from
    <3> QED BY <1>t, <2>0, <2>1, <2>2, <3>1, StackFromCovers,
               StackedTermIsDisjoint
  <2>6. SettledHasGrant' /\ RefundEndsGrant'
    BY <2>0, <2>2, <2>3, <1>s DEF SettledHasGrant, RefundEndsGrant
  <2> QED BY <1>t, <2>4, <2>5, <2>6
<1>8. ASSUME NEW g \in Grants, RevokeAccess(g) PROVE IInv'
  <2>1. /\ grant'[g].status = "revoked" /\ grant'[g].user = grant[g].user
        /\ \A h \in Grants : h # g => grant'[h] = grant[h]
        /\ grant[g].status # "absent" /\ UNCHANGED payment
        /\ Recompute(grant[g].user)
    BY <1>8, <1>t DEF RevokeAccess, TypeOK, GrantRow
  <2>2. SnapshotAgrees'
    BY <1>t, <1>g, <2>1, RecomputeRestoresAgreement
  <2>3. TermsDisjoint'
    BY <1>t, <1>g, <2>1, RevokedTermIsDisjoint
  <2>4. SettledHasGrant' /\ RefundEndsGrant'
    BY <2>1, <1>s DEF SettledHasGrant, RefundEndsGrant
  <2> QED BY <1>t, <2>2, <2>3, <2>4
<1>9. ASSUME NEW u \in Users, RefreshEntitlement(u) PROVE IInv'
  <2>1. Recompute(u) /\ UNCHANGED <<payment, grant>>
    BY <1>9 DEF RefreshEntitlement
  <2>2. SnapshotAgrees'
    BY <1>t, <1>g, <2>1, RecomputeRestoresAgreement
  <2> QED BY <1>t, <2>1, <2>2 DEF TermsDisjoint, SettledHasGrant,
                                  RefundEndsGrant
<1>10. CASE Tick
  BY <1>10, <1>1 DEF Tick
<1>11. CASE UNCHANGED vars
  BY <1>11, <1>1 DEF vars
<1> QED
  BY <1>2, <1>3, <1>4, <1>5, <1>6, <1>7, <1>8, <1>9, <1>10, <1>11 DEF Next

\* The inductive invariant holds in every reachable state.
THEOREM InvariantHolds == Spec => []IInv
BY InitIInv, NextIInv, PTL DEF Spec

\* The snapshot row of every user agrees with the grant ledger after every
\* operation.
THEOREM SnapshotIsCorrect == Spec => []SnapshotAgrees
BY InvariantHolds, PTL DEF IInv

\* The terms a user holds in force never overlap: no purchase or gift, in any
\* order with refunds and revocations, sells the same time twice.
THEOREM TermsNeverOverlap == Spec => []TermsDisjoint
BY InvariantHolds, PTL DEF IInv

\* A payment, its grant and Stripe's id for it are settled together.
THEOREM SettlementIsWhole == Spec => []SettledHasGrant
BY InvariantHolds, PTL DEF IInv

\* A fully refunded payment buys no access.
THEOREM RefundIsEffective == Spec => []RefundEndsGrant
BY InvariantHolds, PTL DEF IInv

\* A grant is written and ended with its payment.
THEOREM GrantsAlwaysFollow == Spec => []GrantsFollowPayments
BY SettlementIsWhole, RefundIsEffective, PTL DEF GrantsFollowPayments

\* Write access is what the ledger pays for, at every tick; for a user with a
\* disputed payment, it is no more than that.
THEOREM WriteAccessIsWhatIsPaid == Spec => []WriteAccessIsPaid
<1>1. IInv => WriteAccessIsPaid
  <2> SUFFICES ASSUME IInv, NEW u \in Users
               PROVE  CanWrite(u) <=> \E g \in ActiveGrants(u, grant) :
                                         now <= grant[g].endsAt + GraceTime
    BY DEF WriteAccessIsPaid
  <2> DEFINE A == ActiveGrants(u, grant)
             d == row[u].paidUntil
  <2>1. d = MaxPaidUntil(u, grant)
    BY DEF IInv, SnapshotAgrees
  <2>2. now \in Time /\ \A g \in A : grant[g].endsAt \in Time
    BY DEF IInv, TypeOK, GrantRow, ActiveGrants
  <2>3. CanWrite(u) <=> d # None /\ (d > now \/ now <= d + GraceTime)
    BY DEF CanWrite, ViewMode, AccessMode, DeriveStatus
  <2>4. \/ A = {} /\ d = None
        \/ /\ d \in Time
           /\ \E g \in A : d = grant[g].endsAt
           /\ \A g \in A : grant[g].endsAt <= d
    BY <2>1, MaxPaidUntilIsMax DEF IInv, TypeOK
  <2>5. CASE A = {} /\ d = None
    BY <2>3, <2>5
  <2>6. CASE /\ d \in Time
             /\ \E g \in A : d = grant[g].endsAt
             /\ \A g \in A : grant[g].endsAt <= d
    <3> HIDE DEF A, d
    <3>1. CanWrite(u) <=> now <= d + GraceTime
      BY <2>2, <2>3, <2>6, ParametersAreTicks, IdentitiesAreDistinct DEF Time
    <3>2. (\E g \in A : now <= grant[g].endsAt + GraceTime)
            <=> now <= d + GraceTime
      BY <2>2, <2>6, ParametersAreTicks DEF Time
    <3> QED BY <3>1, <3>2 DEF A
  <2> QED BY <2>4, <2>5, <2>6
<1> QED BY <1>1, InvariantHolds, PTL
-----------------------------------------------------------------------------
(* What a step does to the ledger.                                         *)

\* No step gives the term of a grant in force another owner or other dates:
\* it stays as it is or is revoked.
LEMMA StepKeepsOrRevokes ==
    ASSUME TypeOK, [Next]_vars, NEW g \in Grants, grant[g].status = "active"
    PROVE  \/ grant'[g] = grant[g]
           \/ grant'[g] = [grant[g] EXCEPT !.status = "revoked"]
<1> USE DEF TypeOK
<1>1. CASE UNCHANGED grant
  BY <1>1
<1>2. ASSUME NEW p \in Payments, NEW t \in Time, ApplyPaidPayment(p, t)
      PROVE  grant'[g] = grant[g]
  BY <1>2 DEF ApplyPaidPayment, AlreadyApplied
<1>3. ASSUME NEW p \in Payments, MarkRefunded(p)
      PROVE  \/ grant'[g] = grant[g]
             \/ grant'[g] = [grant[g] EXCEPT !.status = "revoked"]
  BY <1>3 DEF MarkRefunded, RevokeGrant
<1>4. ASSUME NEW u \in Users, NEW h \in ManualGrants, NEW term \in ManualTerms,
             GrantManualAccess(u, h, term)
      PROVE  grant'[g] = grant[g]
  BY <1>4 DEF GrantManualAccess
<1>5. ASSUME NEW h \in Grants, RevokeAccess(h)
      PROVE  \/ grant'[g] = grant[g]
             \/ grant'[g] = [grant[g] EXCEPT !.status = "revoked"]
  BY <1>5 DEF RevokeAccess
<1>6. CASE \/ Tick
           \/ \E u \in Users, p \in Payments : CreatePendingPayment(u, p)
           \/ \E p \in Payments, status \in Closed : ClosePending(p, status)
           \/ \E p \in Payments : MarkPartiallyRefunded(p)
           \/ \E p \in Payments : MarkDisputed(p)
           \/ \E u \in Users : RefreshEntitlement(u)
           \/ UNCHANGED vars
  BY <1>1, <1>6 DEF Tick, CreatePendingPayment, ClosePending, MarkDisputed,
                    MarkPartiallyRefunded, RefreshEntitlement, vars
<1> QED BY <1>2, <1>3, <1>4, <1>5, <1>6 DEF Next

\* Only the revocation of one of the user's grants moves paid-until back.
THEOREM OnlyRevocationShortensAccess == Spec => OnlyRevocationShortens
<1> DEFINE Shortened(u) == /\ row[u].paidUntil # None
                           /\ \/ row'[u].paidUntil = None
                              \/ row'[u].paidUntil < row[u].paidUntil
           Revoked(u) == \E g \in Grants : /\ grant[g].user = u
                                          /\ grant[g].status = "active"
                                          /\ grant'[g].status = "revoked"
<1>1. ASSUME IInv, IInv', [Next]_vars, NEW u \in Users, Shortened(u)
      PROVE  Revoked(u)
  <2> SUFFICES ASSUME ~Revoked(u) PROVE FALSE
    OBVIOUS
  <2>1. \A g \in ActiveGrants(u, grant) :
           g \in ActiveGrants(u, grant') /\ grant'[g] = grant[g]
    BY <1>1, StepKeepsOrRevokes DEF IInv, TypeOK, GrantRow, ActiveGrants
  <2>2. /\ row[u].paidUntil = MaxPaidUntil(u, grant)
        /\ row'[u].paidUntil = MaxPaidUntil(u, grant')
    BY <1>1 DEF IInv, SnapshotAgrees
  <2>3. PICK g \in ActiveGrants(u, grant) : row[u].paidUntil = grant[g].endsAt
    BY <1>1, <2>2, MaxPaidUntilIsMax DEF IInv, TypeOK
  <2>4. g \in ActiveGrants(u, grant') /\ grant'[g].endsAt = grant[g].endsAt
    BY <2>1
  <2>5. /\ row'[u].paidUntil \in Time
        /\ grant'[g].endsAt <= row'[u].paidUntil
    BY <1>1, <2>2, <2>4, MaxPaidUntilIsMax DEF IInv, TypeOK
  <2>6. grant[g].endsAt \in Time
    BY <1>1 DEF IInv, TypeOK, GrantRow, ActiveGrants
  <2> QED BY <1>1, <2>3, <2>4, <2>5, <2>6, ParametersAreTicks,
             IdentitiesAreDistinct DEF Time
<1>2. IInv /\ IInv' /\ [Next]_vars
        => [\A u \in Users :
              /\ row[u].paidUntil # None
              /\ \/ row'[u].paidUntil = None
                 \/ row'[u].paidUntil < row[u].paidUntil
              => \E g \in Grants : /\ grant[g].user = u
                                   /\ grant[g].status = "active"
                                   /\ grant'[g].status = "revoked"]_vars
  BY <1>1
<1> QED
  BY <1>2, InvariantHolds, PTL DEF Spec, OnlyRevocationShortens
-----------------------------------------------------------------------------
(* The grants table implements GrantLedger.                                *)

\* The empty grants table is the empty ledger.
LEMMA InitIsLedgerInit == Init => Ledger!Init
BY DEF Init, Ledger!Init, NoGrant

\* A stacked term is credited to the ledger by its own rules.
LEMMA StackedTermIsCredit ==
    ASSUME TypeOK, NEW g \in Grants, NEW u \in Users, NEW from \in Time,
           NEW term \in Nat \ {0}, grant[g].status = "absent",
           from + term <= Horizon,
           grant' = [grant EXCEPT ![g] = NewGrant(u, from, term)],
           \A h \in ActiveGrants(u, grant) : grant[h].endsAt <= from
    PROVE  Ledger!Next
<1>1. from + term \in Time /\ from < from + term
  BY ParametersAreTicks DEF Time
<1>2. Ledger!Credit(g, u, from, from + term)
  BY <1>1 DEF Ledger!Credit, Ledger!InForce, ActiveGrants, NewGrant
<1> QED BY <1>1, <1>2 DEF Ledger!Next, Time

\* Revoking a grant withdraws it, or changes nothing.
LEMMA RevokedTermIsWithdrawn ==
    ASSUME TypeOK, NEW g \in Grants, grant[g].status # "absent",
           grant' = [grant EXCEPT ![g].status = "revoked"]
    PROVE  Ledger!Next \/ UNCHANGED grant
<1>1. CASE grant[g].status = "active"
  BY <1>1 DEF Ledger!Next, Ledger!Withdraw
<1>2. CASE grant[g].status = "revoked"
  BY <1>2 DEF TypeOK, GrantRow
<1> QED BY <1>1, <1>2 DEF TypeOK, GrantRow

\* Every operation credits, withdraws or leaves the ledger as it is.
LEMMA StepIsLedgerStep ==
    IInv /\ [Next]_vars => [Ledger!Next]_grant
<1> SUFFICES ASSUME IInv, [Next]_vars
             PROVE  Ledger!Next \/ UNCHANGED grant
  OBVIOUS
<1> USE DEF IInv
<1>1. ASSUME NEW p \in Payments, NEW t \in Time, ApplyPaidPayment(p, t)
      PROVE  Ledger!Next \/ UNCHANGED grant
  <2> DEFINE u == payment[p].user
             from == StackFrom(MaxPaidUntil(u, grant), t)
  <2>1. CASE UNCHANGED grant
    BY <2>1
  <2>2. CASE /\ ~AlreadyApplied(p) /\ from + AccessTerm <= Horizon
             /\ grant' = [grant EXCEPT ![p] = NewGrant(u, from, AccessTerm)]
    <3>1. u \in Users
      BY <1>1 DEF ApplyPaidPayment, PaymentsAreOwned
    <3>2. p \in Grants /\ grant[p].status = "absent"
      BY <2>2 DEF Grants, AlreadyApplied
    <3>3. /\ from \in Time
          /\ \A h \in ActiveGrants(u, grant) : grant[h].endsAt <= from
      BY StackFromCovers
    <3> HIDE DEF u, from
    <3> QED BY <2>2, <3>1, <3>2, <3>3, StackedTermIsCredit, ParametersAreTicks
  <2> QED BY <1>1, <2>1, <2>2 DEF ApplyPaidPayment
<1>2. ASSUME NEW p \in Payments, MarkRefunded(p)
      PROVE  Ledger!Next \/ UNCHANGED grant
  <2>1. p \in Grants /\ grant[p].status # "absent"
    BY <1>2 DEF MarkRefunded, SettledHasGrant, Grants
  <2>2. grant' = [grant EXCEPT ![p].status = "revoked"]
    BY <1>2, <2>1 DEF MarkRefunded, RevokeGrant, TypeOK, GrantRow
  <2> QED BY <2>1, <2>2, RevokedTermIsWithdrawn
<1>3. ASSUME NEW u \in Users, NEW g \in ManualGrants, NEW term \in ManualTerms,
             GrantManualAccess(u, g, term)
      PROVE  Ledger!Next
  <2> DEFINE from == StackFrom(row[u].paidUntil, now)
  <2>1. from = StackFrom(MaxPaidUntil(u, grant), now)
    BY DEF SnapshotAgrees
  <2>2. /\ from \in Time
        /\ \A h \in ActiveGrants(u, grant) : grant[h].endsAt <= from
    <3>1. now \in Time
      BY DEF TypeOK
    <3> HIDE DEF from
    <3> QED BY <2>1, <3>1, StackFromCovers
  <2>3. /\ g \in Grants /\ grant[g].status = "absent"
        /\ from + term <= Horizon
        /\ grant' = [grant EXCEPT ![g] = NewGrant(u, from, term)]
    BY <1>3 DEF GrantManualAccess, Grants
  <2> HIDE DEF from
  <2> QED BY <2>2, <2>3, StackedTermIsCredit, ParametersAreTicks
<1>4. ASSUME NEW g \in Grants, RevokeAccess(g)
      PROVE  Ledger!Next \/ UNCHANGED grant
  BY <1>4, RevokedTermIsWithdrawn DEF RevokeAccess
<1>5. CASE \/ Tick
           \/ \E u \in Users, p \in Payments : CreatePendingPayment(u, p)
           \/ \E p \in Payments, status \in Closed : ClosePending(p, status)
           \/ \E p \in Payments : MarkPartiallyRefunded(p)
           \/ \E p \in Payments : MarkDisputed(p)
           \/ \E u \in Users : RefreshEntitlement(u)
           \/ UNCHANGED vars
  BY <1>5 DEF Tick, CreatePendingPayment, ClosePending, MarkDisputed,
              MarkPartiallyRefunded, RefreshEntitlement, vars
<1> QED BY <1>1, <1>2, <1>3, <1>4, <1>5 DEF Next

\* Whatever the API, the webhooks and the administrators do, the grants table
\* behaves as the append-only ledger of disjoint terms.
THEOREM GrantsImplementLedger == Spec => GrantsAreALedger
BY InitIsLedgerInit, StepIsLedgerStep, InvariantHolds, PTL
   DEF Spec, GrantsAreALedger, Ledger!Spec
=============================================================================
