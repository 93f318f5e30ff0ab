-------------------------- MODULE CloudEntitlement --------------------------
(***************************************************************************)
(* The paid-access database of My Spools Cloud                             *)
(* (packages/db/src/cloud-entitlement.ts): payments, the grants they buy,  *)
(* and the per-user snapshot row the API reads.  Every function of the     *)
(* file that writes is one action here: the database is one synchronous    *)
(* better-sqlite3 connection, so a function runs to its end before any     *)
(* other request does.  Crashes inside a function are in StripeWebhook.    *)
(*                                                                         *)
(* Time is counted in ticks.  A calendar period is the number of ticks it  *)
(* adds: the code's month clamping is checked in CalendarMonths.           *)
(***************************************************************************)
EXTENDS Integers, FiniteSets

CONSTANTS
    Users,
    Payments,       \* identities of cloud_payments rows
    ManualGrants,   \* identities of the grants administrators may create
    None,           \* SQL null
    AccessTerm,     \* ticks one purchase adds (config.accessMonths)
    ManualTerms,    \* ticks an administrator may grant (body.months)
    GraceTime,      \* config.graceDays
    RetentionTime,  \* config.retentionDays
    Horizon         \* bound: the clock and every grant end stay below it

ASSUME ParametersAreTicks ==
    /\ AccessTerm \in Nat \ {0}
    /\ ManualTerms \subseteq Nat \ {0}
    /\ GraceTime \in Nat
    /\ RetentionTime \in Nat
    /\ Horizon \in Nat

ASSUME IdentitiesAreDistinct ==
    /\ Payments \cap ManualGrants = {}
    /\ None \notin Users
    /\ None \notin Nat

VARIABLES
    now,
    payment,        \* cloud_payments
    grant,          \* cloud_entitlement_grants; one bought by p has identity p
    row             \* cloud_entitlements, the snapshot

vars == <<now, payment, grant, row>>

Grants == Payments \cup ManualGrants
Time   == 0..Horizon

Settled == {"paid", "partially_refunded", "refunded", "disputed"}
Closed  == {"cancelled", "failed", "expired"}
PaymentStatus == {"absent", "pending"} \cup Settled \cup Closed
EntitlementStatus ==
    {"inactive", "active", "grace_period", "read_only", "expired", "disputed"}

NoPayment == [user |-> None, status |-> "absent", linked |-> FALSE,
              review |-> FALSE]
NoGrant   == [user |-> None, startsAt |-> 0, endsAt |-> 0,
              status |-> "absent"]
NewRow    == [paidUntil |-> None, startsAt |-> None, status |-> "inactive"]

PaymentRow == [user : Users \cup {None}, status : PaymentStatus,
               linked : BOOLEAN,    \* providerPaymentId is set
               review : BOOLEAN]    \* adminReviewRequired
GrantRow   == [user : Users \cup {None}, startsAt : Time, endsAt : Time,
               status : {"absent", "active", "revoked"}]
SnapshotRow == [paidUntil : Time \cup {None}, startsAt : Time \cup {None},
                status : EntitlementStatus]

TypeOK ==
    /\ now \in Time
    /\ payment \in [Payments -> PaymentRow]
    /\ grant \in [Grants -> GrantRow]
    /\ row \in [Users -> SnapshotRow]

-----------------------------------------------------------------------------
(* Derivation of the snapshot from the ledger.                             *)

ActiveGrants(u, G) == {g \in Grants : G[g].status = "active" /\ G[g].user = u}

\* Mutant of MaxPaidUntil: terms that are over no longer count.
MaxPaidUntil_Current(u, G) ==
    LET A == {g \in ActiveGrants(u, G) : now < G[g].endsAt} IN
    IF A = {} THEN None
    ELSE G[CHOOSE g \in A : \A h \in A : G[h].endsAt <= G[g].endsAt].endsAt

MaxPaidUntil(u, G) ==
    LET A == ActiveGrants(u, G) IN
    IF A = {} THEN None
    ELSE G[CHOOSE g \in A : \A h \in A : G[h].endsAt <= G[g].endsAt].endsAt

MinStartsAt(u, G) ==
    LET A == ActiveGrants(u, G) IN
    IF A = {} THEN None
    ELSE G[CHOOSE g \in A : \A h \in A : G[g].startsAt <= G[h].startsAt].startsAt

HasDispute(u, P) == \E p \in Payments : P[p].user = u /\ P[p].status = "disputed"

\* Mutant of DeriveStatus: the retention window is counted from the clock.
DeriveStatus_LongGrace(paidUntil, disputed, t) ==
    IF paidUntil = None THEN "inactive"
    ELSE IF t < paidUntil THEN "active"
    ELSE IF t <= paidUntil + GraceTime + RetentionTime THEN "grace_period"
    ELSE "expired"

DeriveStatus(paidUntil, disputed, t) ==
    IF disputed /\ (paidUntil = None \/ paidUntil <= t) THEN "disputed"
    ELSE IF paidUntil = None THEN "inactive"
    ELSE IF paidUntil > t THEN "active"
    ELSE IF t <= paidUntil + GraceTime THEN "grace_period"
    ELSE IF t < paidUntil + GraceTime + RetentionTime THEN "read_only"
    ELSE "expired"

AccessMode(status) ==
    CASE status = "active"                     -> "full"
      [] status = "grace_period"               -> "grace"
      [] status \in {"read_only", "disputed"}  -> "read_only"
      [] OTHER                                 -> "none"

\* The access decision of every request: derived live from the snapshot's
\* paidUntil; the dispute flag is not passed.
ViewMode(u) == AccessMode(DeriveStatus(row[u].paidUntil, FALSE, now))
CanWrite(u) == ViewMode(u) \in {"full", "grace"}

Recomputed(u, P, G) ==
    LET paidUntil == MaxPaidUntil(u, G) IN
    [paidUntil |-> paidUntil,
     startsAt  |-> MinStartsAt(u, G),
     status    |-> DeriveStatus(paidUntil,
                                HasDispute(u, P) /\ paidUntil = None, now)]

Recompute(u) == row' = [row EXCEPT ![u] = Recomputed(u, payment', grant')]

\* Mutant of StackFrom: always extend from the time of payment.
StackFrom_Ignore(paidUntil, t) == t

StackFrom(paidUntil, t) ==
    IF paidUntil # None /\ paidUntil > t THEN paidUntil ELSE t

NewGrant(u, from, term) ==
    [user |-> u, startsAt |-> from, endsAt |-> from + term,
     status |-> "active"]
-----------------------------------------------------------------------------
(* The operations.                                                         *)

Init ==
    /\ now = 0
    /\ payment = [p \in Payments |-> NoPayment]
    /\ grant = [g \in Grants |-> NoGrant]
    /\ row = [u \in Users |-> NewRow]

Tick ==
    /\ now < Horizon
    /\ now' = now + 1
    /\ UNCHANGED <<payment, grant, row>>

CreatePendingPayment(u, p) ==
    /\ payment[p].status = "absent"
    /\ payment' = [payment EXCEPT ![p] = [user |-> u, status |-> "pending",
                                          linked |-> FALSE, review |-> FALSE]]
    /\ UNCHANGED <<now, grant, row>>

\* Mutant of ClosePending: the status is not checked first.
ClosePending_Unchecked(p, status) ==
    /\ payment[p].status # "absent"
    /\ payment' = [payment EXCEPT ![p].status = status]
    /\ UNCHANGED <<now, grant, row>>

\* A new checkout supersedes an open one (cancelled), or Stripe reports that
\* the session failed or expired; only a pending payment is closed.
ClosePending(p, status) ==
    /\ payment[p].status = "pending"
    /\ payment' = [payment EXCEPT ![p].status = status]
    /\ UNCHANGED <<now, grant, row>>

\* Mutant of AlreadyApplied: the ledger is not consulted, only the status.
AlreadyApplied_StatusOnly(p) == payment[p].status = "paid"

AlreadyApplied(p) == grant[p].status # "absent" \/ payment[p].status = "paid"

\* A verified purchase, with Stripe's time of the session.  A payment that was
\* cancelled, failed or expired meanwhile is honoured all the same.
ApplyPaidPayment(p, paidAt) ==
    LET u == payment[p].user
        from == StackFrom(MaxPaidUntil(u, grant), paidAt) IN
    /\ payment[p].status # "absent"
    /\ \/ /\ AlreadyApplied(p)
          /\ UNCHANGED <<payment, grant>>
       \/ /\ ~AlreadyApplied(p)
          /\ from + AccessTerm <= Horizon
          /\ payment' = [payment EXCEPT ![p].status = "paid", ![p].linked = TRUE]
          /\ grant' = [grant EXCEPT ![p] = NewGrant(u, from, AccessTerm)]
    /\ Recompute(u)
    /\ UNCHANGED now

\* Mutant of RevokeGrant: the grant is left in force.
RevokeGrant_Keep(g) == UNCHANGED grant

RevokeGrant(g) ==
    grant' = [grant EXCEPT ![g].status = IF @ = "active" THEN "revoked" ELSE @]

\* charge.refunded, in full: found by Stripe's payment id, which only a paid
\* payment carries.
MarkRefunded(p) ==
    /\ payment[p].linked
    /\ payment' = [payment EXCEPT ![p].status = "refunded"]
    /\ RevokeGrant(p)
    /\ Recompute(payment[p].user)
    /\ UNCHANGED now

MarkPartiallyRefunded(p) ==
    /\ payment[p].linked
    /\ payment' = [payment EXCEPT ![p].status = "partially_refunded",
                                  ![p].review = TRUE]
    /\ UNCHANGED <<now, grant, row>>

MarkDisputed(p) ==
    /\ payment[p].linked
    /\ payment' = [payment EXCEPT ![p].status = "disputed", ![p].review = TRUE]
    /\ UNCHANGED <<now, grant>>
    /\ Recompute(payment[p].user)

\* The administrator's grant stacks on the snapshot row, which it does not
\* recompute first.
GrantManualAccess(u, g, term) ==
    LET from == StackFrom(row[u].paidUntil, now) IN
    /\ grant[g].status = "absent"
    /\ from + term <= Horizon
    /\ grant' = [grant EXCEPT ![g] = NewGrant(u, from, term)]
    /\ UNCHANGED <<now, payment>>
    /\ Recompute(u)

\* Mutant of RevokeAccess: the snapshot is not recomputed.
RevokeAccess_NoRecompute(g) ==
    /\ grant[g].status # "absent"
    /\ grant' = [grant EXCEPT ![g].status = "revoked"]
    /\ UNCHANGED <<now, payment, row>>

\* The administrator may revoke any grant, bought or given; the payment of a
\* bought one keeps its status.
RevokeAccess(g) ==
    /\ grant[g].status # "absent"
    /\ grant' = [grant EXCEPT ![g].status = "revoked"]
    /\ UNCHANGED <<now, payment>>
    /\ Recompute(grant[g].user)

RefreshEntitlement(u) ==
    /\ UNCHANGED <<now, payment, grant>>
    /\ Recompute(u)

Next ==
    \/ Tick
    \/ \E u \in Users, p \in Payments : CreatePendingPayment(u, p)
    \/ \E p \in Payments, status \in Closed : ClosePending(p, status)
    \/ \E p \in Payments, t \in Time : t <= now /\ ApplyPaidPayment(p, t)
    \/ \E p \in Payments : MarkRefunded(p)
    \/ \E p \in Payments : MarkPartiallyRefunded(p)
    \/ \E p \in Payments : MarkDisputed(p)
    \/ \E u \in Users, g \in ManualGrants, term \in ManualTerms :
          GrantManualAccess(u, g, term)
    \/ \E g \in Grants : RevokeAccess(g)
    \/ \E u \in Users : RefreshEntitlement(u)

Spec == Init /\ [][Next]_vars
-----------------------------------------------------------------------------
(* What must hold.                                                         *)

\* The snapshot every access decision reads is the one the ledger implies:
\* no operation forgets to recompute, and none recomputes from a half-written
\* ledger.
SnapshotAgrees ==
    \A u \in Users : /\ row[u].paidUntil = MaxPaidUntil(u, grant)
                     /\ row[u].startsAt = MinStartsAt(u, grant)

\* No two terms of a user that are in force overlap: whatever mix of
\* purchases, gifts, refunds and revocations came before, nobody pays for a
\* time that was already paid for.
TermsDisjoint ==
    \A g, h \in Grants :
        /\ g # h
        /\ grant[g].status = "active" /\ grant[h].status = "active"
        /\ grant[g].user = grant[h].user
        => \/ grant[g].endsAt <= grant[h].startsAt
           \/ grant[h].endsAt <= grant[g].startsAt

\* A payment was settled exactly when its grant was written, and exactly then
\* Stripe's id for it is known, by which a refund or dispute finds it: closing,
\* refunding, disputing and re-applying never separate the three.
SettledHasGrant ==
    \A p \in Payments :
        /\ payment[p].status \in Settled <=> grant[p].status # "absent"
        /\ payment[p].linked <=> grant[p].status # "absent"
        /\ grant[p].status # "absent" => grant[p].user = payment[p].user

\* A payment that reads "refunded" no longer buys access.
RefundEndsGrant ==
    \A p \in Payments :
        payment[p].status = "refunded" => grant[p].status = "revoked"

\* Grants follow payments, in both directions: none without the other while the
\* payment is settled, none in force once the payment is refunded.
GrantsFollowPayments == SettledHasGrant /\ RefundEndsGrant

\* Nobody writes to the Cloud whom no term in force, plus its grace, covers, and
\* nobody whom one covers is turned away, as long as no payment of the user is
\* disputed.  What a dispute takes away is DisputeRestrictsWrites below.
WriteAccessIsPaid ==
    \A u \in Users :
        LET covered == \E g \in ActiveGrants(u, grant) :
                          now <= grant[g].endsAt + GraceTime IN
        /\ CanWrite(u) => covered
        /\ covered /\ ~HasDispute(u, payment) => CanWrite(u)

\* A user's paid-until date moves back only when one of the user's grants is
\* revoked in that very step: buying, disputing, refreshing or the passage of
\* time never shorten it.
OnlyRevocationShortens ==
    [][\A u \in Users :
          /\ row[u].paidUntil # None
          /\ \/ row'[u].paidUntil = None
             \/ row'[u].paidUntil < row[u].paidUntil
          => \E g \in Grants : /\ grant[g].user = u
                               /\ grant[g].status = "active"
                               /\ grant'[g].status = "revoked"]_vars

\* The grants table is the append-only ledger of GrantLedger.
Ledger == INSTANCE GrantLedger WITH ledger <- grant
GrantsAreALedger == Ledger!Spec

\* The comment at the end of markPaymentDisputed, "Keep grant until resolved;
\* restrict writes via disputed flag when no other grants": while a payment is
\* disputed and every grant in force was bought by a disputed one, the user does
\* not write.  The code does not keep this: no access decision is told of the
\* dispute (getCloudEntitlementView passes deriveEntitlementStatus no flag, and
\* recomputeCloudEntitlement sets one only for a user without a grant).
DisputeRestrictsWrites ==
    \A u \in Users :
        /\ HasDispute(u, payment)
        /\ \A g \in ActiveGrants(u, grant) :
              g \in Payments /\ payment[g].status = "disputed"
        => ~CanWrite(u)
=============================================================================
