--------------------------- MODULE CloudLifecycle ---------------------------
(***************************************************************************)
(* What happens to a Cloud inventory while its owner's access runs out:    *)
(* the daily job of POST /api/v1/billing/cloud/reminders/run               *)
(* (apps/api/src/routes-cloud.ts, packages/db/src/cloud-lifecycle.ts) with *)
(* its reminders and its purge, next to the users' own writes and to the   *)
(* operations of CloudEntitlement.                                         *)
(*                                                                         *)
(* The job lists the reminders due, hands them to sendmail one by one,     *)
(* awaiting each, and purges in the end.  Every other request may be       *)
(* served while it awaits, a second run of the job included (the route     *)
(* takes the cron's secret and an administrator's session, and looks at    *)
(* nothing else), and the process may stop.  A user's inventory is one     *)
(* spool: present, in the bin (soft-deleted), or absent.                   *)
(***************************************************************************)
EXTENDS CloudEntitlement

CONSTANTS
    D30, D7,       \* ticks before the end at which two reminders fall due
    BinTime,       \* how long purgeSoftDeletedSpools keeps a spool (30 days)
    Runs,          \* numbers of the runs that may be at work at one time
    MaxMishaps     \* bound: how often the process stops, and a run is begun
                   \* beside another, all told

ReminderKind == {"d30", "d7", "expired", "deletion"}
Reminders == [user : Users, kind : ReminderKind, paidUntil : Time]

ASSUME LifecycleParameters ==
    /\ D30 \in Nat /\ D7 \in Nat /\ D7 <= D30
    /\ BinTime \in Nat /\ MaxMishaps \in Nat
    /\ Runs \subseteq Nat /\ IsFiniteSet(Runs)
    /\ None \notin Reminders

VARIABLES
    spool,         \* user_spools of each user
    purged,        \* cloud_entitlements.deletedAt is set
    sent,          \* the reminder..SentAt columns that are set
    job,           \* how far each run of the job is
    mails,         \* external: how often sendmail was handed each reminder
    overlaps,      \* how often a run was begun while another was at work
    stops          \* how often the process was stopped

jobVars == <<spool, purged, sent, job, mails, overlaps, stops>>
lifecycleVars == <<now, payment, grant, row, spool, purged, sent, job, mails,
                   overlaps, stops>>

NoSpool == [at |-> "absent", since |-> 0]
NoJob == [at |-> "idle", due |-> {}, sending |-> None]

LifecycleTypeOK ==
    /\ TypeOK
    /\ spool \in [Users -> [at : {"absent", "present", "bin"}, since : Time]]
    /\ purged \in [Users -> BOOLEAN]
    /\ sent \in [Users -> SUBSET ReminderKind]
    /\ job \in [Runs -> [at : {"idle", "sending"}, due : SUBSET Reminders,
                        sending : Reminders \cup {None}]]
    /\ \A x \in Runs : job[x].sending \in job[x].due \cup {None}
    /\ mails \in [Reminders -> Nat]
    /\ overlaps \in Nat /\ stops \in Nat
    /\ overlaps + stops <= MaxMishaps
-----------------------------------------------------------------------------
\* Mutant of DeletionDue: the retention window is left out.
DeletionDue_NoRetention(paidUntil, t) ==
    paidUntil # None /\ paidUntil + GraceTime <= t

\* The scheduled deletion of the snapshot has come.
DeletionDue(paidUntil, t) ==
    paidUntil # None /\ paidUntil + GraceTime + RetentionTime <= t

\* listEntitlementsNeedingReminders, for one user.
FallsDue(kind, paidUntil) ==
    CASE kind = "d30"      -> paidUntil - D30 <= now /\ now < paidUntil
      [] kind = "d7"       -> paidUntil - D7 <= now /\ now < paidUntil
      [] kind = "expired"  -> paidUntil <= now
      [] kind = "deletion" -> DeletionDue(paidUntil, now)

NeedingReminders ==
    {r \in Reminders : /\ row[r.user].paidUntil = r.paidUntil
                       /\ FallsDue(r.kind, r.paidUntil)
                       /\ r.kind \notin sent[r.user]}
-----------------------------------------------------------------------------
(* The users' writes: each checks the access mode and writes in one turn.  *)

\* upsertUserSpool: also brings a spool back from the bin.
SaveSpool(u) ==
    /\ CanWrite(u)
    /\ spool' = [spool EXCEPT ![u] = [at |-> "present", since |-> 0]]
    /\ UNCHANGED <<vars, purged, sent, job, mails, overlaps, stops>>

SoftDeleteSpool(u) ==
    /\ CanWrite(u)
    /\ spool[u].at = "present"
    /\ spool' = [spool EXCEPT ![u] = [at |-> "bin", since |-> now]]
    /\ UNCHANGED <<vars, purged, sent, job, mails, overlaps, stops>>

\* DELETE with hard=1, also from the bin.
HardDeleteSpool(u) ==
    /\ CanWrite(u)
    /\ spool[u].at # "absent"
    /\ spool' = [spool EXCEPT ![u] = NoSpool]
    /\ UNCHANGED <<vars, purged, sent, job, mails, overlaps, stops>>

\* CloudEntitlement at work: purchases, refunds, gifts, the clock.
Entitle == Next /\ UNCHANGED jobVars
-----------------------------------------------------------------------------
(* The job.                                                                *)

\* A run takes its list, whether another is still at work on its own or not;
\* it goes by the first number that is free.
BeginJob(x) ==
    LET alone == \A y \in Runs : job[y] = NoJob IN
    /\ job[x] = NoJob /\ \A y \in Runs : y < x => job[y] # NoJob
    /\ alone \/ overlaps + stops < MaxMishaps
    /\ job' = [job EXCEPT ![x] = [at |-> "sending", due |-> NeedingReminders,
                                  sending |-> None]]
    /\ overlaps' = IF alone THEN overlaps ELSE overlaps + 1
    /\ UNCHANGED <<vars, spool, purged, sent, mails, stops>>

Rank(kind) == CASE kind = "d30" -> 1 [] kind = "d7" -> 2
                [] kind = "expired" -> 3 [] kind = "deletion" -> 4

\* The list is worked off in its order; the mail says what the list said,
\* whatever has happened since.
SendReminder(x, r) ==
    /\ job[x].at = "sending" /\ job[x].sending = None
    /\ r \in job[x].due
    /\ \A q \in job[x].due : q.user = r.user => Rank(r.kind) <= Rank(q.kind)
    /\ job' = [job EXCEPT ![x].sending = r]
    /\ mails' = [mails EXCEPT ![r] = @ + 1]
    /\ UNCHANGED <<vars, spool, purged, sent, overlaps, stops>>

\* Mutant of Column: the last column is never reached.
Column_NoDeletion(kind) == IF kind = "deletion" THEN "expired" ELSE kind

\* The column markReminderSent sets.
Column(kind) == kind

\* sendmail is done, or could not be started: the reminder counts as sent.
MarkReminderSent(x, r) ==
    /\ job[x].sending = r
    /\ sent' = [sent EXCEPT ![r.user] = @ \cup {Column(r.kind)}]
    /\ job' = [job EXCEPT ![x].sending = None, ![x].due = @ \ {r}]
    /\ UNCHANGED <<vars, spool, purged, mails, overlaps, stops>>

\* Mutant of MayPurge: the last test is reversed.
MayPurge_Reversed(u, paidUntil) ==
    DeletionDue(paidUntil, now) /\ ~purged[u] /\ paidUntil > now

MayPurge(u, paidUntil) ==
    DeletionDue(paidUntil, now) /\ ~purged[u] /\ paidUntil <= now

\* purgeExpiredCloudInventories, for every user in one turn: the snapshot is
\* recomputed first, an inventory is purged once, and old spools leave the bin.
Purge(x) ==
    LET fresh == [u \in Users |-> Recomputed(u, payment, grant)]
        Doomed(u) == MayPurge(u, fresh[u].paidUntil)
        BinnedLongAgo(u) == /\ spool[u].at = "bin"
                            /\ spool[u].since + BinTime < now IN
    /\ job[x].at = "sending" /\ job[x].due = {}
    /\ row' = fresh
    /\ spool' = [u \in Users |-> IF Doomed(u) \/ BinnedLongAgo(u)
                                 THEN NoSpool ELSE spool[u]]
    /\ purged' = [u \in Users |-> purged[u] \/ Doomed(u)]
    /\ job' = [job EXCEPT ![x] = NoJob]
    /\ UNCHANGED <<now, payment, grant, sent, mails, overlaps, stops>>

\* The process stops; the runs are lost, the tables stay.
StopServer ==
    /\ overlaps + stops < MaxMishaps
    /\ stops' = stops + 1
    /\ job' = [x \in Runs |-> NoJob]
    /\ UNCHANGED <<vars, spool, purged, sent, mails, overlaps>>

\* A run goes on with its list.
WorkOff(x) == \E r \in job[x].due : SendReminder(x, r) \/ MarkReminderSent(x, r)

LifecycleInit ==
    /\ Init
    /\ spool = [u \in Users |-> NoSpool]
    /\ purged = [u \in Users |-> FALSE]
    /\ sent = [u \in Users |-> {}]
    /\ job = [x \in Runs |-> NoJob]
    /\ mails = [r \in Reminders |-> 0]
    /\ overlaps = 0
    /\ stops = 0

LifecycleNext ==
    \/ \E u \in Users : SaveSpool(u) \/ SoftDeleteSpool(u) \/ HardDeleteSpool(u)
    \/ Entitle
    \/ \E x \in Runs : BeginJob(x)
    \/ \E x \in Runs : WorkOff(x)
    \/ \E x \in Runs : Purge(x)
    \/ StopServer

LifecycleSpec == LifecycleInit /\ [][LifecycleNext]_lifecycleVars

\* cron starts the job again and again, and a running process goes on with
\* every run it has begun.
LifecycleFairness ==
    /\ WF_lifecycleVars(\E x \in Runs : BeginJob(x))
    /\ \A x \in Runs : WF_lifecycleVars(WorkOff(x)) /\ WF_lifecycleVars(Purge(x))

FairLifecycleSpec == LifecycleSpec /\ LifecycleFairness
-----------------------------------------------------------------------------
(* What must hold.                                                         *)

\* The job never takes a spool from a user before grace and retention of the
\* last term in force have passed, whatever was bought, given, refunded or
\* revoked while it was awaiting sendmail.
NothingPurgedEarly ==
    [][\A u \in Users :
          spool[u].at = "present" /\ spool'[u] = NoSpool /\ job' # job
              => /\ ActiveGrants(u, grant) # {}
                 /\ \A g \in ActiveGrants(u, grant) :
                       grant[g].endsAt + GraceTime + RetentionTime <= now
      ]_lifecycleVars

\* A user gets each reminder of a term once, and once more at most for every
\* time the process stopped between handing it over and marking it sent, and
\* for every run begun while another was still awaiting sendmail: the mark in
\* the table is all that tells two runs apart (the `await` between
\* listEntitlementsNeedingReminders and markReminderSent).
RemindedOnce == \A r \in Reminders : mails[r] <= 1 + stops + overlaps

\* An inventory left behind is purged in the end, unless its owner comes back
\* or loses the term that schedules the deletion: stopped jobs are made up for.
AbandonedIsPurged ==
    \A u \in Users :
        /\ spool[u] # NoSpool /\ ~purged[u]
        /\ DeletionDue(MaxPaidUntil(u, grant), now)
        ~> \/ spool[u] = NoSpool
           \/ ~DeletionDue(MaxPaidUntil(u, grant), now)

Completes(x) == job[x].at = "sending" /\ job'[x].at = "idle" /\ stops' = stops

\* docs/CLOUD_RETENTION_AND_DELETION.md: the job purges the inventory after
\* deletion_scheduled_at; it leaves none behind that is due.
PurgeRemovesExpired ==
    [][(\E x \in Runs : Completes(x))
          => \A u \in Users : DeletionDue(row'[u].paidUntil, now)
                                 => spool'[u] = NoSpool]_lifecycleVars
=============================================================================
