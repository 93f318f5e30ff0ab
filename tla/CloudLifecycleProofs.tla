------------------------ MODULE CloudLifecycleProofs ------------------------
(***************************************************************************)
(* Theorems about CloudLifecycle, for any users, terms, windows, runs of   *)
(* the job at one time, overlaps and stops.                                *)
(***************************************************************************)
EXTENDS CloudLifecycle, CloudEntitlementProofs, FiniteSetTheorems

\* The runs that have a reminder on their list and have not handed it over yet.
Waiting(r) == {x \in Runs : r \in job[x].due /\ job[x].sending # r}

Held(r) == \E x \in Runs : r \in job[x].due

\* A reminder that was handed over, or waits on a list, is accounted for by the
\* first time, a stop or an overlap; one that is neither marked nor on any list,
\* by stops and overlaps alone.
RemindersAreCounted ==
    \A r \in Reminders :
        /\ mails[r] + Cardinality(Waiting(r)) <= 1 + stops + overlaps
        /\ ~Held(r) /\ r.kind \notin sent[r.user] => mails[r] <= stops + overlaps

LifecycleIInv == LifecycleTypeOK /\ IInv /\ RemindersAreCounted
-----------------------------------------------------------------------------
\* How many runs wait is a number.
LEMMA WaitingIsFinite ==
    \A r : IsFiniteSet(Waiting(r)) /\ Cardinality(Waiting(r)) \in Nat
<1> SUFFICES ASSUME NEW r
             PROVE  IsFiniteSet(Waiting(r)) /\ Cardinality(Waiting(r)) \in Nat
  OBVIOUS
<1>1. IsFiniteSet(Waiting(r))
  BY LifecycleParameters, FS_Subset DEF Waiting
<1> QED BY <1>1, FS_CardinalityType

\* The account of the reminders survives a step that leaves the lists as they are
\* to the mails, the marks and the counters.
LEMMA CountsAreKept ==
    ASSUME LifecycleIInv, UNCHANGED <<job, mails, sent, stops, overlaps>>
    PROVE  RemindersAreCounted'
<1>1. \A r : Waiting(r)' = Waiting(r) /\ (Held(r)' <=> Held(r))
  BY DEF Waiting, Held
<1> QED BY <1>1 DEF LifecycleIInv, RemindersAreCounted

\* No run is at work and no inventory exists at first.
LEMMA InitLifecycleIInv == LifecycleInit => LifecycleIInv
<1> SUFFICES ASSUME LifecycleInit PROVE LifecycleIInv
  OBVIOUS
<1>1. IInv /\ TypeOK
  BY InitIInv DEF LifecycleInit, IInv
<1>2. LifecycleTypeOK
  BY <1>1, LifecycleParameters, ParametersAreTicks
     DEF LifecycleInit, LifecycleTypeOK, NoSpool, NoJob, Time
<1>3. \A r : Waiting(r) = {}
  BY DEF LifecycleInit, Waiting, NoJob
<1>4. RemindersAreCounted
  BY <1>3, FS_EmptySet DEF LifecycleInit, RemindersAreCounted
<1> QED BY <1>1, <1>2, <1>4 DEF LifecycleIInv

\* The entitlement invariant reads the clock and the three tables only.
LEMMA IInvIsOfTables == IInv /\ UNCHANGED vars => IInv'
BY NextIInv

\* A user's own writes need access and touch one inventory.
LEMMA UserWritesKeep ==
    ASSUME LifecycleIInv, NEW u \in Users,
           SaveSpool(u) \/ SoftDeleteSpool(u) \/ HardDeleteSpool(u)
    PROVE  LifecycleIInv'
<1>1. UNCHANGED vars /\ UNCHANGED <<purged, sent, job, mails, overlaps, stops>>
  BY DEF SaveSpool, SoftDeleteSpool, HardDeleteSpool
<1>2. now \in Time /\ 0 \in Time
  BY ParametersAreTicks DEF LifecycleIInv, IInv, TypeOK, Time
<1>3. spool' \in [Users -> [at : {"absent", "present", "bin"}, since : Time]]
  BY <1>2 DEF SaveSpool, SoftDeleteSpool, HardDeleteSpool, NoSpool,
              LifecycleIInv, LifecycleTypeOK
<1>4. LifecycleTypeOK'
  BY <1>1, <1>3 DEF LifecycleIInv, LifecycleTypeOK, TypeOK, vars
<1> QED BY <1>1, <1>4, IInvIsOfTables, CountsAreKept DEF LifecycleIInv

\* What CloudEntitlement does leaves the job and the inventories alone.
LEMMA EntitleKeeps ==
    ASSUME LifecycleIInv, Entitle PROVE LifecycleIInv'
<1>1. IInv'
  BY NextIInv DEF Entitle, LifecycleIInv
<1>2. LifecycleTypeOK'
  BY <1>1 DEF Entitle, jobVars, LifecycleIInv, LifecycleTypeOK, IInv
<1>3. RemindersAreCounted'
  BY CountsAreKept DEF Entitle, jobVars
<1> QED BY <1>1, <1>2, <1>3 DEF LifecycleIInv

\* A run takes its list.
LEMMA BeginKeeps ==
    ASSUME LifecycleIInv, NEW x \in Runs, BeginJob(x) PROVE LifecycleIInv'
<1> USE DEF LifecycleIInv
<1> DEFINE alone == \A y \in Runs : job[y] = NoJob
<1>1. /\ UNCHANGED vars /\ UNCHANGED <<spool, purged, sent, mails, stops>>
      /\ job[x] = NoJob
      /\ job' = [job EXCEPT ![x] = [at |-> "sending", due |-> NeedingReminders,
                                    sending |-> None]]
      /\ alone \/ overlaps + stops < MaxMishaps
      /\ overlaps' = IF alone THEN overlaps ELSE overlaps + 1
  BY DEF BeginJob
<1>2. /\ overlaps \in Nat /\ stops \in Nat /\ MaxMishaps \in Nat
      /\ overlaps + stops <= MaxMishaps
      /\ \A r \in Reminders : mails[r] \in Nat
  BY LifecycleParameters DEF LifecycleTypeOK
<1> HIDE DEF alone
<1>3. \A r \in NeedingReminders : r \in Reminders /\ r.kind \notin sent[r.user]
  BY DEF NeedingReminders
<1>4. LifecycleTypeOK'
  <2>1. overlaps' \in Nat /\ stops' \in Nat /\ overlaps' + stops' <= MaxMishaps
    BY <1>1, <1>2
  <2>2. /\ job' \in [Runs -> [at : {"idle", "sending"}, due : SUBSET Reminders,
                              sending : Reminders \cup {None}]]
        /\ \A y \in Runs : job'[y].sending \in job'[y].due \cup {None}
    BY <1>1, <1>3 DEF LifecycleTypeOK
  <2> QED BY <1>1, <2>1, <2>2 DEF LifecycleTypeOK, TypeOK, vars
<1>5. RemindersAreCounted'
  <2> SUFFICES ASSUME NEW r \in Reminders
               PROVE  /\ mails'[r] + Cardinality(Waiting(r)')
                            <= 1 + stops' + overlaps'
                      /\ ~Held(r)' /\ r.kind \notin sent'[r.user]
                            => mails'[r] <= stops' + overlaps'
    BY DEF RemindersAreCounted
  <2>1. x \notin Waiting(r) /\ (alone => Waiting(r) = {} /\ ~Held(r))
    BY <1>1 DEF Waiting, Held, NoJob, alone
  <2>2. CASE r \in NeedingReminders
    <3>1. Waiting(r)' = Waiting(r) \cup {x} /\ Held(r)'
      BY <1>1, <2>2, LifecycleParameters DEF Waiting, Held, LifecycleTypeOK
    <3>2. Cardinality(Waiting(r)') = Cardinality(Waiting(r)) + 1
      BY <2>1, <3>1, WaitingIsFinite, FS_AddElement
    <3>3. alone => mails[r] <= stops + overlaps /\ Cardinality(Waiting(r)) = 0
      BY <1>3, <2>1, <2>2, FS_EmptySet DEF RemindersAreCounted
    <3>4. mails[r] + Cardinality(Waiting(r)) <= 1 + stops + overlaps
      BY DEF RemindersAreCounted
    <3>5. Cardinality(Waiting(r)) \in Nat
      BY WaitingIsFinite
    <3> QED BY <1>1, <1>2, <3>1, <3>2, <3>3, <3>4, <3>5
  <2>3. CASE r \notin NeedingReminders
    <3>1. Waiting(r)' = Waiting(r) /\ (Held(r)' <=> Held(r))
      BY <1>1, <2>3 DEF Waiting, Held, NoJob, LifecycleTypeOK
    <3>2. /\ mails[r] + Cardinality(Waiting(r)) <= 1 + stops + overlaps
          /\ ~Held(r) /\ r.kind \notin sent[r.user] => mails[r] <= stops + overlaps
      BY DEF RemindersAreCounted
    <3>3. Cardinality(Waiting(r)) \in Nat /\ overlaps <= overlaps'
          /\ overlaps' \in Nat
      BY <1>1, <1>2, WaitingIsFinite
    <3> QED BY <1>1, <1>2, <3>1, <3>2, <3>3
  <2> QED BY <2>2, <2>3
<1> QED BY <1>1, <1>4, <1>5, IInvIsOfTables

\* A run hands a reminder to sendmail: it waits there no longer.
LEMMA SendKeeps ==
    ASSUME LifecycleIInv, NEW x \in Runs, NEW r \in job[x].due, SendReminder(x, r)
    PROVE  LifecycleIInv'
<1> USE DEF LifecycleIInv
<1>1. /\ UNCHANGED vars /\ UNCHANGED <<spool, purged, sent, overlaps, stops>>
      /\ job' = [job EXCEPT ![x].sending = r]
      /\ mails' = [mails EXCEPT ![r] = @ + 1]
      /\ job[x].sending = None /\ r \in Reminders
  BY DEF SendReminder, LifecycleTypeOK
<1>2. \A y \in Runs : /\ job'[y].due = job[y].due /\ job'[y].at = job[y].at
                      /\ job'[y].sending = IF y = x THEN r ELSE job[y].sending
  BY <1>1 DEF LifecycleTypeOK
<1>3. LifecycleTypeOK'
  <2>1. /\ job' \in [Runs -> [at : {"idle", "sending"}, due : SUBSET Reminders,
                              sending : Reminders \cup {None}]]
        /\ \A y \in Runs : job'[y].sending \in job'[y].due \cup {None}
    BY <1>1, <1>2 DEF LifecycleTypeOK
  <2>2. mails' \in [Reminders -> Nat]
    BY <1>1 DEF LifecycleTypeOK
  <2> QED BY <1>1, <2>1, <2>2 DEF LifecycleTypeOK, TypeOK, vars
<1>4. RemindersAreCounted'
  <2> SUFFICES ASSUME NEW s \in Reminders
               PROVE  /\ mails'[s] + Cardinality(Waiting(s)') <= 1 + stops + overlaps
                      /\ ~Held(s)' /\ s.kind \notin sent[s.user]
                            => mails'[s] <= stops + overlaps
    BY <1>1 DEF RemindersAreCounted
  <2>1. Held(s)' <=> Held(s)
    BY <1>2 DEF Held
  <2>2. /\ mails[s] + Cardinality(Waiting(s)) <= 1 + stops + overlaps
        /\ ~Held(s) /\ s.kind \notin sent[s.user] => mails[s] <= stops + overlaps
        /\ mails[s] \in Nat /\ stops \in Nat /\ overlaps \in Nat
        /\ Cardinality(Waiting(s)) \in Nat
    BY WaitingIsFinite DEF RemindersAreCounted, LifecycleTypeOK
  <2>3. CASE s = r
    <3>1. x \in Waiting(r) /\ Waiting(r)' = Waiting(r) \ {x} /\ Held(r)
      BY <1>1, <1>2, LifecycleParameters DEF Waiting, Held
    <3>2. Cardinality(Waiting(r)') = Cardinality(Waiting(r)) - 1
      BY <3>1, WaitingIsFinite, FS_RemoveElement
    <3>3. mails'[r] = mails[r] + 1
      BY <1>1 DEF LifecycleTypeOK
    <3> QED BY <2>1, <2>2, <2>3, <3>1, <3>2, <3>3
  <2>4. CASE s # r
    <3>1. Waiting(s)' = Waiting(s)
      BY <1>1, <1>2, <2>4, LifecycleParameters DEF Waiting
    <3>2. mails'[s] = mails[s]
      BY <1>1, <2>4 DEF LifecycleTypeOK
    <3> QED BY <2>1, <2>2, <3>1, <3>2
  <2> QED BY <2>3, <2>4
<1> QED BY <1>1, <1>3, <1>4, IInvIsOfTables

\* A run marks the reminder it has handed over.
LEMMA MarkKeeps ==
    ASSUME LifecycleIInv, NEW x \in Runs, NEW r \in job[x].due,
           MarkReminderSent(x, r)
    PROVE  LifecycleIInv'
<1> USE DEF LifecycleIInv
<1>1. /\ UNCHANGED vars /\ UNCHANGED <<spool, purged, mails, overlaps, stops>>
      /\ job[x].sending = r /\ r \in Reminders
      /\ sent' = [sent EXCEPT ![r.user] = @ \cup {r.kind}]
      /\ job' = [job EXCEPT ![x].sending = None, ![x].due = @ \ {r}]
  BY DEF MarkReminderSent, Column, LifecycleTypeOK
<1>2. \A y \in Runs :
         /\ job'[y].at = job[y].at
         /\ job'[y].due = IF y = x THEN job[x].due \ {r} ELSE job[y].due
         /\ job'[y].sending = IF y = x THEN None ELSE job[y].sending
  BY <1>1 DEF LifecycleTypeOK
<1>3. LifecycleTypeOK'
  <2>1. /\ job' \in [Runs -> [at : {"idle", "sending"}, due : SUBSET Reminders,
                              sending : Reminders \cup {None}]]
        /\ \A y \in Runs : job'[y].sending \in job'[y].due \cup {None}
    BY <1>1, <1>2 DEF LifecycleTypeOK
  <2>2. sent' \in [Users -> SUBSET ReminderKind]
    BY <1>1 DEF LifecycleTypeOK, Reminders
  <2> QED BY <1>1, <2>1, <2>2 DEF LifecycleTypeOK, TypeOK, vars
<1>4. RemindersAreCounted'
  <2>1. \A s \in Reminders : Waiting(s)' = Waiting(s)
    <3> SUFFICES ASSUME NEW s \in Reminders, NEW y \in Runs
                 PROVE  s \in job'[y].due /\ job'[y].sending # s
                           <=> s \in job[y].due /\ job[y].sending # s
      BY Zenon DEF Waiting
    <3>1. s # None
      BY LifecycleParameters
    <3>2. CASE y = x
      <4>1. job'[y].due = job[y].due \ {r} /\ job'[y].sending = None
        BY <1>2, <3>2
      <4>2. job[y].sending = r
        BY <1>1, <3>2
      <4> QED BY <3>1, <4>1, <4>2
    <3>3. CASE y # x
      BY <1>2, <3>3
    <3> QED BY <3>2, <3>3
  <2>2. \A s \in Reminders :
           s.kind \notin sent'[s.user] => s # r /\ s.kind \notin sent[s.user]
    BY <1>1 DEF LifecycleTypeOK, Reminders
  <2>3. \A s \in Reminders : s # r /\ Held(s) => Held(s)'
    BY <1>2 DEF Held
  <2> QED BY <1>1, <2>1, <2>2, <2>3 DEF RemindersAreCounted
<1> QED BY <1>1, <1>3, <1>4, IInvIsOfTables

\* The purge recomputes every row, and nothing else of the entitlement tables.
LEMMA PurgeKeeps ==
    ASSUME LifecycleIInv, NEW x \in Runs, Purge(x) PROVE LifecycleIInv'
<1> USE DEF LifecycleIInv
<1>1. /\ row' = [u \in Users |-> Recomputed(u, payment, grant)]
      /\ purged' \in [Users -> BOOLEAN]
      /\ job' = [job EXCEPT ![x] = NoJob] /\ job[x].due = {}
      /\ UNCHANGED <<now, payment, grant, sent, mails, overlaps, stops>>
  BY DEF Purge, LifecycleTypeOK
<1>2. spool' \in [Users -> [at : {"absent", "present", "bin"}, since : Time]]
  BY ParametersAreTicks DEF Purge, LifecycleTypeOK, NoSpool, Time
<1>3. row' \in [Users -> SnapshotRow]
  BY <1>1, RecomputedType DEF IInv, TypeOK
<1>4. IInv'
  <2>1. TypeOK' /\ SnapshotAgrees'
    BY <1>1, <1>3 DEF IInv, TypeOK, SnapshotAgrees, Recomputed
  <2>2. TermsDisjoint' /\ SettledHasGrant' /\ RefundEndsGrant'
        /\ PaymentsAreOwned'
    BY <1>1 DEF IInv, TermsDisjoint, SettledHasGrant, RefundEndsGrant,
                PaymentsAreOwned
  <2> QED BY <2>1, <2>2 DEF IInv
<1>5. LifecycleTypeOK'
  BY <1>1, <1>2, <1>4 DEF LifecycleTypeOK, IInv, NoJob
<1>6. RemindersAreCounted'
  <2>1. \A y \in Runs : job'[y].due = job[y].due
                        /\ (y # x => job'[y] = job[y])
    BY <1>1 DEF LifecycleTypeOK, NoJob
  <2>2. \A r \in Reminders : Waiting(r)' = Waiting(r) /\ (Held(r)' <=> Held(r))
    BY <1>1, <2>1 DEF Waiting, Held
  <2> QED BY <1>1, <2>2 DEF RemindersAreCounted
<1> QED BY <1>4, <1>5, <1>6

\* A stop loses the runs; each reminder may have been handed over unmarked.
LEMMA StopKeeps ==
    ASSUME LifecycleIInv, StopServer PROVE LifecycleIInv'
<1> USE DEF LifecycleIInv
<1>1. LifecycleTypeOK'
  BY LifecycleParameters DEF StopServer, LifecycleTypeOK, TypeOK, NoJob, vars
<1>2. RemindersAreCounted'
  <2> SUFFICES ASSUME NEW r \in Reminders
               PROVE  /\ mails[r] + Cardinality(Waiting(r)') <= 1 + stops' + overlaps
                      /\ mails[r] <= stops' + overlaps
    BY DEF RemindersAreCounted, StopServer
  <2>1. Cardinality(Waiting(r)') = 0
    <3>1. Waiting(r)' = {}
      BY DEF Waiting, StopServer, NoJob
    <3> QED BY <3>1, FS_EmptySet
  <2>2. /\ mails[r] + Cardinality(Waiting(r)) <= 1 + stops + overlaps
        /\ Cardinality(Waiting(r)) \in Nat /\ mails[r] \in Nat
        /\ stops \in Nat /\ overlaps \in Nat
    BY WaitingIsFinite DEF RemindersAreCounted, LifecycleTypeOK
  <2>3. stops' = stops + 1
    BY DEF StopServer
  <2> QED BY <2>1, <2>2, <2>3
<1> QED BY <1>1, <1>2, IInvIsOfTables DEF StopServer

\* Every step keeps the inductive invariant.
LEMMA NextLifecycleIInv ==
    LifecycleIInv /\ [LifecycleNext]_lifecycleVars => LifecycleIInv'
<1> SUFFICES ASSUME LifecycleIInv, [LifecycleNext]_lifecycleVars
             PROVE  LifecycleIInv'
  OBVIOUS
<1>1. CASE UNCHANGED lifecycleVars
  <2>1. UNCHANGED vars /\ UNCHANGED jobVars
    BY <1>1 DEF lifecycleVars, vars, jobVars
  <2> QED BY <2>1, IInvIsOfTables, CountsAreKept
          DEF jobVars, LifecycleIInv, LifecycleTypeOK, IInv
<1> QED
  BY <1>1, UserWritesKeep, EntitleKeeps, BeginKeeps, SendKeeps, MarkKeeps,
     PurgeKeeps, StopKeeps DEF LifecycleNext, WorkOff
-----------------------------------------------------------------------------
(* The theorems.                                                           *)

\* The inductive invariant holds in every reachable state.
THEOREM LifecycleInvariantHolds == LifecycleSpec => []LifecycleIInv
BY InitLifecycleIInv, NextLifecycleIInv, PTL DEF LifecycleSpec

\* The inventories, the job and the mails are well typed.
THEOREM LifecycleTypeCorrect == LifecycleSpec => []LifecycleTypeOK
BY LifecycleInvariantHolds, PTL DEF LifecycleIInv

\* A user gets each reminder of a term once, and once more at most for every
\* stop of the process and for every run begun beside another, whichever of the
\* reminders were on the lists of both.
THEOREM RemindersAreNotRepeated == LifecycleSpec => []RemindedOnce
<1>1. LifecycleIInv => RemindedOnce
  <2> SUFFICES ASSUME LifecycleIInv, NEW r \in Reminders
               PROVE  mails[r] <= 1 + stops + overlaps
    BY DEF RemindedOnce
  <2>1. /\ mails[r] + Cardinality(Waiting(r)) <= 1 + stops + overlaps
        /\ mails[r] \in Nat /\ stops \in Nat /\ overlaps \in Nat
    BY DEF LifecycleIInv, RemindersAreCounted, LifecycleTypeOK
  <2> QED BY <2>1, WaitingIsFinite
<1> QED BY <1>1, LifecycleInvariantHolds, PTL

\* The daily job next to everything else keeps the snapshots and the ledger
\* agreed, though it recomputes all rows in one turn.
THEOREM JobKeepsAgreement == LifecycleSpec => []SnapshotAgrees
<1>1. LifecycleIInv => SnapshotAgrees
  BY DEF LifecycleIInv, IInv
<1> QED BY <1>1, LifecycleInvariantHolds, PTL

\* The job takes no spool from a user before the grace and the retention of
\* the last term in force have passed.
THEOREM NothingIsPurgedEarly == LifecycleSpec => NothingPurgedEarly
<1> DEFINE Taken(u) == spool[u].at = "present" /\ spool'[u] = NoSpool /\ job' # job
           Over(u) == /\ ActiveGrants(u, grant) # {}
                      /\ \A g \in ActiveGrants(u, grant) :
                            grant[g].endsAt + GraceTime + RetentionTime <= now
<1>1. ASSUME LifecycleIInv, [LifecycleNext]_lifecycleVars, NEW u \in Users,
             Taken(u)
      PROVE  Over(u)
  <2> USE DEF LifecycleIInv
  <2>1. PICK x \in Runs : Purge(x)
    <3>1. spool'[u] # spool[u]
      BY <1>1 DEF NoSpool
    <3>2. ~Entitle /\ ~StopServer /\ ~UNCHANGED lifecycleVars
      BY <3>1 DEF Entitle, jobVars, StopServer, lifecycleVars
    <3>3. \A x \in Runs : ~BeginJob(x) /\ ~WorkOff(x)
      BY <3>1 DEF BeginJob, WorkOff, SendReminder, MarkReminderSent
    <3>4. \A v \in Users : ~SaveSpool(v) /\ ~SoftDeleteSpool(v)
                           /\ ~HardDeleteSpool(v)
      BY <1>1 DEF SaveSpool, SoftDeleteSpool, HardDeleteSpool
    <3> QED BY <1>1, <3>2, <3>3, <3>4 DEF LifecycleNext
  <2> DEFINE d == Recomputed(u, payment, grant).paidUntil
  <2>2. MayPurge(u, d)
    <3>1. spool'[u] # spool[u] /\ spool[u].at # "bin"
      BY <1>1 DEF NoSpool
    <3> QED BY <2>1, <3>1 DEF Purge
  <2>3. d = MaxPaidUntil(u, grant)
    BY DEF Recomputed
  <2>4. d # None /\ d + GraceTime + RetentionTime <= now
    BY <2>2 DEF MayPurge, DeletionDue
  <2>5. /\ d \in Time /\ ActiveGrants(u, grant) # {}
        /\ \A g \in ActiveGrants(u, grant) : grant[g].endsAt <= d
    BY <1>1, <2>3, <2>4, MaxPaidUntilIsMax DEF IInv, TypeOK
  <2>6. now \in Time /\ \A g \in ActiveGrants(u, grant) : grant[g].endsAt \in Time
    BY <1>1 DEF IInv, TypeOK, GrantRow, ActiveGrants
  <2> HIDE DEF d
  <2> QED BY <2>4, <2>5, <2>6, ParametersAreTicks DEF Time
<1>2. LifecycleIInv /\ [LifecycleNext]_lifecycleVars
        => [\A u \in Users :
              spool[u].at = "present" /\ spool'[u] = NoSpool /\ job' # job
                => /\ ActiveGrants(u, grant) # {}
                   /\ \A g \in ActiveGrants(u, grant) :
                         grant[g].endsAt + GraceTime + RetentionTime <= now
           ]_lifecycleVars
  BY <1>1
<1> QED BY <1>2, LifecycleInvariantHolds, PTL DEF LifecycleSpec, NothingPurgedEarly

\* The daily job and its purge leave the ledger of grants as append-only as the
\* other operations do.
THEOREM JobLeavesLedger == LifecycleSpec => GrantsAreALedger
<1>1. LifecycleInit => Ledger!Init
  BY InitIsLedgerInit DEF LifecycleInit
<1>2. LifecycleIInv /\ [LifecycleNext]_lifecycleVars => [Ledger!Next]_grant
  <2> SUFFICES ASSUME LifecycleIInv, [LifecycleNext]_lifecycleVars
               PROVE  [Ledger!Next]_grant
    OBVIOUS
  <2>1. CASE Entitle
    BY <2>1, StepIsLedgerStep DEF Entitle, LifecycleIInv
  <2>2. CASE ~Entitle
    <3>1. UNCHANGED grant
      BY <2>2 DEF LifecycleNext, lifecycleVars, vars, SaveSpool, SoftDeleteSpool,
                  HardDeleteSpool, BeginJob, WorkOff, SendReminder,
                  MarkReminderSent, Purge, StopServer
    <3> QED BY <3>1
  <2> QED BY <2>1, <2>2
<1> QED BY <1>1, <1>2, LifecycleInvariantHolds, PTL
        DEF LifecycleSpec, GrantsAreALedger, Ledger!Spec
=============================================================================
