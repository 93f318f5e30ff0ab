----------------------------- MODULE CloudSpools -----------------------------
(***************************************************************************)
(* The Cloud's spools of all users: packages/db/src/user-spools.ts and the *)
(* export of account-privacy.ts, behind the routes for spools, the public  *)
(* search by code and the export of routes-privacy-spools.ts.              *)
(*                                                                         *)
(* better-sqlite3 does not await, so no request runs beside another, but   *)
(* an upsert is many statements without a transaction: a unique index may  *)
(* refuse one, and the process may stop after each.  What came before      *)
(* stays.  SpoolSync has one spool and what its ledger says; here several  *)
(* spools of several owners share the indexes.                             *)
(***************************************************************************)
EXTENDS Integers, FiniteSets, Sequences, SequencesExt

CONSTANTS
    Owners, NoOwner,
    SpoolIds, NoId,         \* uuids of spools, the server's and the browsers'
    Clients, NoClient,      \* client ids
    Marks,                  \* kind and value of identities, trimmed
    Dryings, Usages,        \* uuids of drying events and of usage
    Unsaid,                 \* what a body leaves out
    SpoolBodies,            \* bodies that are sent
    MaxSync,                \* bound: no write makes a larger syncVersion
    MaxBatch                \* bound on the bodies of one upload

\* What spoolBodySchema lets through; a body has a list for each table of children.
SpoolBodyType ==
    [id : SpoolIds \cup {NoId}, client : Clients \cup {NoClient},
     version : 0..MaxSync, archived : BOOLEAN \cup {Unsaid},
     lists : (Seq(Dryings) \cup {Unsaid}) \X (Seq(Marks) \cup {Unsaid})
             \X (Seq(Usages) \cup {Unsaid})]

ASSUME CloudSpoolParameters ==
    /\ NoOwner \notin Owners /\ NoClient \notin Clients /\ NoId \notin SpoolIds
    /\ Marks \cap (Dryings \cup Usages) = {} /\ Dryings \cap Usages = {}
    /\ Unsaid \notin Seq(Marks \cup Dryings \cup Usages)
    /\ MaxSync \in Nat /\ MaxBatch \in Nat
    /\ SpoolBodies \subseteq SpoolBodyType

VARIABLES
    stock,     \* user_spools
    kids       \* user_spool_drying_events, _identities and _usage_transactions

stockVars == <<stock, kids>>

\* by: whose request wrote the row last.
NoRoll == [of |-> NoOwner, by |-> NoOwner, client |-> NoClient, version |-> 0,
           at |-> "absent", archived |-> FALSE]

\* A deleted row is old when it was deleted more than 30 days ago.
StockTypeOK ==
    /\ stock \in [SpoolIds -> [of : Owners \cup {NoOwner}, by : Owners \cup {NoOwner},
                               client : Clients \cup {NoClient},
                               version : 0..MaxSync,
                               at : {"absent", "living", "deleted", "old"},
                               archived : BOOLEAN]]
    /\ kids \subseteq SpoolIds \X (Dryings \cup Marks \cup Usages)
-----------------------------------------------------------------------------
(* Storing one spool.                                                      *)

\* The tables in the order of replaceChildren.
Tables == <<Dryings, Marks, Usages>>

Cleared(table, i, kind) == {row \in table : row[1] # i \/ row[2] \notin kind}

\* Where a list stops: the unique indexes on uuid and on (kind, value) are of the
\* whole table, and refuse what is in it or came earlier in the list.
Doubled(table, list) ==
    {n \in 1..Len(list) : \/ \E row \in table : row[2] = list[n]
                          \/ \E m \in 1..(n - 1) : list[m] = list[n]}

\* One table: cleared, and filled up to the first that is refused.
Replaced(db, i, n, list) ==
    IF list = Unsaid \/ ~db.ok THEN db
    ELSE LET table   == Cleared(db.kids, i, Tables[n])
             refused == Doubled(table, list)
             stored  == {m \in 1..Len(list) : \A r \in refused : m < r}
         IN  [db EXCEPT !.kids = table \cup {<<i, list[m]>> : m \in stored},
                        !.ok = refused = {}]

\* replaceChildren, for the first n tables.
ReplaceChildren(db, i, lists, n) ==
    LET dried  == Replaced(db, i, 1, lists[1])
        marked == Replaced(dried, i, 2, lists[2])
        used   == Replaced(marked, i, 3, lists[3])
    IN  <<db, dried, marked, used>>[n + 1]

\* The row as the body changes it: it lives again if it was deleted.
Merged(row, u, body, client) ==
    [row EXCEPT
        !.by = u, !.client = client, !.at = "living",
        !.version = IF body.version > @ + 1 THEN body.version ELSE @ + 1,
        !.archived = IF body.archived = Unsaid THEN @ ELSE body.archived]

\* The unique index on user and client id.
ClientFree(db, u, i, client) ==
    \/ client = NoClient
    \/ \A j \in SpoolIds \ {i} : db.stock[j].of # u \/ db.stock[j].client # client

\* Mutant of Existing: a client id is looked for among all users.
Existing_AnyUser(db, u, body) ==
    LET byId     == {i \in SpoolIds : i = body.id /\ db.stock[i].of = u}
        byClient == {i \in SpoolIds : db.stock[i].client = body.client}
    IN  IF byId # {} \/ body.client = NoClient THEN byId ELSE byClient

\* By uuid, or else by client id, among the user's own rows, deleted ones
\* included.
Existing(db, u, body) ==
    LET byId     == {i \in SpoolIds : i = body.id /\ db.stock[i].of = u}
        byClient == {i \in SpoolIds : db.stock[i].of = u /\ db.stock[i].client = body.client}
    IN  IF byId # {} \/ body.client = NoClient THEN byId ELSE byClient

AbsentIn(db) == {i \in SpoolIds : db.stock[i].at = "absent"}

\* The row that is written; a new one has the body's uuid or one of its own.
Target(db, u, body) ==
    LET there == Existing(db, u, body)
    IN  IF there # {} THEN CHOOSE i \in there : TRUE
        ELSE IF body.id # NoId THEN body.id
        ELSE CHOOSE i \in AbsentIn(db) : TRUE

\* Updated when it was found; a uuid that is somebody else's cannot be inserted.
WriteRow(db, u, i, body) ==
    LET row    == db.stock[i]
        found  == i \in Existing(db, u, body)
        client == IF found /\ body.client = NoClient THEN row.client ELSE body.client
        first  == [of |-> u, by |-> u, client |-> client, version |-> body.version,
                   at |-> "living", archived |-> body.archived = TRUE]
    IN  IF (~found /\ row.at # "absent") \/ ~ClientFree(db, u, i, client)
        THEN [db EXCEPT !.ok = FALSE]
        ELSE [db EXCEPT !.stock[i] = IF found THEN Merged(row, u, body, client) ELSE first]

Stale(db, u, body) ==
    \E i \in Existing(db, u, body) : body.version < db.stock[i].version

\* upsertUserSpool: the row, then its children.
Upserted(db, u, body) ==
    IF ~db.ok \/ Stale(db, u, body) THEN db
    ELSE LET i   == Target(db, u, body)
         IN  ReplaceChildren(WriteRow(db, u, i, body), i, body.lists, 3)

\* Where the process may stop in it: before a table, or when it is cleared.
Halfway(db, u, body) ==
    LET i == Target(db, u, body)
        Before(n) == ReplaceChildren(WriteRow(db, u, i, body), i, body.lists, n - 1)
    IN  {Before(n) : n \in 1..3} \cup
        {[Before(n) EXCEPT !.kids = Cleared(@, i, Tables[n])] :
            n \in {m \in 1..3 : body.lists[m] # Unsaid /\ Before(m).ok}}
-----------------------------------------------------------------------------
(* The routes; each may also be refused for want of Cloud access, which    *)
(* changes nothing.                                                        *)

Db == [stock |-> stock, kids |-> kids, ok |-> TRUE]

\* Bounds: a new spool finds a uuid, and a version its successor.
Fits(db, u, body) ==
    /\ body.id # NoId \/ Existing(db, u, body) # {} \/ AbsentIn(db) # {}
    /\ \A i \in Existing(db, u, body) : Stale(db, u, body) \/ db.stock[i].version < MaxSync

Store(db) == stock' = db.stock /\ kids' = db.kids

\* Answered with the spool, or 500 when a statement was refused.
PostSpool(u, body) ==
    /\ Fits(Db, u, body)
    /\ Store(Upserted(Db, u, body))

\* The process stops on the way.
StopInUpsert(u, body) ==
    /\ Fits(Db, u, body) /\ ~Stale(Db, u, body)
    /\ \E db \in Halfway(Db, u, body) : Store(db)

\* getOwnedSpool.
Owned(u, i) == stock[i].of = u /\ stock[i].at = "living"

\* The uuid is the path's.
PutSpool(u, i, body) ==
    /\ Owned(u, i)
    /\ PostSpool(u, [body EXCEPT !.id = i])

\* One after the other, until a statement is refused.
AfterEach(u, batch) ==
    LET after[n \in 0..Len(batch)] ==
            IF n = 0 THEN Db ELSE Upserted(after[n - 1], u, batch[n])
    IN  after

SyncSpools(u, batch) ==
    /\ \A n \in 1..Len(batch) : Fits(AfterEach(u, batch)[n - 1], u, batch[n])
    /\ Store(AfterEach(u, batch)[Len(batch)])

SoftDelete(u, i) ==
    /\ Owned(u, i)
    /\ stock' = [stock EXCEPT ![i].at = "deleted"]
    /\ UNCHANGED kids

\* What cascades when rows are deleted.
WithoutKids(gone) == {row \in kids : row[1] \notin gone}

Erase(gone) ==
    /\ gone # {}
    /\ stock' = [i \in SpoolIds |-> IF i \in gone THEN NoRoll ELSE stock[i]]
    /\ kids' = WithoutKids(gone)

\* With hard=1; the row may be deleted softly already.
HardDelete(u, i) == stock[i].of = u /\ Erase({i})

\* purgeAllUserSpools, of a user who deletes the account.
PurgeAll(u) == Erase({i \in SpoolIds : stock[i].of = u})

\* purgeSoftDeletedSpools, of the lifecycle job.
PurgeSoftDeleted == Erase({i \in SpoolIds : stock[i].at = "old"})

\* 30 days pass.
Grow(i) ==
    /\ stock[i].at = "deleted"
    /\ stock' = [stock EXCEPT ![i].at = "old"]
    /\ UNCHANGED kids
-----------------------------------------------------------------------------
(* What the routes tell; none of them changes anything.                    *)

\* listUserSpools over all its pages; archived ones only when asked for.
Listed(u, withArchived) ==
    {i \in SpoolIds : Owned(u, i) /\ (withArchived \/ ~stock[i].archived)}

\* A spool as mapSpool and as the export shows it, with its rows of all tables.
Shown(i) == [id |-> i, client |-> stock[i].client, archived |-> stock[i].archived,
             kids |-> {row[2] : row \in {r \in kids : r[1] = i}}]

\* exportUserData.
Exported(u) ==
    {Shown(i) : i \in {j \in SpoolIds : stock[j].of = u /\ stock[j].at = "living"}}

\* resolvePublicSpoolByIdentity: the one row of the index, if its spool is
\* neither deleted nor archived.
Resolve(k) ==
    {row[1] : row \in {r \in kids : r[2] = k /\ stock[r[1]].at = "living"
                                  /\ ~stock[r[1]].archived}}
-----------------------------------------------------------------------------
StockInit == stock = [i \in SpoolIds |-> NoRoll] /\ kids = {}

StockNext ==
    \/ \E u \in Owners :
          \/ PurgeAll(u)
          \/ \E body \in SpoolBodies : PostSpool(u, body) \/ StopInUpsert(u, body)
          \/ \E batch \in UNION {[1..n -> SpoolBodies] : n \in 1..MaxBatch} : SyncSpools(u, batch)
          \/ \E i \in SpoolIds :
                \/ SoftDelete(u, i) \/ HardDelete(u, i)
                \/ \E body \in SpoolBodies : PutSpool(u, i, body)
    \/ PurgeSoftDeleted
    \/ \E i \in SpoolIds : Grow(i)

StockSpec == StockInit /\ [][StockNext]_stockVars
-----------------------------------------------------------------------------
(* What must hold.                                                         *)

\* Every code leads to one spool, whoever stored it and however a write ended;
\* and anyone who scans the code of a spool in use is told of that spool, and
\* never of one that its owner deleted or archived.
CodesFindSpools ==
    \A k \in Marks :
        LET holders == {i \in SpoolIds : <<i, k>> \in kids} IN
        /\ Cardinality(holders) <= 1
        /\ Resolve(k) = {i \in holders : \E u \in Owners : i \in Listed(u, FALSE)}

\* A client id stands for one spool of its user, so that an upload that is sent
\* again finds what it stored.
ClientsFindSpools ==
    \A i, j \in SpoolIds :
        stock[i].client # NoClient /\ stock[i].client = stock[j].client
        /\ stock[i].of = stock[j].of => i = j

\* Whatever was cut off, refused or deleted, no row of a spool outlives it, and
\* what a user exports is what the lists show of the same user, no more.
NothingIsLeftBehind ==
    /\ \A row \in kids : stock[row[1]].at # "absent"
    /\ \A u \in Owners : Exported(u) = {Shown(i) : i \in Listed(u, TRUE)}

\* Nobody writes a spool of somebody else, by knowing its uuid or a client id.
OnlyOwnersWrite == \A i \in SpoolIds : stock[i].by = stock[i].of

\* What the Cloud holds of spools can be found, and by the right people.
SpoolsAreFound ==
    CodesFindSpools /\ ClientsFindSpools /\ NothingIsLeftBehind /\ OnlyOwnersWrite
=============================================================================
