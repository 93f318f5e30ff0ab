------------------------------ MODULE SpoolSync ------------------------------
(***************************************************************************)
(* One physical spool and its usage ledger between the browsers of its     *)
(* owner and the Cloud: apps/web/lib/spools/local-db.ts (IndexedDB),       *)
(* runSync and logUsage of apps/web/app/my-spools/page.tsx, and            *)
(* upsertUserSpool of packages/db/src/user-spools.ts behind                *)
(* POST /api/v1/spools/sync.                                               *)
(*                                                                         *)
(* A copy of the spool is the set of usage entries it holds and its        *)
(* syncVersion.  In a browser every read and write of IndexedDB is a       *)
(* transaction of its own, and other handlers run between them.  On the    *)
(* server the writes of one upsert are separate statements, with nothing   *)
(* between them but a stop of the process.  Uploads go one way: no browser *)
(* ever reads the server's copy.                                           *)
(***************************************************************************)
EXTENDS Integers, FiniteSets

CONSTANTS
    Browsers,
    Writers,      \* bound: local writes in progress at once, over all tabs
    Forms,        \* bound: edit forms open at once, over all tabs
    Edits,        \* usage entries; each is logged once
    None,
    Removals,     \* the answers given to "remove the local copy?"
    MaxVersion,   \* bound: no new write or upload beyond this syncVersion
    MaxCrashes    \* bound: how often the server stops in the middle

ASSUME SyncParameters ==
    /\ Removals \subseteq BOOLEAN
    /\ MaxVersion \in Nat /\ MaxCrashes \in Nat
    /\ None \notin [edits : SUBSET Edits, version : Nat]

VARIABLES
    local,        \* the copy in the IndexedDB of each browser
    task,         \* the forms that are open and the local writes in progress
    file,         \* the exported JSON file
    preview,      \* syncPreview of each page
    request,      \* the upload in progress of each page
    server,       \* the row of user_spools and its usage transactions
    saved,        \* the edits whose local write was completed and reported
    crashes

vars == <<local, task, file, preview, request, server, saved, crashes>>

Tasks == Writers \cup Forms

Copy == [edits : SUBSET Edits, version : Nat]
IdleTask == [at |-> "idle", browser |-> None, edits |-> {}, version |-> 0]
NoRequest == [at |-> "none", copy |-> None, remove |-> FALSE]

SyncTypeOK ==
    /\ local \in [Browsers -> Copy \cup {None}]
    /\ task \in [Tasks -> [at : {"idle", "form", "read", "put"},
                           browser : Browsers \cup {None},
                           edits : SUBSET Edits, version : Nat]]
    /\ file \in Copy \cup {None}
    /\ preview \in [Browsers -> Copy \cup {None}]
    /\ request \in [Browsers -> [at : {"none", "sent", "row", "cleared",
                                       "answered", "failed"},
                                 copy : Copy \cup {None}, remove : BOOLEAN]]
    /\ server \in Copy \cup {None}
    /\ saved \subseteq Edits
    /\ crashes \in 0..MaxCrashes

Version(copy) == IF copy = None THEN 0 ELSE copy.version

\* Edits already used by a finished or a running write.
Used == saved \cup UNION {task[t].edits : t \in Tasks}
-----------------------------------------------------------------------------
(* The local database.                                                     *)

\* recordLocalSpoolUsage reads the spool; the new ledger is the one it read
\* and the new entry.
BeginUsage(t, b, e) ==
    /\ task[t].at = "idle" /\ e \notin Used
    /\ local[b] # None
    /\ task' = [task EXCEPT ![t] = [at |-> "read", browser |-> b,
                                    edits |-> local[b].edits \cup {e},
                                    version |-> 0]]
    /\ UNCHANGED <<local, file, preview, request, server, saved, crashes>>

\* Mutant of SkipsImport: a copy is replaced whatever its version.
SkipsImport_Never(b) == FALSE

SkipsImport(b) == local[b] # None /\ local[b].version >= file.version

\* importLocalSpoolsJson passes over a file that is not newer.
BeginImport(t, b) ==
    /\ task[t].at = "idle" /\ file # None
    /\ ~SkipsImport(b)
    /\ task' = [task EXCEPT ![t] = [at |-> "read", browser |-> b,
                                    edits |-> file.edits, version |-> 0]]
    /\ UNCHANGED <<local, file, preview, request, server, saved, crashes>>

\* The edit form takes the whole spool along, its ledger included, and saves
\* it as it was then; the archive button does so at once.
OpenForm(t, b) ==
    /\ task[t].at = "idle" /\ local[b] # None
    /\ task' = [task EXCEPT ![t] = [at |-> "form", browser |-> b,
                                    edits |-> local[b].edits, version |-> 0]]
    /\ UNCHANGED <<local, file, preview, request, server, saved, crashes>>

CancelForm(t) ==
    /\ task[t].at = "form"
    /\ task' = [task EXCEPT ![t] = IdleTask]
    /\ UNCHANGED <<local, file, preview, request, server, saved, crashes>>

SubmitForm(t) ==
    /\ task[t].at = "form"
    /\ task' = [task EXCEPT ![t].at = "read"]
    /\ UNCHANGED <<local, file, preview, request, server, saved, crashes>>

\* saveLocalSpool reads the spool again, for its version.
ReadVersion(t) ==
    /\ task[t].at = "read"
    /\ Version(local[task[t].browser]) < MaxVersion
    /\ task' = [task EXCEPT ![t].at = "put",
                            ![t].version = Version(local[task[t].browser]) + 1]
    /\ UNCHANGED <<local, file, preview, request, server, saved, crashes>>

Put(t) ==
    /\ task[t].at = "put"
    /\ local' = [local EXCEPT
                   ![task[t].browser] = [edits |-> task[t].edits,
                                         version |-> task[t].version]]
    /\ saved' = saved \cup task[t].edits
    /\ task' = [task EXCEPT ![t] = IdleTask]
    /\ UNCHANGED <<file, preview, request, server, crashes>>

Export(b) ==
    /\ local[b] # None
    /\ file' = local[b]
    /\ UNCHANGED <<local, task, preview, request, server, saved, crashes>>
-----------------------------------------------------------------------------
(* The page that uploads.                                                  *)

Preview(b) ==
    /\ local[b] # None /\ request[b].at = "none"
    /\ preview' = [preview EXCEPT ![b] = local[b]]
    /\ UNCHANGED <<local, task, file, request, server, saved, crashes>>

CancelPreview(b) ==
    /\ preview[b] # None /\ request[b].at = "none"
    /\ preview' = [preview EXCEPT ![b] = None]
    /\ UNCHANGED <<local, task, file, request, server, saved, crashes>>

\* runSync uploads what was previewed, not what the database holds by now.
ConfirmSync(b, remove) ==
    /\ preview[b] # None /\ request[b].at = "none"
    /\ Version(server) < MaxVersion
    /\ request' = [request EXCEPT ![b] = [at |-> "sent", copy |-> preview[b],
                                          remove |-> remove]]
    /\ UNCHANGED <<local, task, file, preview, server, saved, crashes>>

\* The network loses the request or its answer, or access is refused.
FailRequest(b) ==
    /\ request[b].at \in {"sent", "answered"}
    /\ request' = [request EXCEPT ![b].at = "failed"]
    /\ UNCHANGED <<local, task, file, preview, server, saved, crashes>>

EndSync(b) ==
    /\ request[b].at = "answered"
    /\ local' = [local EXCEPT ![b] = IF request[b].remove THEN None ELSE @]
    /\ preview' = [preview EXCEPT ![b] = None]
    /\ request' = [request EXCEPT ![b] = NoRequest]
    /\ UNCHANGED <<task, file, server, saved, crashes>>

\* Mutant of AbandonSync: the local copy is removed although the upload failed.
AbandonSync_Remove(b) ==
    /\ request[b].at = "failed"
    /\ local' = [local EXCEPT ![b] = IF request[b].remove THEN None ELSE @]
    /\ request' = [request EXCEPT ![b] = NoRequest]
    /\ UNCHANGED <<task, file, preview, server, saved, crashes>>

\* apiPost throws: nothing is removed and the preview stays.
AbandonSync(b) ==
    /\ request[b].at = "failed"
    /\ request' = [request EXCEPT ![b] = NoRequest]
    /\ UNCHANGED <<local, task, file, preview, server, saved, crashes>>
-----------------------------------------------------------------------------
(* The server.                                                             *)

Serving == \E b \in Browsers : request[b].at \in {"row", "cleared"}

\* Mutant of IsStale: an upload of the same version is passed over as well.
IsStale_SameVersion(copy) == server # None /\ copy.version <= server.version

IsStale(copy) == server # None /\ copy.version < server.version

Bumped(version) ==
    IF version > server.version + 1 THEN version ELSE server.version + 1

\* The row is inserted, or updated with a version above its own.
UpsertRow(b) ==
    LET copy == request[b].copy IN
    /\ request[b].at = "sent" /\ ~Serving
    /\ \/ /\ IsStale(copy)
          /\ request' = [request EXCEPT ![b].at = "answered"]
          /\ UNCHANGED server
       \/ /\ ~IsStale(copy)
          /\ request' = [request EXCEPT ![b].at = "row"]
          /\ server' = IF server = None
                       THEN [edits |-> {}, version |-> copy.version]
                       ELSE [server EXCEPT !.version = Bumped(copy.version)]
    /\ UNCHANGED <<local, task, file, preview, saved, crashes>>

\* replaceChildren deletes the stored entries ...
ClearChildren(b) ==
    /\ request[b].at = "row"
    /\ server' = [server EXCEPT !.edits = {}]
    /\ request' = [request EXCEPT ![b].at = "cleared"]
    /\ UNCHANGED <<local, task, file, preview, saved, crashes>>

\* ... and inserts the uploaded ones, one by one.
InsertChild(b) ==
    /\ request[b].at = "cleared"
    /\ \/ /\ server.edits = request[b].copy.edits
          /\ request' = [request EXCEPT ![b].at = "answered"]
          /\ UNCHANGED server
       \/ /\ \E e \in request[b].copy.edits \ server.edits :
                server' = [server EXCEPT !.edits = @ \cup {e}]
          /\ UNCHANGED request
    /\ UNCHANGED <<local, task, file, preview, saved, crashes>>

\* The server stops between two statements and starts again.
Crash ==
    /\ crashes < MaxCrashes
    /\ crashes' = crashes + 1
    /\ request' = [b \in Browsers |->
                     IF request[b].at \in {"sent", "row", "cleared", "answered"}
                     THEN [request[b] EXCEPT !.at = "failed"]
                     ELSE request[b]]
    /\ UNCHANGED <<local, task, file, preview, server, saved>>
-----------------------------------------------------------------------------
\* One browser holds a new spool.
Init ==
    /\ local \in {[b \in Browsers |-> IF b = owner
                                      THEN [edits |-> {}, version |-> 1]
                                      ELSE None] : owner \in Browsers}
    /\ task = [t \in Tasks |-> IdleTask]
    /\ file = None
    /\ preview = [b \in Browsers |-> None]
    /\ request = [b \in Browsers |-> NoRequest]
    /\ server = None
    /\ saved = {}
    /\ crashes = 0

LocalNext ==
    \/ \E t \in Writers, b \in Browsers :
          BeginImport(t, b) \/ \E e \in Edits : BeginUsage(t, b, e)
    \/ \E t \in Forms : \/ \E b \in Browsers : OpenForm(t, b)
                        \/ CancelForm(t) \/ SubmitForm(t)
    \/ \E t \in Tasks : ReadVersion(t) \/ Put(t)
    \/ \E b \in Browsers : Export(b)

PageNext ==
    \E b \in Browsers : \/ Preview(b) \/ CancelPreview(b)
                        \/ \E remove \in Removals : ConfirmSync(b, remove)
                        \/ FailRequest(b) \/ EndSync(b) \/ AbandonSync(b)

ServerNext ==
    \/ \E b \in Browsers : UpsertRow(b) \/ ClearChildren(b) \/ InsertChild(b)
    \/ Crash

Next == LocalNext \/ PageNext \/ ServerNext

Spec == Init /\ [][Next]_vars
-----------------------------------------------------------------------------
(* What must hold.                                                         *)

\* The spool is never gone from everywhere: a browser gives its copy up only
\* when the server has the row, lost answers and crashes notwithstanding.
SpoolIsKept == server # None \/ \E b \in Browsers : local[b] # None

\* An answered upload left its entries on the server, or the server holds a
\* version that is strictly newer, whatever crashed or came between.
AnsweredIsStored ==
    \A b \in Browsers :
        request[b].at = "answered" =>
            /\ server # None
            /\ \/ server.edits = request[b].copy.edits
               \/ server.version > request[b].copy.version

\* What both say of a spool together.
SpoolsAreSafe == SpoolIsKept /\ AnsweredIsStored

\* While local copies are kept, usage reported as logged stays in the local
\* ledger: neither uploads, crashes of the server nor old files take it away.
LoggedUsageIsKept ==
    \A e \in saved : \E b \in Browsers : local[b] # None /\ e \in local[b].edits
=============================================================================
