-------------------------- MODULE SpoolSyncProofs ---------------------------
(***************************************************************************)
(* Theorems about the pages of the spools and of the forms: SpoolSync, for *)
(* any number of browsers, tabs and edits; SpoolAmounts, for any weights,  *)
(* doses and percentages that are entered; ExportDesk and SubmitDesk, for  *)
(* any number of formats, profiles, visitors and clicks; CatalogForms, for *)
(* any catalogue and any number of requests without an answer; and         *)
(* ProfileValues, for any numbers that are sent, in whatever order         *)
(* revisions, forks, presets and imports follow.                           *)
(***************************************************************************)
EXTENDS MCPages, FiniteSetTheorems, SequenceTheorems, WellFoundedInduction, TLAPS

\* A running local write knows its browser, a running upload its copy.
TasksAndRequests ==
    /\ \A t \in Tasks : task[t].at # "idle" => task[t].browser \in Browsers
    /\ \A b \in Browsers : request[b].at # "none" => request[b].copy # None

Served(b) == request[b].at \in {"row", "cleared"}

\* The upload being served, or answered, has its row on the server, under at
\* least its own version, and its entries or part of them.
UploadsHaveRows ==
    /\ \A b \in Browsers :
          Served(b) \/ request[b].at = "answered"
              => server # None /\ server.version >= request[b].copy.version
    /\ \A b \in Browsers :
          request[b].at = "answered"
              => \/ server.edits = request[b].copy.edits
                 \/ server.version > request[b].copy.version

\* The server works on one upload at a time, and by then its version has left
\* the answered ones behind.
OneUploadAtATime ==
    \A b, c \in Browsers :
        b # c /\ Served(b) => /\ ~Served(c)
                              /\ request[c].at = "answered" =>
                                    server.version > request[c].copy.version

IInv == SyncTypeOK /\ TasksAndRequests /\ SpoolIsKept /\ UploadsHaveRows
                   /\ OneUploadAtATime
-----------------------------------------------------------------------------
\* At first one browser holds the spool and nothing is going on.
LEMMA InitIInv == Init => IInv
<1> SUFFICES ASSUME Init PROVE IInv
  OBVIOUS
<1>1. PICK owner \in Browsers :
         local = [b \in Browsers |-> IF b = owner
                                     THEN [edits |-> {}, version |-> 1]
                                     ELSE None]
  BY DEF Init
<1>2. SyncTypeOK
  BY <1>1, SyncParameters DEF Init, SyncTypeOK, Copy, IdleTask, NoRequest
<1>3. SpoolIsKept
  <2>1. [edits |-> {}, version |-> 1] \in [edits : SUBSET Edits, version : Nat]
    OBVIOUS
  <2>2. local[owner] # None
    BY <1>1, <2>1, SyncParameters
  <2> QED BY <2>2 DEF SpoolIsKept
<1>4. TasksAndRequests /\ UploadsHaveRows /\ OneUploadAtATime
  BY DEF Init, TasksAndRequests, UploadsHaveRows, OneUploadAtATime, Served,
         IdleTask, NoRequest
<1> QED BY <1>2, <1>3, <1>4 DEF IInv

\* The version of a copy, or of none, is a number.
LEMMA VersionType == \A copy \in Copy \cup {None} : Version(copy) \in Nat
BY DEF Version, Copy

\* What the local database and the page do to the spool, the server aside.
LEMMA LocalKeepsIInv ==
    ASSUME IInv, LocalNext PROVE IInv'
<1> USE DEF IInv
<1>1. ASSUME NEW t \in Tasks, NEW b \in Browsers, NEW e \in Edits,
             BeginUsage(t, b, e)
      PROVE  IInv'
  <2>1. SyncTypeOK'
    BY <1>1 DEF BeginUsage, SyncTypeOK, Copy
  <2>2. (TasksAndRequests /\ SpoolIsKept /\ UploadsHaveRows
           /\ OneUploadAtATime)'
    BY <1>1 DEF BeginUsage, SyncTypeOK, TasksAndRequests, SpoolIsKept,
                UploadsHaveRows, OneUploadAtATime, Served
  <2> QED BY <2>1, <2>2
<1>2. ASSUME NEW t \in Tasks, NEW b \in Browsers, BeginImport(t, b)
      PROVE  IInv'
  <2>1. SyncTypeOK'
    BY <1>2 DEF BeginImport, SyncTypeOK, Copy
  <2>2. (TasksAndRequests /\ SpoolIsKept /\ UploadsHaveRows
           /\ OneUploadAtATime)'
    BY <1>2 DEF BeginImport, SyncTypeOK, TasksAndRequests, SpoolIsKept,
                UploadsHaveRows, OneUploadAtATime, Served
  <2> QED BY <2>1, <2>2
<1>3. ASSUME NEW t \in Tasks, ReadVersion(t) PROVE IInv'
  <2>1. Version(local[task[t].browser]) + 1 \in Nat
    BY <1>3, VersionType DEF ReadVersion, SyncTypeOK, TasksAndRequests
  <2>2. SyncTypeOK'
    BY <1>3, <2>1 DEF ReadVersion, SyncTypeOK
  <2>3. (TasksAndRequests /\ SpoolIsKept /\ UploadsHaveRows
           /\ OneUploadAtATime)'
    BY <1>3 DEF ReadVersion, SyncTypeOK, TasksAndRequests, SpoolIsKept,
                UploadsHaveRows, OneUploadAtATime, Served
  <2> QED BY <2>2, <2>3
<1>4. ASSUME NEW t \in Tasks, Put(t) PROVE IInv'
  <2>1. [edits |-> task[t].edits, version |-> task[t].version] \in Copy
    BY DEF SyncTypeOK, Copy
  <2>2. SyncTypeOK'
    BY <1>4, <2>1 DEF Put, SyncTypeOK, IdleTask
  <2>3. task[t].browser \in Browsers
    BY <1>4 DEF Put, TasksAndRequests
  <2>4. SpoolIsKept'
    BY <1>4, <2>1, <2>3, SyncParameters DEF Put, SyncTypeOK, SpoolIsKept, Copy
  <2>5. (TasksAndRequests /\ UploadsHaveRows /\ OneUploadAtATime)'
    BY <1>4 DEF Put, SyncTypeOK, TasksAndRequests, UploadsHaveRows,
                OneUploadAtATime, Served, IdleTask
  <2> QED BY <2>2, <2>4, <2>5
<1>5. ASSUME NEW t \in Tasks, NEW b \in Browsers, OpenForm(t, b)
      PROVE  IInv'
  <2>1. SyncTypeOK'
    BY <1>5 DEF OpenForm, SyncTypeOK, Copy
  <2>2. (TasksAndRequests /\ SpoolIsKept /\ UploadsHaveRows
           /\ OneUploadAtATime)'
    BY <1>5 DEF OpenForm, SyncTypeOK, TasksAndRequests, SpoolIsKept,
                UploadsHaveRows, OneUploadAtATime, Served
  <2> QED BY <2>1, <2>2
<1>6. ASSUME NEW t \in Tasks, CancelForm(t) \/ SubmitForm(t) PROVE IInv'
  <2>1. SyncTypeOK'
    BY <1>6 DEF CancelForm, SubmitForm, SyncTypeOK, IdleTask
  <2>2. (TasksAndRequests /\ SpoolIsKept /\ UploadsHaveRows
           /\ OneUploadAtATime)'
    BY <1>6 DEF CancelForm, SubmitForm, SyncTypeOK, TasksAndRequests,
                SpoolIsKept, UploadsHaveRows, OneUploadAtATime, Served,
                IdleTask
  <2> QED BY <2>1, <2>2
<1>7. ASSUME NEW b \in Browsers, Export(b) PROVE IInv'
  BY <1>7 DEF Export, SyncTypeOK, TasksAndRequests, SpoolIsKept,
              UploadsHaveRows, OneUploadAtATime, Served
<1> QED BY <1>1, <1>2, <1>3, <1>4, <1>5, <1>6, <1>7 DEF LocalNext, Tasks

\* The page gives its copy up only after an answer, and by then the server has
\* the row.
LEMMA PageKeepsIInv ==
    ASSUME IInv, PageNext PROVE IInv'
<1> USE DEF IInv
<1>1. ASSUME NEW b \in Browsers, Preview(b) \/ CancelPreview(b) PROVE IInv'
  <2>1. SyncTypeOK'
    BY <1>1 DEF Preview, CancelPreview, SyncTypeOK
  <2>2. (TasksAndRequests /\ SpoolIsKept /\ UploadsHaveRows
           /\ OneUploadAtATime)'
    BY <1>1 DEF Preview, CancelPreview, TasksAndRequests, SpoolIsKept,
                UploadsHaveRows, OneUploadAtATime, Served
  <2> QED BY <2>1, <2>2
<1>3. ASSUME NEW b \in Browsers, NEW remove \in Removals, ConfirmSync(b, remove) PROVE IInv'
  <2>1. SyncTypeOK'
    BY <1>3, SyncParameters DEF ConfirmSync, SyncTypeOK
  <2>2. SpoolIsKept'
    BY <1>3 DEF ConfirmSync, SpoolIsKept
  <2>3. TasksAndRequests' /\ UploadsHaveRows' /\ OneUploadAtATime'
    BY <1>3 DEF ConfirmSync, SyncTypeOK, TasksAndRequests,
                UploadsHaveRows, OneUploadAtATime, Served
  <2> QED BY <2>1, <2>2, <2>3
<1>4. ASSUME NEW b \in Browsers, FailRequest(b) PROVE IInv'
  <2>1. SyncTypeOK'
    BY <1>4 DEF FailRequest, SyncTypeOK
  <2>2. SpoolIsKept'
    BY <1>4 DEF FailRequest, SpoolIsKept
  <2>3. TasksAndRequests' /\ UploadsHaveRows' /\ OneUploadAtATime'
    BY <1>4 DEF FailRequest, SyncTypeOK, TasksAndRequests,
                UploadsHaveRows, OneUploadAtATime, Served
  <2> QED BY <2>1, <2>2, <2>3
<1>5. ASSUME NEW b \in Browsers, AbandonSync(b) PROVE IInv'
  <2>1. SyncTypeOK'
    BY <1>5 DEF AbandonSync, SyncTypeOK, NoRequest
  <2>2. SpoolIsKept'
    BY <1>5 DEF AbandonSync, SpoolIsKept
  <2>3. TasksAndRequests' /\ UploadsHaveRows' /\ OneUploadAtATime'
    BY <1>5 DEF AbandonSync, SyncTypeOK, NoRequest, TasksAndRequests,
                UploadsHaveRows, OneUploadAtATime, Served
  <2> QED BY <2>1, <2>2, <2>3
<1>2. ASSUME NEW b \in Browsers, EndSync(b) PROVE IInv'
  <2>1. SyncTypeOK'
    BY <1>2 DEF EndSync, SyncTypeOK, NoRequest
  <2>2. SpoolIsKept'
    BY <1>2 DEF EndSync, SpoolIsKept, UploadsHaveRows
  <2>3. TasksAndRequests' /\ UploadsHaveRows' /\ OneUploadAtATime'
    BY <1>2 DEF EndSync, SyncTypeOK, NoRequest, TasksAndRequests,
                UploadsHaveRows, OneUploadAtATime, Served
  <2> QED BY <2>1, <2>2, <2>3
<1> QED BY <1>1, <1>2, <1>3, <1>4, <1>5 DEF PageNext

\* A version that is stored is above the one it replaces, and no smaller than
\* the uploaded one.
LEMMA BumpedIsNewer ==
    ASSUME NEW v \in Nat, server \in Copy
    PROVE  /\ Bumped(v) \in Nat /\ Bumped(v) > server.version
           /\ Bumped(v) >= v
BY DEF Bumped, Copy

\* The server never gives the row up, and counts its version up.
LEMMA ServerKeepsIInv ==
    ASSUME IInv, ServerNext PROVE IInv'
<1> USE DEF IInv
<1>1. ASSUME NEW b \in Browsers, UpsertRow(b) PROVE IInv'
  <2> DEFINE copy == request[b].copy
  <2>0. copy \in Copy
    BY <1>1 DEF UpsertRow, SyncTypeOK, TasksAndRequests
  <2>1. CASE IsStale(copy)
    <3>1. /\ UNCHANGED <<local, task, file, preview, saved, crashes, server>>
          /\ request' = [request EXCEPT ![b].at = "answered"]
      BY <1>1, <2>1 DEF UpsertRow
    <3>2. server # None /\ server.version > copy.version
          /\ server.version \in Nat /\ copy.version \in Nat
      BY <2>0, <2>1 DEF IsStale, SyncTypeOK, Copy
    <3>3. SyncTypeOK'
      BY <3>1 DEF SyncTypeOK
    <3>4. TasksAndRequests' /\ SpoolIsKept'
      BY <1>1, <3>1 DEF UpsertRow, TasksAndRequests, SpoolIsKept, SyncTypeOK
    <3>5. UploadsHaveRows' /\ OneUploadAtATime'
      BY <1>1, <3>1, <3>2 DEF UpsertRow, Serving, UploadsHaveRows, Served,
                              OneUploadAtATime, SyncTypeOK
    <3> QED BY <3>3, <3>4, <3>5
  <2>2. CASE ~IsStale(copy) /\ server = None
    <3>1. /\ UNCHANGED <<local, task, file, preview, saved, crashes>>
          /\ request' = [request EXCEPT ![b].at = "row"]
          /\ server' = [edits |-> {}, version |-> copy.version]
      BY <1>1, <2>2 DEF UpsertRow
    <3>2. server' \in Copy /\ server' # None
          /\ server'.version = copy.version /\ copy.version \in Nat
      BY <2>0, <3>1, SyncParameters DEF Copy
    <3>3. SyncTypeOK'
      BY <3>1, <3>2 DEF SyncTypeOK
    <3>4. TasksAndRequests' /\ SpoolIsKept'
      BY <1>1, <3>1, <3>2 DEF UpsertRow, TasksAndRequests, SpoolIsKept,
                              SyncTypeOK
    <3>5. \A c \in Browsers : request[c].at # "answered" /\ ~Served(c)
      BY <1>1, <2>2 DEF UpsertRow, UploadsHaveRows, Served
    <3>6. UploadsHaveRows' /\ OneUploadAtATime'
      BY <3>1, <3>2, <3>5 DEF UploadsHaveRows, Served, OneUploadAtATime,
                              SyncTypeOK
    <3> QED BY <3>3, <3>4, <3>6
  <2>3. CASE ~IsStale(copy) /\ server # None
    <3>1. /\ UNCHANGED <<local, task, file, preview, saved, crashes>>
          /\ request' = [request EXCEPT ![b].at = "row"]
          /\ server' = [server EXCEPT !.version = Bumped(copy.version)]
      BY <1>1, <2>3 DEF UpsertRow
    <3>2. /\ server \in Copy /\ copy.version \in Nat
          /\ server.version \in Nat
      BY <2>0, <2>3 DEF SyncTypeOK, Copy
    <3>3. /\ server' \in Copy /\ server' # None
          /\ server'.version \in Nat
          /\ server'.version > server.version
          /\ server'.version >= copy.version
      <4>1. server'.version = Bumped(copy.version) /\ server'.edits = server.edits
            /\ server' \in Copy
        BY <3>1, <3>2, BumpedIsNewer DEF Copy
      <4>2. server' # None
        BY <4>1, SyncParameters DEF Copy
      <4> QED BY <3>2, <4>1, <4>2, BumpedIsNewer
    <3>4. SyncTypeOK'
      BY <3>1, <3>3 DEF SyncTypeOK
    <3>5. TasksAndRequests' /\ SpoolIsKept'
      BY <1>1, <3>1, <3>3 DEF UpsertRow, TasksAndRequests, SpoolIsKept,
                              SyncTypeOK
    <3>6. /\ \A c \in Browsers : ~Served(c)
          /\ \A c \in Browsers : c # b => request'[c] = request[c]
          /\ request'[b].at = "row" /\ request'[b].copy = copy
      BY <1>1, <3>1 DEF UpsertRow, Serving, Served, SyncTypeOK
    <3>7. \A c \in Browsers :
             request[c].at = "answered" =>
                /\ request[c].copy.version \in Nat
                /\ server'.version > request[c].copy.version
      <4>1. \A c \in Browsers :
               request[c].at = "answered" => request[c].copy \in Copy
                    /\ server.version >= request[c].copy.version
        BY DEF SyncTypeOK, TasksAndRequests, UploadsHaveRows
      <4> QED BY <3>2, <3>3, <4>1 DEF Copy
    <3>8. UploadsHaveRows'
      BY <3>3, <3>6, <3>7 DEF UploadsHaveRows, Served
    <3>9. OneUploadAtATime'
      BY <3>6, <3>7 DEF OneUploadAtATime, Served
    <3> QED BY <3>4, <3>5, <3>8, <3>9
  <2> QED BY <2>1, <2>2, <2>3
<1>2. ASSUME NEW b \in Browsers, ClearChildren(b) \/ InsertChild(b)
      PROVE  IInv'
  <2>0. /\ Served(b) /\ server \in Copy /\ server # None
        /\ request[b].copy \in Copy
    BY <1>2 DEF ClearChildren, InsertChild, Served, UploadsHaveRows,
                SyncTypeOK, TasksAndRequests
  <2>1. server' \in Copy /\ server' # None /\ server'.version = server.version
    <3>1. \/ server' = server
          \/ server' = [server EXCEPT !.edits = {}]
          \/ \E e \in request[b].copy.edits :
                server' = [server EXCEPT !.edits = @ \cup {e}]
      BY <1>2 DEF ClearChildren, InsertChild
    <3>2. server' \in Copy /\ server'.version = server.version
      BY <2>0, <3>1 DEF Copy
    <3> QED BY <3>2, SyncParameters DEF Copy
  <2>2. /\ UNCHANGED <<local, task, file, preview, saved, crashes>>
        /\ \A c \in Browsers : c # b => request'[c] = request[c]
        /\ request'[b].copy = request[b].copy
        /\ request'[b].remove = request[b].remove
        /\ \/ request'[b].at = "cleared"
           \/ /\ request'[b].at = "answered" /\ server' = server
              /\ server.edits = request[b].copy.edits
        /\ request' \in [Browsers -> [at : {"none", "sent", "row", "cleared",
                                            "answered", "failed"},
                                      copy : Copy \cup {None},
                                      remove : BOOLEAN]]
    BY <1>2 DEF ClearChildren, InsertChild, SyncTypeOK
  <2>3. SyncTypeOK'
    BY <2>1, <2>2 DEF SyncTypeOK
  <2>4. TasksAndRequests' /\ SpoolIsKept'
    BY <2>0, <2>1, <2>2, SyncParameters
       DEF TasksAndRequests, SpoolIsKept, Copy
  <2>5. \A c \in Browsers :
           c # b => /\ ~Served(c)
                    /\ request[c].at = "answered" =>
                          server.version > request[c].copy.version
    BY <2>0 DEF OneUploadAtATime
  <2>6. UploadsHaveRows'
    BY <2>0, <2>1, <2>2, <2>5 DEF UploadsHaveRows, Served
  <2>7. OneUploadAtATime'
    BY <2>1, <2>2, <2>5 DEF OneUploadAtATime, Served
  <2> QED BY <2>3, <2>4, <2>6, <2>7
<1>3. CASE Crash
  <2>1. \A c \in Browsers :
           /\ request'[c].at \in {"none", "failed"}
           /\ request'[c].copy = request[c].copy
           /\ request'[c].at # "none" => request[c].at # "none"
    BY <1>3 DEF Crash, SyncTypeOK
  <2>2. SyncTypeOK'
    <3>1. crashes' \in 0..MaxCrashes
      BY <1>3, SyncParameters DEF Crash, SyncTypeOK
    <3>2. \A c \in Browsers : request'[c] \in [at : {"none", "failed"},
                                               copy : Copy \cup {None},
                                               remove : BOOLEAN]
      BY <1>3 DEF Crash, SyncTypeOK
    <3>3. request' = [c \in Browsers |-> request'[c]]
      BY <1>3 DEF Crash
    <3>4. request' \in [Browsers -> [at : {"none", "sent", "row", "cleared",
                                          "answered", "failed"},
                                    copy : Copy \cup {None},
                                    remove : BOOLEAN]]
      BY <3>2, <3>3
    <3> QED BY <1>3, <3>1, <3>4 DEF Crash, SyncTypeOK
  <2>3. TasksAndRequests' /\ SpoolIsKept'
    BY <1>3, <2>1 DEF Crash, TasksAndRequests, SpoolIsKept
  <2>4. UploadsHaveRows' /\ OneUploadAtATime'
    BY <2>1 DEF UploadsHaveRows, OneUploadAtATime, Served
  <2> QED BY <2>2, <2>3, <2>4
<1> QED BY <1>1, <1>2, <1>3 DEF ServerNext

\* Every step keeps the inductive invariant.
LEMMA NextIInv == IInv /\ [Next]_vars => IInv'
<1>1. IInv /\ UNCHANGED vars => IInv'
  BY DEF vars, IInv, SyncTypeOK, TasksAndRequests, SpoolIsKept, Served,
         UploadsHaveRows, OneUploadAtATime
<1> QED BY <1>1, LocalKeepsIInv, PageKeepsIInv, ServerKeepsIInv DEF Next
-----------------------------------------------------------------------------
\* The inductive invariant holds in every reachable state.
THEOREM InvariantHolds == Spec => []IInv
BY InitIInv, NextIInv, PTL DEF Spec

\* Copies, tasks, requests and the server's row hold values of their types.
THEOREM TypeCorrect == Spec => []SyncTypeOK
BY InvariantHolds, PTL DEF IInv

\* A spool is never gone from everywhere, whatever is lost or crashes.
THEOREM SpoolIsNeverLost == Spec => []SpoolIsKept
BY InvariantHolds, PTL DEF IInv

\* An answered upload is on the server, or was overtaken by a newer version.
THEOREM AnswersAreTrue == Spec => []AnsweredIsStored
<1>1. IInv => AnsweredIsStored
  BY DEF IInv, UploadsHaveRows, AnsweredIsStored
<1> QED BY <1>1, InvariantHolds, PTL

\* Nothing of a spool vanishes: neither the spool, nor what an upload was answered for.
THEOREM SpoolsAreAlwaysSafe == Spec => []SpoolsAreSafe
BY SpoolIsNeverLost, AnswersAreTrue, PTL DEF SpoolsAreSafe
-----------------------------------------------------------------------------
(* What is left on the spools.                                             *)

\* A number above nothing is divided by one that is positive.
LEMMA QuotientIs ==
    ASSUME NEW a \in Nat, NEW b \in Nat \ {0}
    PROVE  a \div b \in Nat /\ b * (a \div b) <= a /\ a < b * (a \div b) + b
OBVIOUS

\* What the weights tell is a percentage, or nothing.
LEMMA DerivedIs ==
    ASSUME NEW w \in [Weights -> Int \cup {Null}]
    PROVE  Derived(w) \in 0..100 \cup {Null}
<1>1. CASE w["initial"] = Null \/ w["current"] = Null
  BY <1>1 DEF Derived
<1>2. CASE w["initial"] # Null /\ w["current"] # Null /\ w["initial"] <= 0
  BY <1>2 DEF Derived
<1>3. CASE w["initial"] # Null /\ w["current"] # Null /\ ~(w["initial"] <= 0)
  <2> DEFINE left == Larger(0, w.current - Or(w.tare, 0))
             i == w.initial
  <2>1. i \in Nat \ {0} /\ w.current \in Int /\ Or(w.tare, 0) \in Int
    BY <1>3, AmountParameters DEF Or, Weights
  <2>2. left \in Nat
    BY <2>1 DEF Larger
  <2>3. (200 * left + i) \div (2 * i) \in Nat
    <3> HIDE DEF i, left
    <3>1. 200 * left + i \in Nat /\ 2 * i \in Nat \ {0}
      BY <2>1, <2>2
    <3> QED BY <3>1, QuotientIs
  <2>4. Derived(w) = Smaller(100, (200 * left + i) \div (2 * i))
    BY <1>3 DEF Derived
  <2> QED BY <2>3, <2>4 DEF Smaller
<1> QED BY <1>1, <1>2, <1>3

\* A spool that weighs what it did at first, its reel aside, is full.
LEMMA WholeIsFull ==
    ASSUME NEW w \in [Weights -> Int \cup {Null}], w.current = w.initial, Or(w.tare, 0) = 0
    PROVE  Derived(w) \in {Null, 100}
<1>1. CASE w.initial = Null \/ w.initial <= 0
  BY <1>1 DEF Derived
<1>2. CASE w.initial # Null /\ ~(w.initial <= 0)
  <2> DEFINE i == w.initial
  <2>1. i \in Nat \ {0}
    BY <1>2 DEF Weights
  <2>2. Larger(0, i - 0) = i
    BY <2>1 DEF Larger
  <2>3. (200 * i + i) \div (2 * i) = 100
    <3> DEFINE q == (200 * i + i) \div (2 * i)
    <3>1. q \in Nat /\ (2 * i) * q <= 200 * i + i /\ 200 * i + i < (2 * i) * q + 2 * i
      <4> HIDE DEF i
      <4>1. 200 * i + i \in Nat /\ 2 * i \in Nat \ {0}
        BY <2>1
      <4> QED BY <4>1, QuotientIs
    <3> HIDE DEF q, i
    <3>2. ASSUME q <= 99 PROVE FALSE
      <4>1. i * q <= i * 99
        BY <2>1, <3>1, <3>2
      <4> QED BY <2>1, <3>1, <4>1
    <3>3. ASSUME q >= 101 PROVE FALSE
      <4>1. i * q >= i * 101
        BY <2>1, <3>1, <3>3
      <4> QED BY <2>1, <3>1, <4>1
    <3>4. q = 100
      BY <3>1, <3>2, <3>3
    <3> QED BY <3>4 DEF q
  <2>4. Derived(w) = Smaller(100, (200 * i + i) \div (2 * i))
    BY <1>2, <2>2 DEF Derived
  <2> QED BY <2>3, <2>4 DEF Smaller
<1> QED BY <1>1, <1>2

\* The percentage is that of the weights, or stands where they tell none; in a form
\* it may also have been emptied.
RowFits(row) == ~row.byHand => Derived(row.weight) \in {Null, row.percent}
ShownFits(row) == row.percent = Null \/ RowFits(row)

\* Spools, the form and the file are of their types, and the percentages fit.
AmountsHold ==
    /\ shelved \in [SpoolRows -> ShelfRows \cup {Absent}]
    /\ \A r \in SpoolRows : shelved[r] # Absent => RowFits(shelved[r])
    /\ editing # NoEditing =>
         /\ editing \in [of : SpoolRows \cup {NewRow}, shown : ShelfRows]
         /\ ShownFits(editing.shown)
    /\ backup # NoBackup =>
         backup \in [of : SpoolRows, row : ShelfRows] /\ RowFits(backup.row)

\* What a new spool starts from fits.
LEMMA NothingFits == Nothing \in ShelfRows /\ RowFits(Nothing)
BY DEF Nothing, ShelfRows, Weights, RowFits, Derived

\* What is there before a save fits.
LEMMA BeforeIs ==
    ASSUME AmountsHold, NEW r
    PROVE  Before(r) \in ShelfRows /\ RowFits(Before(r))
BY NothingFits DEF AmountsHold, Before

\* saveLocalSpool: of an input that fits what is stored does, whatever was there.
LEMMA StoredFits ==
    ASSUME NEW input \in ShelfRows, NEW before \in ShelfRows, ShownFits(input)
    PROVE  Stored(input, before) \in ShelfRows /\ RowFits(Stored(input, before))
<1> DEFINE weight == [k \in Weights |-> Or(input.weight[k], before.weight[k])]
           new == Stored(input, before)
<1>1. weight \in [Weights -> Int \cup {Null}]
  BY DEF ShelfRows, Or
<1>2. Derived(weight) \in 0..100 \cup {Null}
  BY <1>1, DerivedIs
<1>3. /\ new.weight = weight /\ new.version = before.version + 1
      /\ new.percent = Or(input.percent, Or(Derived(weight), before.percent))
      /\ new.byHand = (input.byHand \/ (input.percent # Null /\ weight # input.weight))
      /\ new = [weight |-> weight, percent |-> new.percent, version |-> before.version + 1,
                byHand |-> new.byHand]
  BY DEF Stored
<1> HIDE DEF weight, new
<1>4. new.percent \in 0..100 \cup {Null}
  BY <1>2, <1>3 DEF ShelfRows, Or
<1>5. new \in ShelfRows
  <2>1. new.byHand \in BOOLEAN
    BY <1>3, Zenon DEF ShelfRows
  <2>2. before.version + 1 \in Nat
    BY DEF ShelfRows
  <2> QED BY <1>1, <1>3, <1>4, <2>1, <2>2 DEF ShelfRows
<1>6. RowFits(new)
  <2>1. CASE input.percent = Null
    BY <1>3, <2>1 DEF RowFits, Or
  <2>2. CASE input.percent # Null
    BY <1>3, <2>2 DEF RowFits, ShownFits, Or
  <2> QED BY <2>1, <2>2
<1> QED BY <1>5, <1>6 DEF new

\* Saving one spool leaves all of them fitting.
LEMMA SavedRowFits ==
    ASSUME AmountsHold, NEW r \in SpoolRows, NEW input \in ShelfRows, ShownFits(input),
           SaveRow(r, input)
    PROVE  /\ shelved' \in [SpoolRows -> ShelfRows \cup {Absent}]
           /\ \A s \in SpoolRows : shelved'[s] # Absent => RowFits(shelved'[s])
<1>1. Stored(input, Before(r)) \in ShelfRows /\ RowFits(Stored(input, Before(r)))
  BY BeforeIs, StoredFits
<1> QED BY <1>1 DEF AmountsHold, SaveRow

\* At first there are no spools.
LEMMA AmountsStart == AmountsInit => AmountsHold
BY DEF AmountsInit, AmountsHold

\* setEditingAmount: the form fits after a weight was entered.
LEMMA WeighedFits ==
    ASSUME NEW shown \in ShelfRows, NEW k \in Weights, NEW v \in Int \cup {Null},
           ShownFits(shown)
    PROVE  Weighed(shown, k, v) \in ShelfRows /\ ShownFits(Weighed(shown, k, v))
<1> DEFINE weight == [shown.weight EXCEPT ![k] = v]
           new == Weighed(shown, k, v)
<1>1. weight \in [Weights -> Int \cup {Null}]
  BY DEF ShelfRows
<1>2. Derived(weight) \in 0..100 \cup {Null}
  BY <1>1, DerivedIs
<1> DEFINE hand == shown.byHand /\ Derived(weight) = Null
           percent == Or(Derived(weight), shown.percent)
<1>3. percent \in 0..100 \cup {Null} /\ hand \in BOOLEAN
  BY <1>2 DEF ShelfRows, Or
<1>4. new = [shown EXCEPT !.weight = weight, !.percent = percent, !.byHand = hand]
  BY Zenon DEF Weighed
<1> HIDE DEF weight, percent, hand, new
<1>5. /\ new \in ShelfRows
      /\ new.weight = weight /\ new.percent = percent /\ new.byHand = hand
  BY <1>1, <1>3, <1>4 DEF ShelfRows
<1>6. ShownFits(new)
  BY <1>5 DEF ShownFits, RowFits, Or, percent, hand
<1> QED BY <1>5, <1>6 DEF new

\* recordLocalSpoolUsage, for what was used or added.
LEMMA UsageKeeps ==
    ASSUME AmountsHold, NEW r \in SpoolRows, NEW dose \in Int, LogUsage(r, dose)
    PROVE  AmountsHold'
<1> DEFINE old == shelved[r]
           weight == [old.weight EXCEPT !.current =
                         Larger(Or(old.weight.tare, 0), @ + dose)]
           input == [old EXCEPT !.weight = weight, !.percent = Derived(weight),
                                !.byHand = @ /\ Derived(weight) = Null]
<1>1. old \in ShelfRows
  BY DEF AmountsHold, LogUsage
<1>2. weight \in [Weights -> Int \cup {Null}]
  <2>1. old.weight \in [Weights -> Int \cup {Null}] /\ "tare" \in Weights /\ "current" \in Weights
    BY <1>1 DEF ShelfRows, Weights
  <2>2. old.weight.current # Null
    BY DEF LogUsage
  <2>3. Larger(Or(old.weight.tare, 0), old.weight.current + dose) \in Int
    BY <2>1, <2>2 DEF Larger, Or
  <2> QED BY <2>1, <2>3
<1>3. Derived(weight) \in 0..100 \cup {Null}
  BY <1>2, DerivedIs
<1>4. SaveRow(r, input) /\ UNCHANGED <<editing, backup>>
  BY DEF LogUsage
<1> HIDE DEF weight
<1> DEFINE hand == old.byHand /\ Derived(weight) = Null
           percent == Derived(weight)
<1>5. /\ input \in ShelfRows
      /\ input.weight = weight /\ input.percent = percent /\ input.byHand = hand
  <2>1. hand \in BOOLEAN /\ percent \in 0..100 \cup {Null}
    BY <1>3
  <2>2. input = [old EXCEPT !.weight = weight, !.percent = percent, !.byHand = hand]
    BY Zenon
  <2> HIDE DEF input, old, hand, percent
  <2> QED BY <1>1, <1>2, <2>1, <2>2 DEF ShelfRows
<1>6. ShownFits(input)
  <2> HIDE DEF input, old
  <2> QED BY <1>5 DEF ShownFits, RowFits
<1> HIDE DEF input
<1>7. /\ shelved' \in [SpoolRows -> ShelfRows \cup {Absent}]
      /\ \A s \in SpoolRows : shelved'[s] # Absent => RowFits(shelved'[s])
  BY <1>4, <1>5, <1>6, SavedRowFits
<1> QED BY <1>4, <1>7 DEF AmountsHold

\* duplicateLocalSpool: the copy is full, or has a tare.
LEMMA DuplicateKeeps ==
    ASSUME AmountsHold, NEW r \in SpoolRows, Duplicate(r)
    PROVE  AmountsHold'
<1> DEFINE old == shelved[r]
           weight == [old.weight EXCEPT !.current = old.weight.initial]
           input == [weight |-> weight, percent |-> 100, version |-> 0,
                     byHand |-> Or(weight.tare, 0) # 0]
<1>1. old \in ShelfRows
  BY DEF AmountsHold, Duplicate
<1>2. /\ weight \in [Weights -> Int \cup {Null}]
      /\ weight.current = weight.initial
  <2>1. old.weight \in [Weights -> Int \cup {Null}] /\ "initial" \in Weights /\ "current" \in Weights
    BY <1>1 DEF ShelfRows, Weights
  <2> QED BY <2>1
<1>3. PICK s \in SpoolRows : SaveRow(s, input)
  BY DEF Duplicate
<1>4. UNCHANGED <<editing, backup>>
  BY DEF Duplicate
<1> HIDE DEF weight
<1>5. input \in ShelfRows /\ ShownFits(input)
  <2>1. input \in ShelfRows
    BY <1>2 DEF ShelfRows
  <2>2. Or(weight.tare, 0) = 0 => Derived(weight) \in {Null, 100}
    BY <1>2, WholeIsFull
  <2> QED BY <2>1, <2>2 DEF ShownFits, RowFits
<1> HIDE DEF input
<1>6. /\ shelved' \in [SpoolRows -> ShelfRows \cup {Absent}]
      /\ \A t \in SpoolRows : shelved'[t] # Absent => RowFits(shelved'[t])
  BY <1>3, <1>5, SavedRowFits
<1> QED BY <1>4, <1>6 DEF AmountsHold

\* Every step keeps the percentages fitting.
LEMMA AmountsStep == AmountsHold /\ [AmountsNext]_amountVars => AmountsHold'
<1> SUFFICES ASSUME AmountsHold, [AmountsNext]_amountVars PROVE AmountsHold'
  OBVIOUS
<1>1. ASSUME NEW r \in SpoolRows \cup {NewRow}, EditRow(r) PROVE AmountsHold'
  <2>1. Before(r) \in ShelfRows /\ ShownFits(Before(r))
    BY BeforeIs DEF ShownFits
  <2> QED BY <1>1, <2>1 DEF EditRow, AmountsHold
<1>2. CASE CloseForm
  BY <1>2 DEF CloseForm, AmountsHold
<1>3. CASE SaveForm
  <2>1. editing.shown \in ShelfRows /\ ShownFits(editing.shown)
    BY <1>3 DEF SaveForm, AmountsHold
  <2>2. PICK r \in SpoolRows : SaveRow(r, editing.shown)
    BY <1>3 DEF SaveForm, AmountsHold
  <2>3. /\ shelved' \in [SpoolRows -> ShelfRows \cup {Absent}]
        /\ \A s \in SpoolRows : shelved'[s] # Absent => RowFits(shelved'[s])
    BY <2>1, <2>2, SavedRowFits
  <2> QED BY <1>3, <2>3 DEF SaveForm, AmountsHold
<1>4. ASSUME NEW k \in Weights, NEW v \in Weighings[k] \cup {Null}, EnterWeight(k, v)
      PROVE  AmountsHold'
  <2>1. v \in Int \cup {Null}
    BY AmountParameters DEF Weights
  <2>2. editing \in [of : SpoolRows \cup {NewRow}, shown : ShelfRows]
        /\ ShownFits(editing.shown)
    BY <1>4 DEF EnterWeight, AmountsHold
  <2>3. Weighed(editing.shown, k, v) \in ShelfRows
        /\ ShownFits(Weighed(editing.shown, k, v))
    BY <2>1, <2>2, WeighedFits
  <2>4. editing' = [editing EXCEPT !.shown = Weighed(editing.shown, k, v)]
        /\ UNCHANGED <<shelved, backup>>
    BY <1>4 DEF EnterWeight
  <2> QED BY <2>2, <2>3, <2>4 DEF AmountsHold
<1>5. ASSUME NEW p \in Percents \cup {Null}, EnterPercent(p) PROVE AmountsHold'
  <2>1. editing \in [of : SpoolRows \cup {NewRow}, shown : ShelfRows]
    BY <1>5 DEF EnterPercent, AmountsHold
  <2>2. editing' = [editing EXCEPT !.shown = [editing.shown EXCEPT !.percent = p,
                                                                  !.byHand = p # Null]]
    BY <1>5, <2>1 DEF EnterPercent, ShelfRows
  <2>3. editing'.shown \in ShelfRows /\ ShownFits(editing'.shown)
    BY <2>1, <2>2, AmountParameters DEF ShelfRows, ShownFits, RowFits
  <2>4. editing' \in [of : SpoolRows \cup {NewRow}, shown : ShelfRows]
    BY <2>1, <2>2, <2>3
  <2> QED BY <1>5, <2>3, <2>4 DEF EnterPercent, AmountsHold
<1>6. ASSUME NEW r \in SpoolRows, NEW d \in Doses, LogUsage(r, d) \/ LogUsage(r, -d)
      PROVE  AmountsHold'
  <2>1. d \in Int /\ -d \in Int
    BY AmountParameters
  <2> QED BY <1>6, <2>1, UsageKeeps
<1>7. ASSUME NEW r \in SpoolRows, ToggleArchived(r) PROVE AmountsHold'
  <2>1. shelved[r] \in ShelfRows /\ ShownFits(shelved[r])
    BY <1>7 DEF ToggleArchived, AmountsHold, ShownFits
  <2>2. /\ shelved' \in [SpoolRows -> ShelfRows \cup {Absent}]
        /\ \A s \in SpoolRows : shelved'[s] # Absent => RowFits(shelved'[s])
    BY <1>7, <2>1, SavedRowFits DEF ToggleArchived
  <2> QED BY <1>7, <2>2 DEF ToggleArchived, AmountsHold
<1>8. ASSUME NEW r \in SpoolRows, Delete(r) PROVE AmountsHold'
  BY <1>8 DEF Delete, AmountsHold
<1>9. ASSUME NEW r \in SpoolRows, ExportRow(r) PROVE AmountsHold'
  BY <1>9 DEF ExportRow, AmountsHold
<1>10. CASE ImportBackup
  <2>1. backup.of \in SpoolRows /\ backup.row \in ShelfRows /\ ShownFits(backup.row)
    BY <1>10 DEF ImportBackup, AmountsHold, ShownFits
  <2>2. /\ shelved' \in [SpoolRows -> ShelfRows \cup {Absent}]
        /\ \A s \in SpoolRows : shelved'[s] # Absent => RowFits(shelved'[s])
    BY <1>10, <2>1, SavedRowFits DEF ImportBackup
  <2> QED BY <1>10, <2>2 DEF ImportBackup, AmountsHold
<1>11. CASE UNCHANGED amountVars
  BY <1>11 DEF amountVars, AmountsHold
<1> QED BY <1>1, <1>2, <1>3, <1>4, <1>5, <1>6, <1>7, <1>8, <1>9, <1>10, <1>11,
           DuplicateKeeps DEF AmountsNext

\* One browser holds the spool and keeps it; one write at a time, of what the copy
\* holds and more; and nothing in the file is newer.
TabHolds ==
    /\ \A b \in Browsers : ~request[b].remove
    /\ \A t \in Tasks : task[t].at # "idle" =>
         \A u \in Tasks \ {t} : task[u].at = "idle"
    /\ \E h \in Browsers :
         /\ local[h] # None /\ saved \subseteq local[h].edits
         /\ \A b \in Browsers \ {h} : local[b] = None
         /\ file # None => file.version <= local[h].version
         /\ \A t \in Tasks : task[t].at # "idle" =>
              /\ task[t].browser = h /\ local[h].edits \subseteq task[t].edits
              /\ task[t].at = "put" => task[t].version > local[h].version

\* At first nothing is logged, and one browser holds the spool.
LEMMA TabStarts == Init => TabHolds
<1> SUFFICES ASSUME Init PROVE TabHolds
  OBVIOUS
<1>1. PICK owner \in Browsers :
         local = [b \in Browsers |-> IF b = owner
                                     THEN [edits |-> {}, version |-> 1]
                                     ELSE None]
  BY DEF Init
<1>2. [edits |-> {}, version |-> 1] \in [edits : SUBSET Edits, version : Nat]
  OBVIOUS
<1>3. local[owner] # None /\ \A b \in Browsers \ {owner} : local[b] = None
  BY <1>1, <1>2, SyncParameters
<1>4. saved = {} /\ file = None /\ \A t \in Tasks : task[t].at = "idle"
  BY DEF Init, IdleTask
<1>5. \A b \in Browsers : ~request[b].remove
  BY DEF Init, NoRequest
<1> QED BY <1>3, <1>4, <1>5 DEF TabHolds

\* A tab that only keeps its copy goes on so.
LEMMA TabStep ==
    ASSUME IInv, TabHolds, Next, OneTab
    PROVE  TabHolds'
<1>1. PICK h \in Browsers :
         /\ local[h] # None /\ saved \subseteq local[h].edits
         /\ \A b \in Browsers \ {h} : local[b] = None
         /\ file # None => file.version <= local[h].version
         /\ \A t \in Tasks : task[t].at # "idle" =>
              /\ task[t].browser = h /\ local[h].edits \subseteq task[t].edits
              /\ task[t].at = "put" => task[t].version > local[h].version
  BY DEF TabHolds
<1>2. SyncTypeOK /\ TasksAndRequests /\ local[h] \in Copy
  BY <1>1 DEF IInv, SyncTypeOK
<1>3. /\ \A b \in Browsers : ~request'[b].remove
      /\ \A t \in Tasks : task'[t].at # "idle" =>
           /\ local[task'[t].browser] # None
           /\ \A u \in Tasks \ {t} : task'[u].at = "idle"
  BY DEF OneTab
<1> DEFINE Holds ==
         /\ local'[h] # None /\ saved' \subseteq local'[h].edits
         /\ \A b \in Browsers \ {h} : local'[b] = None
         /\ file' # None => file'.version <= local'[h].version
         /\ \A t \in Tasks : task'[t].at # "idle" =>
              /\ task'[t].browser = h /\ local'[h].edits \subseteq task'[t].edits
              /\ task'[t].at = "put" => task'[t].version > local'[h].version
<1>4. SUFFICES Holds
  BY <1>3 DEF TabHolds
<1>5. ASSUME NEW t \in Tasks, NEW b \in Browsers, NEW e \in Edits, BeginUsage(t, b, e)
      PROVE  Holds
  <2>1. b = h
    BY <1>1, <1>5 DEF BeginUsage
  <2>2. /\ task' = [task EXCEPT ![t] = [at |-> "read", browser |-> b,
                                       edits |-> local[b].edits \cup {e}, version |-> 0]]
        /\ UNCHANGED <<local, file, saved>>
    BY <1>5 DEF BeginUsage
  <2> QED BY <1>1, <1>2, <2>1, <2>2 DEF SyncTypeOK
<1>6. ASSUME NEW t \in Tasks, NEW b \in Browsers, BeginImport(t, b)
      PROVE  FALSE
  <2>1. task'[t].at = "read" /\ task'[t].browser = b
    BY <1>2, <1>6 DEF BeginImport, SyncTypeOK
  <2>2. b = h
    BY <1>1, <1>3, <2>1
  <2> QED BY <1>1, <1>2, <1>6, <2>2 DEF BeginImport, SkipsImport, SyncTypeOK, Copy
<1>7. ASSUME NEW t \in Tasks, NEW b \in Browsers, OpenForm(t, b)
      PROVE  Holds
  <2>1. b = h
    BY <1>1, <1>7 DEF OpenForm
  <2>2. /\ task' = [task EXCEPT ![t] = [at |-> "form", browser |-> b,
                                       edits |-> local[b].edits, version |-> 0]]
        /\ UNCHANGED <<local, file, saved>>
    BY <1>7 DEF OpenForm
  <2> QED BY <1>1, <1>2, <2>1, <2>2 DEF SyncTypeOK
<1>8. ASSUME NEW t \in Tasks, CancelForm(t) PROVE Holds
  BY <1>1, <1>2, <1>8 DEF CancelForm, SyncTypeOK, IdleTask
<1>9. ASSUME NEW t \in Tasks, SubmitForm(t) PROVE Holds
  BY <1>1, <1>2, <1>9 DEF SubmitForm, SyncTypeOK
<1>10. ASSUME NEW t \in Tasks, ReadVersion(t) PROVE Holds
  <2>1. task[t].browser = h /\ Version(local[h]) = local[h].version /\ local[h].version \in Nat
    BY <1>1, <1>2, <1>10 DEF ReadVersion, Version, Copy
  <2>2. /\ task' = [task EXCEPT ![t].at = "put", ![t].version = local[h].version + 1]
        /\ UNCHANGED <<local, file, saved>>
    BY <1>10, <2>1 DEF ReadVersion
  <2>3. /\ \A u \in Tasks : task'[u].browser = task[u].browser /\ task'[u].edits = task[u].edits
        /\ \A u \in Tasks \ {t} : task'[u] = task[u]
        /\ task'[t].version = local[h].version + 1
    BY <1>2, <2>2 DEF SyncTypeOK
  <2>4. task[t].at # "idle"
    BY <1>10 DEF ReadVersion
  <2>5. ASSUME NEW u \in Tasks, task'[u].at # "idle"
        PROVE  /\ task'[u].browser = h /\ local[h].edits \subseteq task'[u].edits
               /\ task'[u].at = "put" => task'[u].version > local[h].version
    BY <1>1, <2>1, <2>3, <2>4, <2>5
  <2> QED BY <1>1, <2>2, <2>5
<1>11. ASSUME NEW t \in Tasks, Put(t) PROVE Holds
  <2> DEFINE new == [edits |-> task[t].edits, version |-> task[t].version]
  <2>1. /\ task[t].browser = h /\ local[h].edits \subseteq task[t].edits
        /\ task[t].version > local[h].version
        /\ \A u \in Tasks \ {t} : task[u].at = "idle"
    BY <1>1, <1>11 DEF Put, TabHolds
  <2>2. /\ local' = [local EXCEPT ![h] = new] /\ UNCHANGED file
        /\ saved' = saved \cup task[t].edits /\ task' = [task EXCEPT ![t] = IdleTask]
    BY <1>11, <2>1 DEF Put
  <2>3. new \in Copy /\ new # None
    BY <1>2, SyncParameters DEF SyncTypeOK, Copy
  <2>4. local'[h] = new /\ \A b \in Browsers \ {h} : local'[b] = local[b]
    BY <1>2, <2>2 DEF SyncTypeOK
  <2>5. \A u \in Tasks : task'[u].at = "idle"
    BY <1>2, <2>1, <2>2 DEF SyncTypeOK, IdleTask
  <2>6. file' # None => file'.version <= new.version
    <3>1. file # None => file.version \in Nat
      BY <1>2 DEF SyncTypeOK, Copy
    <3> QED BY <1>1, <1>2, <2>1, <2>2, <2>3, <3>1 DEF Copy
  <2> QED BY <1>1, <2>1, <2>2, <2>3, <2>4, <2>5, <2>6
<1>12. ASSUME NEW b \in Browsers, Export(b) PROVE Holds
  <2>1. b = h
    BY <1>1, <1>12 DEF Export
  <2>2. local[h].version <= local[h].version
    BY <1>2 DEF Copy
  <2> QED BY <1>1, <1>12, <2>1, <2>2 DEF Export
<1>13. ASSUME NEW b \in Browsers, EndSync(b) PROVE Holds
  <2>1. local' = local
    BY <1>2, <1>13 DEF EndSync, SyncTypeOK, TabHolds
  <2> QED BY <1>1, <1>13, <2>1 DEF EndSync
<1>14. ASSUME UNCHANGED <<local, task, file, saved>> PROVE Holds
  BY <1>1, <1>14
<1>15. ASSUME NEW b \in Browsers, NEW remove \in Removals,
              \/ Preview(b) \/ CancelPreview(b) \/ ConfirmSync(b, remove)
              \/ FailRequest(b) \/ AbandonSync(b)
       PROVE  UNCHANGED <<local, task, file, saved>>
  BY <1>15 DEF Preview, CancelPreview, ConfirmSync, FailRequest, AbandonSync
<1>16. ASSUME NEW b \in Browsers, FailRequest(b) \/ AbandonSync(b) \/ Preview(b) \/ CancelPreview(b)
       PROVE  UNCHANGED <<local, task, file, saved>>
  BY <1>16 DEF FailRequest, AbandonSync, Preview, CancelPreview
<1>17. ASSUME ServerNext PROVE UNCHANGED <<local, task, file, saved>>
  BY <1>17 DEF ServerNext, UpsertRow, ClearChildren, InsertChild, Crash
<1> HIDE DEF Holds
<1>18. CASE LocalNext
  BY <1>5, <1>6, <1>7, <1>8, <1>9, <1>10, <1>11, <1>12, <1>18 DEF LocalNext, Tasks
<1>19. CASE PageNext
  BY <1>13, <1>14, <1>15, <1>16, <1>19 DEF PageNext
<1> QED BY <1>14, <1>17, <1>18, <1>19 DEF Next
-----------------------------------------------------------------------------
\* What holds in every part of the pages.
PagesHold == IInv /\ AmountsHold /\ (part = "one tab" => TabHolds)

\* It holds at first.
LEMMA PagesStart == PagesInit => PagesHold
BY InitIInv, TabStarts, AmountsStart DEF PagesInit, PagesHold

\* It stays, each part leaving alone what is of the others.
LEMMA PagesStep == PagesHold /\ [PagesNext]_pageVars => PagesHold'
<1> SUFFICES ASSUME PagesHold, [PagesNext]_pageVars PROVE PagesHold'
  OBVIOUS
<1>1. [Next]_vars /\ [AmountsNext]_amountVars /\ UNCHANGED part
  BY DEF PagesNext, pageVars
<1>2. IInv' /\ AmountsHold'
  BY <1>1, NextIInv, AmountsStep DEF PagesHold
<1>3. ASSUME part = "one tab" PROVE TabHolds'
  <2>1. (Next /\ OneTab) \/ UNCHANGED vars
    BY <1>3 DEF PagesNext, pageVars
  <2>2. ASSUME UNCHANGED vars PROVE TabHolds'
    BY <1>3, <2>2 DEF PagesHold, TabHolds, vars
  <2> QED BY <1>3, <2>1, <2>2, TabStep DEF PagesHold
<1> QED BY <1>1, <1>2, <1>3 DEF PagesHold

\* The percentage a list shows is that of the weights but for what was typed or saved
\* over, whatever forms, logged usage, copies and imports did; and a tab that does one
\* thing at a time and keeps its copy loses no usage it has reported as logged.
THEOREM AmountsAreAlwaysSound == PagesSpec => []AmountsAreSound
<1>1. PagesHold => AmountsAreSound
  <2>1. TabHolds => LoggedUsageIsKept
    BY DEF TabHolds, LoggedUsageIsKept
  <2>2. AmountsHold => PercentFits
    BY DEF AmountsHold, PercentFits, RowFits
  <2> QED BY <2>1, <2>2 DEF PagesHold, AmountsAreSound, LoggedInOneTabIsKept
<1> QED BY <1>1, PagesStart, PagesStep, PTL DEF PagesSpec
-----------------------------------------------------------------------------
(* The exported file, and the submitted profile.                           *)

\* A sequence without one of its members.
LEMMA RemovedIs ==
  ASSUME NEW S, NEW s \in Seq(S), NEW i \in 1..Len(s)
  PROVE  /\ RemoveAt(s, i) \in Seq(S) /\ Len(RemoveAt(s, i)) = Len(s) - 1
         /\ \A j \in 1..(Len(s) - 1) : RemoveAt(s, i)[j] = IF j < i THEN s[j] ELSE s[j + 1]
  <1>1. Len(s) \in Nat
    OBVIOUS
  <1> DEFINE p == SubSeq(s, 1, i - 1)
             q == SubSeq(s, i + 1, Len(s))
  <1>2. p \in Seq(S) /\ Len(p) = i - 1 /\ \A j \in 1..(i - 1) : p[j] = s[j]
    BY <1>1
  <1>3. /\ q \in Seq(S) /\ Len(q) = Len(s) - i
        /\ \A j \in 1..(Len(s) - i) : q[j] = s[i + j]
    BY <1>1
  <1> HIDE DEF p, q
  <1>4. /\ p \o q \in Seq(S) /\ Len(p \o q) = Len(p) + Len(q)
        /\ \A j \in 1..(Len(p) + Len(q)) : (p \o q)[j] = IF j <= Len(p) THEN p[j] ELSE q[j - Len(p)]
    BY <1>2, <1>3, ConcatProperties
  <1>5. RemoveAt(s, i) = p \o q
    BY DEF RemoveAt, p, q
  <1>6. ASSUME NEW j \in 1..(Len(s) - 1) PROVE (p \o q)[j] = IF j < i THEN s[j] ELSE s[j + 1]
    <2>1. CASE j < i
      BY <2>1, <1>1, <1>2, <1>3, <1>4
    <2>2. CASE ~(j < i)
      <3>1. (p \o q)[j] = q[j - (i - 1)] /\ j - (i - 1) \in 1..(Len(s) - i)
        BY <2>2, <1>1, <1>2, <1>3, <1>4
      <3>2. q[j - (i - 1)] = s[i + (j - (i - 1))]
        BY <3>1, <1>3
      <3>3. i + (j - (i - 1)) = j + 1 /\ ~(j < i)
        BY <2>2, <1>1
      <3> QED
        BY <3>1, <3>2, <3>3
    <2> QED
      BY <2>1, <2>2
  <1>7. Len(p \o q) = Len(s) - 1
    BY <1>1, <1>2, <1>3, <1>4
  <1> QED
    BY <1>4, <1>5, <1>6, <1>7

\* Without a request beside it, each step of the page goes with what it shows.
DeskIsOrderly ==
    ~hurried =>
        /\ kept # Unsaved => kept.text = kept.named.format /\ kept.as = kept.named.format
        /\ payload # NoAnswer => payload.format = format
        /\ downloaded /\ payload # NoAnswer => kept # Unsaved /\ kept.named = payload
        /\ dialogue # NoAnswer => dialogue.of = payload /\ dialogue.as = format
        /\ pending # << >> => /\ payload = NoAnswer /\ ~downloaded /\ dialogue = NoAnswer
                              /\ Len(pending) = 1 /\ pending[1].format = format

ExportIInv == ExportTypeOK /\ DeskIsOrderly

LEMMA ExportInitIsSound == ExportInit => ExportIInv
  <1> SUFFICES ASSUME ExportInit PROVE ExportIInv
      OBVIOUS
  <1>1. << >> \in Seq(ExportRequests)
    OBVIOUS
  <1>2. ExportTypeOK
    BY <1>1 DEF ExportInit, ExportTypeOK
  <1>3. DeskIsOrderly
    BY DEF ExportInit, DeskIsOrderly
  <1> QED
    BY <1>2, <1>3 DEF ExportIInv

\* A file is made of an answer in its own format; as no other is it asked for.
LEMMA FileIs ==
  ASSUME NEW a \in Answers, NEW f \in Formats
  PROVE  /\ FileOf(a, f) \in [named : Answers, as : Formats, text : Contents]
         /\ FileOf(a, f) # Unsaved /\ FileOf(a, f).named = a /\ FileOf(a, f).as = f
         /\ f = a.format => FileOf(a, f).text = f
  <1>1. FileContents(a, f) \in Contents /\ (f = a.format => FileContents(a, f) = f)
    BY DEF FileContents, Contents, Answers
  <1>2. FileOf(a, f) \in [named : Answers, as : Formats, text : Contents]
    BY <1>1 DEF FileOf
  <1> QED
    BY <1>1, <1>2, ExportParameters DEF FileOf

LEMMA ExportStepIsSound == ExportIInv /\ [ExportNext]_exportVars => ExportIInv'
  <1> SUFFICES ASSUME ExportIInv, [ExportNext]_exportVars PROVE ExportIInv'
      OBVIOUS
  <1>1. ASSUME NEW f \in Formats, ChooseFormat(f) PROVE ExportIInv'
    BY <1>1 DEF ChooseFormat, AtHand, Hurry, Withdrawn, ExportIInv, ExportTypeOK, DeskIsOrderly
  <1>2. ASSUME NEW d \in Documents \cup {NoDocument}, ChooseDocument(d) PROVE ExportIInv'
    BY <1>2 DEF ChooseDocument, AtHand, Hurry, ExportIInv, ExportTypeOK, DeskIsOrderly
  <1>3. CASE Submit
    <2>1. PICK r : r = [format |-> format, document |-> document]
      OBVIOUS
    <2>2. pending' = IF document = NoDocument THEN pending ELSE Append(pending, r)
      BY <1>3, <2>1 DEF Submit
    <2>3. document # NoDocument => r \in ExportRequests
      BY <2>1 DEF ExportIInv, ExportTypeOK, ExportRequests
    <2>4. pending' \in Seq(ExportRequests)
      BY <2>2, <2>3 DEF ExportIInv, ExportTypeOK
    <2>5. ExportTypeOK'
      BY <1>3, <2>4 DEF Submit, Hurry, ExportIInv, ExportTypeOK
    <2>6. ~hurried' => pending = << >>
      BY <1>3 DEF Submit, Hurry
    <2>7. ~hurried' /\ pending' # << >> => Len(pending') = 1 /\ pending'[1] = r
      BY <2>2, <2>6
    <2>8. /\ dialogue = NoAnswer /\ payload' = NoAnswer /\ downloaded' = FALSE
          /\ UNCHANGED <<format, document, dialogue, kept>> /\ (~hurried' => ~hurried)
          /\ r.format = format
      BY <1>3, <2>1 DEF Submit, AtHand, Hurry
    <2>9. DeskIsOrderly'
      BY <2>7, <2>8 DEF ExportIInv, DeskIsOrderly
    <2> QED
      BY <2>5, <2>9 DEF ExportIInv
  <1>4. CASE DownloadProfile
    <2>1. payload \in Answers /\ format \in Formats /\ kept' = FileOf(payload, format)
      BY <1>4 DEF DownloadProfile, ExportIInv, ExportTypeOK
    <2> QED
      BY <1>4, <2>1, FileIs DEF DownloadProfile, AtHand, ExportIInv, ExportTypeOK, DeskIsOrderly
  <1>5. CASE OpenDialogue
    <2>1. payload \in Answers /\ format \in Formats /\ dialogue' = [of |-> payload, as |-> format]
      BY <1>5 DEF OpenDialogue, ExportIInv, ExportTypeOK
    <2> QED
      BY <1>5, <2>1 DEF OpenDialogue, AtHand, ExportIInv, ExportTypeOK, DeskIsOrderly
  <1>6. CASE CloseDialogue
    <2>1. dialogue.of \in Answers /\ dialogue.as \in Formats /\ dialogue # NoAnswer
      BY <1>6 DEF CloseDialogue, AtHand, ExportIInv, ExportTypeOK
    <2>2. PICK a \in Answers, f \in Formats : a = dialogue.of /\ f = dialogue.as
      BY <2>1
    <2>3. /\ dialogue' = NoAnswer /\ UNCHANGED <<format, document, payload, pending, hurried>>
          /\ \/ kept' = FileOf(a, f) /\ downloaded' = TRUE
             \/ UNCHANGED <<kept, downloaded>>
      BY <1>6, <2>2 DEF CloseDialogue
    <2>4. ~hurried => a = payload /\ f = format /\ (payload # NoAnswer => payload.format = format)
      BY <2>1, <2>2 DEF ExportIInv, DeskIsOrderly
    <2>5. payload # NoAnswer \/ hurried
      BY <2>1, <2>4, ExportParameters
    <2>6. ExportTypeOK'
      BY <2>3, FileIs DEF ExportIInv, ExportTypeOK
    <2>7. CASE kept' = FileOf(a, f) /\ downloaded' = TRUE
      BY <2>1, <2>3, <2>4, <2>5, <2>6, <2>7, FileIs DEF ExportIInv, DeskIsOrderly
    <2>8. CASE UNCHANGED <<kept, downloaded>>
      BY <2>3, <2>6, <2>8 DEF ExportIInv, DeskIsOrderly
    <2> QED
      BY <2>3, <2>6, <2>7, <2>8 DEF ExportIInv
  <1>7. CASE ChooseAnother
    BY <1>7 DEF ChooseAnother, AtHand, Withdrawn, ExportIInv, ExportTypeOK, DeskIsOrderly
  <1>8. ASSUME NEW i \in DOMAIN pending, Arrives(i) PROVE ExportIInv'
    <2>1. /\ pending \in Seq(ExportRequests) /\ i \in 1..Len(pending)
          /\ pending' = RemoveAt(pending, i)
          /\ payload' = payload \/ (payload' = pending[i] /\ pending[i].document \in Existing)
          /\ UNCHANGED <<format, document, downloaded, dialogue, kept, hurried>>
      <3>1. pending \in Seq(ExportRequests)
        BY DEF ExportIInv, ExportTypeOK
      <3>2. i \in 1..Len(pending)
        BY <3>1
      <3> QED
        BY <1>8, <3>1, <3>2 DEF Arrives
    <2>2. /\ pending' \in Seq(ExportRequests)
          /\ Len(pending') = Len(pending) - 1
      BY <2>1, RemovedIs
    <2>3. payload' \in Answers \cup {NoAnswer}
      <3>1. pending[i] \in ExportRequests
        BY <2>1
      <3>2. pending[i].document \in Existing => pending[i] \in Answers
        BY <3>1 DEF ExportRequests, Answers
      <3> QED
        BY <2>1, <3>2 DEF ExportIInv, ExportTypeOK
    <2>4. ASSUME ~hurried PROVE pending' = << >> /\ (payload' = payload \/ payload' = pending[1])
      BY <2>1, <2>2, <2>4 DEF ExportIInv, DeskIsOrderly
    <2>5. DeskIsOrderly'
      BY <2>1, <2>4 DEF ExportIInv, DeskIsOrderly
    <2> QED
      BY <2>1, <2>2, <2>3, <2>5 DEF ExportIInv, ExportTypeOK
  <1>9. CASE UNCHANGED exportVars
    BY <1>9 DEF exportVars, ExportIInv, ExportTypeOK, DeskIsOrderly
  <1> QED
    BY <1>1, <1>2, <1>3, <1>4, <1>5, <1>6, <1>7, <1>8, <1>9 DEF ExportNext

\* For any formats and profiles: while nobody acts beside a request, a saved file is what
\* its name and type say, and the page offers an answer of the chosen format.
THEOREM FilesAreAlwaysAsNamed == ExportSpec => []FilesAreAsNamed
  <1>1. ExportIInv => FilesAreAsNamed
    BY DEF ExportIInv, DeskIsOrderly, FilesAreAsNamed
  <1> QED
    BY <1>1, ExportInitIsSound, ExportStepIsSound, PTL DEF ExportSpec

-----------------------------------------------------------------------------
(* What visitors send.                                                     *)

SentBy(v) == {p \in Visitors : stage[p].at = "profile" /\ stage[p].variant = v}

\* Each page that is about to send a profile has an acceptance of its own.
TermsCover ==
    /\ stage = [p \in Visitors |-> stage[p]]
    /\ \A p \in Visitors : stage[p] = [at |-> stage[p].at, variant |-> stage[p].variant]
    /\ acceptances \in [Chosen -> Nat] /\ submitted \in [Chosen -> Nat]
    /\ \A v \in Chosen : submitted[v] + Cardinality(SentBy(v)) <= acceptances[v]

\* The array holds what the last hour let through, and that is all it counts.
HitsAreRecent ==
    /\ time \in Nat /\ IsFiniteSet(through)
    /\ communityHits \subseteq through /\ Within(time) \subseteq communityHits
    /\ \A h \in through : h.at \in 0..time
    /\ turnedAway \subseteq 0..time

\* What is chosen, and what was when the button was pressed.
VariantsAreChosen ==
    sheet \in [Visitors -> Chosen] /\ \A p \in Visitors : stage[p].variant \in Chosen

SubmitIInv == TermsCover /\ VariantsAreChosen /\ HitsAreRecent /\ ShareIsExact

LEMMA SubmitInitIsSound == SubmitInit => SubmitIInv
  <1> SUFFICES ASSUME SubmitInit PROVE SubmitIInv
      OBVIOUS
  <1>1. TermsCover
    <2>1. \A v \in Chosen : SentBy(v) = {}
      BY DEF SubmitInit, SentBy
    <2>2. \A v \in Chosen : Cardinality(SentBy(v)) = 0
      BY <2>1, FS_EmptySet
    <2>3. \A v \in Chosen : submitted[v] = 0 /\ acceptances[v] = 0
      BY DEF SubmitInit
    <2>4. /\ stage = [p \in Visitors |-> stage[p]]
          /\ \A p \in Visitors : stage[p] = [at |-> stage[p].at, variant |-> stage[p].variant]
          /\ acceptances \in [Chosen -> Nat] /\ submitted \in [Chosen -> Nat]
      BY DEF SubmitInit
    <2> QED
      BY <2>2, <2>3, <2>4 DEF TermsCover
  <1>2. \A t : Within(t) = {}
    BY DEF SubmitInit, Within
  <1>3. HitsAreRecent
    BY <1>2, FS_EmptySet DEF SubmitInit, HitsAreRecent
  <1>4. \A t : Cardinality(Within(t)) = 0
    BY <1>2, FS_EmptySet
  <1>5. ShareIsExact
    BY <1>4, SubmitParameters DEF SubmitInit, ShareIsExact
  <1>6. VariantsAreChosen
    BY DEF SubmitInit, VariantsAreChosen
  <1> QED
    BY <1>1, <1>3, <1>5, <1>6 DEF SubmitIInv

\* What is recent was let through within the hour.
LEMMA RecentIs == HitsAreRecent => Recent = Within(time)
  BY DEF HitsAreRecent, Recent, Within

\* Pages that leave before they send take no acceptance along.
LEMMA FewerSend ==
  ASSUME TermsCover, stage' = [p \in Visitors |-> stage'[p]],
         \A p \in Visitors : stage'[p] = [at |-> stage'[p].at, variant |-> stage'[p].variant],
         \A v \in Chosen : SentBy(v)' \subseteq SentBy(v), UNCHANGED <<acceptances, submitted>>
  PROVE  TermsCover'
  <1> SUFFICES ASSUME NEW v \in Chosen
               PROVE  submitted'[v] + Cardinality(SentBy(v)') <= acceptances'[v]
    BY DEF TermsCover
  <1>1. IsFiniteSet(SentBy(v))
    BY SubmitParameters, FS_Subset DEF SentBy
  <1>2. /\ Cardinality(SentBy(v)') <= Cardinality(SentBy(v))
        /\ Cardinality(SentBy(v)') \in Nat /\ Cardinality(SentBy(v)) \in Nat
    BY <1>1, FS_Subset, FS_CardinalityType
  <1>3. submitted[v] \in Nat /\ acceptances[v] \in Nat
        /\ submitted[v] + Cardinality(SentBy(v)) <= acceptances[v]
    BY DEF TermsCover
  <1> QED
    BY <1>2, <1>3

LEMMA OnePageGoes ==
  ASSUME TermsCover, NEW p \in Visitors, NEW at, Goes(p, at)
  PROVE  /\ stage' = [q \in Visitors |-> stage'[q]]
         /\ \A q \in Visitors : stage'[q] = [at |-> stage'[q].at, variant |-> stage'[q].variant]
         /\ stage'[p].at = at /\ stage'[p].variant = stage[p].variant
         /\ \A q \in Visitors \ {p} : stage'[q] = stage[q]
  BY DEF TermsCover, Goes

\* A page that does not come to send takes no acceptance.
LEMMA GoesElsewhere ==
  ASSUME TermsCover, NEW p \in Visitors, NEW at, at # "profile", Goes(p, at),
         UNCHANGED <<acceptances, submitted>>
  PROVE  TermsCover'
  <1>1. \A v \in Chosen : SentBy(v)' \subseteq SentBy(v)
    BY OnePageGoes DEF SentBy
  <1> QED
    BY <1>1, OnePageGoes, FewerSend

LEMMA RecordTermsIsSound ==
  ASSUME TermsCover, NEW p \in Visitors, stage[p].variant \in Chosen, RecordTerms(p)
  PROVE  TermsCover'
  <1>1. PICK at \in {"profile", "form"} : Goes(p, at)
    BY DEF RecordTerms, AnsweredOrLost
  <1>2. PICK u \in Chosen : u = stage[p].variant
    OBVIOUS
  <1>3. acceptances' = [acceptances EXCEPT ![u] = @ + 1] /\ UNCHANGED submitted
    BY <1>2 DEF RecordTerms
  <1>4. acceptances' \in [Chosen -> Nat]
    BY <1>3 DEF TermsCover
  <1>5. ASSUME NEW v \in Chosen
        PROVE  submitted'[v] + Cardinality(SentBy(v)') <= acceptances'[v]
    <2>1. IsFiniteSet(SentBy(v)) /\ Cardinality(SentBy(v)) \in Nat
      BY SubmitParameters, FS_Subset, FS_CardinalityType DEF SentBy
    <2>2. /\ submitted[v] \in Nat /\ acceptances[v] \in Nat
          /\ submitted[v] + Cardinality(SentBy(v)) <= acceptances[v]
      BY DEF TermsCover
    <2>3. CASE v = u
      <3>1. SentBy(v)' \subseteq SentBy(v) \cup {p}
        BY <1>1, OnePageGoes DEF SentBy
      <3>2. /\ IsFiniteSet(SentBy(v) \cup {p})
            /\ Cardinality(SentBy(v) \cup {p}) <= Cardinality(SentBy(v)) + 1
        <4>1. PICK sent : sent = SentBy(v)
          OBVIOUS
        <4>2. /\ IsFiniteSet(sent \cup {p})
              /\ Cardinality(sent \cup {p}) = IF p \in sent THEN Cardinality(sent)
                                              ELSE Cardinality(sent) + 1
          BY <2>1, <4>1, FS_AddElement
        <4> QED
          BY <2>1, <4>1, <4>2
      <3>3. /\ Cardinality(SentBy(v)') <= Cardinality(SentBy(v) \cup {p})
            /\ Cardinality(SentBy(v)') \in Nat /\ Cardinality(SentBy(v) \cup {p}) \in Nat
        BY <3>1, <3>2, FS_Subset, FS_CardinalityType
      <3>4. acceptances'[v] = acceptances[v] + 1 /\ submitted'[v] = submitted[v]
        BY <1>3, <2>3 DEF TermsCover
      <3> QED
        BY <2>1, <2>2, <3>2, <3>3, <3>4
    <2>4. CASE v # u
      <3>1. SentBy(v)' \subseteq SentBy(v)
        BY <1>1, <1>2, <2>4, OnePageGoes DEF SentBy
      <3>2. Cardinality(SentBy(v)') <= Cardinality(SentBy(v)) /\ Cardinality(SentBy(v)') \in Nat
        BY <2>1, <3>1, FS_Subset, FS_CardinalityType
      <3>3. acceptances'[v] = acceptances[v] /\ submitted'[v] = submitted[v]
        BY <1>3, <2>4 DEF TermsCover
      <3> QED
        BY <2>1, <2>2, <3>2, <3>3
    <2> QED
      BY <2>3, <2>4
  <1>6. /\ stage' = [q \in Visitors |-> stage'[q]]
        /\ \A q \in Visitors : stage'[q] = [at |-> stage'[q].at, variant |-> stage'[q].variant]
    BY <1>1, OnePageGoes
  <1>7. submitted' \in [Chosen -> Nat]
    BY <1>3 DEF TermsCover
  <1> QED
    BY <1>4, <1>5, <1>6, <1>7 DEF TermsCover

\* A profile is stored for one acceptance that was not used.
LEMMA PostIsCovered ==
  ASSUME TermsCover, NEW p \in Visitors, stage[p].variant \in Chosen, PostProfile(p)
  PROVE  TermsCover'
  <1>1. PICK at \in {"done", "form"} : Goes(p, at)
    BY DEF PostProfile, AnsweredOrLost
  <1>2. PICK u \in Chosen : u = stage[p].variant
    OBVIOUS
  <1>3. CASE UNCHANGED submitted
    <2>1. UNCHANGED <<acceptances, submitted>>
      BY <1>3 DEF PostProfile
    <2> QED
      BY <1>1, <2>1, GoesElsewhere
  <1>4. CASE submitted' = [submitted EXCEPT ![u] = @ + 1]
    <2>1. UNCHANGED acceptances /\ stage[p].at = "profile"
      BY DEF PostProfile
    <2>2. submitted' \in [Chosen -> Nat]
      BY <1>4 DEF TermsCover
    <2>3. ASSUME NEW v \in Chosen
          PROVE  submitted'[v] + Cardinality(SentBy(v)') <= acceptances'[v]
      <3>1. IsFiniteSet(SentBy(v)) /\ Cardinality(SentBy(v)) \in Nat
        BY SubmitParameters, FS_Subset, FS_CardinalityType DEF SentBy
      <3>2. /\ submitted[v] \in Nat /\ acceptances[v] \in Nat
            /\ submitted[v] + Cardinality(SentBy(v)) <= acceptances[v]
        BY DEF TermsCover
      <3>3. CASE v = u
        <4>1. p \in SentBy(v) /\ SentBy(v)' = SentBy(v) \ {p}
          BY <1>1, <1>2, <2>1, <3>3, OnePageGoes DEF SentBy
        <4>2. Cardinality(SentBy(v)') = Cardinality(SentBy(v)) - 1
          BY <3>1, <4>1, FS_RemoveElement
        <4>3. submitted'[v] = submitted[v] + 1 /\ acceptances'[v] = acceptances[v]
          BY <1>4, <2>1, <3>3 DEF TermsCover
        <4> QED
          BY <3>1, <3>2, <4>2, <4>3
      <3>4. CASE v # u
        <4>1. SentBy(v)' = SentBy(v)
          BY <1>1, <1>2, <3>4, OnePageGoes DEF SentBy
        <4>2. submitted'[v] = submitted[v] /\ acceptances'[v] = acceptances[v]
          BY <1>4, <2>1, <3>4 DEF TermsCover
        <4> QED
          BY <3>1, <3>2, <4>1, <4>2
      <3> QED
        BY <3>3, <3>4
    <2>4. /\ stage' = [q \in Visitors |-> stage'[q]]
          /\ \A q \in Visitors : stage'[q] = [at |-> stage'[q].at, variant |-> stage'[q].variant]
      BY <1>1, OnePageGoes
    <2>5. acceptances' \in [Chosen -> Nat]
      BY <2>1 DEF TermsCover
    <2> QED
      BY <2>2, <2>3, <2>4, <2>5 DEF TermsCover
  <1> QED
    BY <1>2, <1>3, <1>4 DEF PostProfile

\* Nothing is let through, and the array at most forgets.
LEMMA ShareStays ==
  ASSUME HitsAreRecent, ShareIsExact, UNCHANGED <<time, through, turnedAway>>,
         communityHits' = communityHits \/ communityHits' = Recent
  PROVE  HitsAreRecent' /\ ShareIsExact'
  <1>1. \A t : Within(t)' = Within(t)
    BY DEF Within
  <1>2. HitsAreRecent'
    BY <1>1, RecentIs DEF HitsAreRecent, Within
  <1>3. ShareIsExact'
    BY <1>1 DEF ShareIsExact
  <1> QED
    BY <1>2, <1>3

\* Whoever is turned away, the hour has had its share.
LEMMA TurnAwayIsExact ==
  ASSUME HitsAreRecent, ShareIsExact, NEW p \in Visitors, TurnAway(p)
  PROVE  HitsAreRecent' /\ ShareIsExact'
  <1>1. /\ Cardinality(Within(time)) >= MaxPerHour /\ communityHits' = Recent
        /\ turnedAway' = turnedAway \cup {time} /\ UNCHANGED <<time, through>>
    BY RecentIs DEF TurnAway
  <1>2. \A t : Within(t)' = Within(t)
    BY <1>1 DEF Within
  <1>3. HitsAreRecent'
    BY <1>1, <1>2, RecentIs DEF HitsAreRecent, Within
  <1>4. IsFiniteSet(Within(time)) /\ Cardinality(Within(time)) \in Nat
    BY FS_Subset, FS_CardinalityType DEF HitsAreRecent, Within
  <1>5. Cardinality(Within(time)) = MaxPerHour
    <2>1. time \in 0..time
      BY DEF HitsAreRecent
    <2> QED
      BY <1>1, <1>4, <2>1, SubmitParameters DEF ShareIsExact
  <1>6. ShareIsExact'
    BY <1>1, <1>2, <1>5 DEF ShareIsExact
  <1> QED
    BY <1>3, <1>6

\* A hit falls into the hour that ends now, which has room, and into no earlier one.
LEMMA PostIsExact ==
  ASSUME HitsAreRecent, ShareIsExact, NEW p \in Visitors, PostProfile(p)
  PROVE  HitsAreRecent' /\ ShareIsExact'
  <1>1. PICK hit : /\ hit.at = time /\ through' = through \cup {hit}
                   /\ communityHits' = Recent \cup {hit}
    BY DEF PostProfile, Hit
  <1>2. Cardinality(Within(time)) < MaxPerHour /\ UNCHANGED <<time, turnedAway>>
    BY RecentIs DEF PostProfile
  <1>3. IsFiniteSet(through') /\ \A h \in through' : h.at \in 0..time
    BY <1>1, FS_AddElement DEF HitsAreRecent
  <1>4. Within(time)' \subseteq Within(time) \cup {hit}
    BY <1>1, <1>2 DEF Within
  <1>5. HitsAreRecent'
    BY <1>1, <1>2, <1>3, <1>4, RecentIs DEF HitsAreRecent, Recent
  <1>6. IsFiniteSet(Within(time)) /\ Cardinality(Within(time)) \in Nat
    BY FS_Subset, FS_CardinalityType DEF HitsAreRecent, Within
  <1>7. Cardinality(Within(time)') <= MaxPerHour
    <2>1. /\ IsFiniteSet(Within(time) \cup {hit})
          /\ Cardinality(Within(time) \cup {hit}) <= Cardinality(Within(time)) + 1
      BY <1>6, FS_AddElement
    <2>2. /\ Cardinality(Within(time)') <= Cardinality(Within(time) \cup {hit})
          /\ Cardinality(Within(time)') \in Nat /\ Cardinality(Within(time) \cup {hit}) \in Nat
      BY <1>4, <2>1, FS_Subset, FS_CardinalityType
    <2> QED
      BY <1>2, <1>6, <2>1, <2>2, SubmitParameters
  <1>8. \A t \in 0..time : t # time => Within(t)' = Within(t)
    BY <1>1 DEF HitsAreRecent, Within
  <1>9. time \notin turnedAway
    BY <1>2, <1>6, SubmitParameters DEF ShareIsExact
  <1>10. \A t \in 0..time' : Cardinality(Within(t)') <= MaxPerHour
    BY <1>2, <1>7, <1>8 DEF ShareIsExact
  <1>11. \A t \in turnedAway' : Cardinality(Within(t)') = MaxPerHour
    BY <1>2, <1>8, <1>9 DEF ShareIsExact, HitsAreRecent
  <1> QED
    BY <1>2, <1>5, <1>10, <1>11 DEF ShareIsExact

\* The next hour begins later and has no hit at its end.
LEMMA TimePassesIsExact ==
  ASSUME HitsAreRecent, ShareIsExact, TimePasses
  PROVE  HitsAreRecent' /\ ShareIsExact'
  <1>1. time' = time + 1 /\ UNCHANGED <<communityHits, through, turnedAway>> /\ time \in Nat
    BY DEF TimePasses, HitsAreRecent
  <1>2. \A t : Within(t)' = {h \in through : h.at <= t /\ t - h.at < Window}
    BY <1>1 DEF Within
  <1>3. {h \in through : h.at <= time + 1 /\ (time + 1) - h.at < Window} \subseteq Within(time)
    BY <1>1, SubmitParameters DEF HitsAreRecent, Within
  <1>4. HitsAreRecent'
    BY <1>1, <1>2, <1>3 DEF HitsAreRecent, Within
  <1>5. IsFiniteSet(Within(time)) /\ Cardinality(Within(time)) \in Nat
    BY FS_Subset, FS_CardinalityType DEF HitsAreRecent, Within
  <1> DEFINE next == {h \in through : h.at <= time + 1 /\ (time + 1) - h.at < Window}
  <1>6. Cardinality(next) <= Cardinality(Within(time)) /\ Cardinality(next) \in Nat
    BY <1>3, <1>5, FS_Subset, FS_CardinalityType
  <1>7. Cardinality(Within(time)) <= MaxPerHour
    <2>1. time \in 0..time
      BY <1>1
    <2> QED
      BY <2>1 DEF ShareIsExact
  <1>8. \A t : Within(t)' = IF t = time + 1 THEN next ELSE Within(t)
    BY <1>2 DEF Within
  <1> HIDE DEF next
  <1>9. \A t \in 0..(time + 1) : Cardinality(Within(t)') <= MaxPerHour
    <2> SUFFICES ASSUME NEW t \in 0..(time + 1) PROVE Cardinality(Within(t)') <= MaxPerHour
      OBVIOUS
    <2>1. CASE t = time + 1
      BY <1>5, <1>6, <1>7, <1>8, <2>1, SubmitParameters
    <2>2. CASE t # time + 1
      <3>1. t \in 0..time
        BY <1>1, <2>2
      <3> QED
        BY <1>8, <2>2, <3>1 DEF ShareIsExact
    <2> QED
      BY <2>1, <2>2
  <1>10. \A t \in turnedAway : t # time + 1 /\ Cardinality(Within(t)) = MaxPerHour
    BY <1>1 DEF ShareIsExact, HitsAreRecent
  <1>11. ShareIsExact'
    BY <1>1, <1>8, <1>9, <1>10 DEF ShareIsExact
  <1> QED
    BY <1>4, <1>11

\* The server's counts are not touched.
LEMMA CountsRest ==
  ASSUME HitsAreRecent, ShareIsExact,
         UNCHANGED <<communityHits, time, through, turnedAway>>
  PROVE  HitsAreRecent' /\ ShareIsExact'
  BY ShareStays

\* A page moves on with the variant it was pressed for.
LEMMA VariantsStay ==
  ASSUME TermsCover, VariantsAreChosen, NEW p \in Visitors, NEW at, Goes(p, at), UNCHANGED sheet
  PROVE  VariantsAreChosen'
  BY OnePageGoes DEF VariantsAreChosen

LEMMA PressIsSound ==
  ASSUME SubmitIInv, NEW p \in Visitors, PressSubmit(p)
  PROVE  TermsCover' /\ VariantsAreChosen'
  <1>1. PICK u \in Chosen : u = sheet[p]
    BY DEF SubmitIInv, VariantsAreChosen
  <1>2. /\ stage' = [stage EXCEPT ![p] = [at |-> "terms", variant |-> u]]
        /\ UNCHANGED <<sheet, acceptances, submitted>>
    BY <1>1 DEF PressSubmit, ServerRests
  <1>3. /\ stage' = [q \in Visitors |-> stage'[q]]
        /\ stage'[p] = [at |-> "terms", variant |-> u]
        /\ \A q \in Visitors \ {p} : stage'[q] = stage[q]
    BY <1>2 DEF SubmitIInv, TermsCover
  <1>4. \A q \in Visitors : stage'[q] = [at |-> stage'[q].at, variant |-> stage'[q].variant]
    BY <1>3 DEF SubmitIInv, TermsCover
  <1>5. \A v \in Chosen : SentBy(v)' \subseteq SentBy(v)
    BY <1>3 DEF SentBy
  <1>6. VariantsAreChosen'
    BY <1>2, <1>3 DEF SubmitIInv, VariantsAreChosen
  <1> QED
    BY <1>2, <1>3, <1>4, <1>5, <1>6, FewerSend DEF SubmitIInv

LEMMA RestartIsSound ==
  ASSUME SubmitIInv, RestartApi
  PROVE  SubmitIInv'
  <1>1. /\ communityHits' = {} /\ through' = {} /\ turnedAway' = {}
        /\ UNCHANGED <<sheet, acceptances, submitted, time>>
    BY DEF RestartApi
  <1>2. /\ stage' = [q \in Visitors |-> stage'[q]]
        /\ \A q \in Visitors :
              /\ stage'[q].at # "profile" \/ stage'[q] = stage[q]
              /\ stage'[q].variant = stage[q].variant
              /\ stage'[q] = [at |-> stage'[q].at, variant |-> stage'[q].variant]
    <2>1. ASSUME NEW q \in Visitors
          PROVE  /\ stage'[q].at # "profile" \/ stage'[q] = stage[q]
                 /\ stage'[q].variant = stage[q].variant
                 /\ stage'[q] = [at |-> stage'[q].at, variant |-> stage'[q].variant]
      <3>1. stage[q] = [at |-> stage[q].at, variant |-> stage[q].variant]
        BY DEF SubmitIInv, TermsCover
      <3>2. stage'[q] = IF stage[q].at = "done" THEN stage[q] ELSE [stage[q] EXCEPT !.at = "form"]
        BY DEF RestartApi
      <3> QED
        BY <3>1, <3>2
    <2> QED
      BY <2>1 DEF RestartApi
  <1>3. \A v \in Chosen : SentBy(v)' \subseteq SentBy(v)
    BY <1>2 DEF SentBy
  <1>4. TermsCover'
    BY <1>1, <1>2, <1>3, FewerSend DEF SubmitIInv
  <1>5. VariantsAreChosen'
    BY <1>1, <1>2 DEF SubmitIInv, VariantsAreChosen
  <1>6. \A t : Within(t)' = {}
    BY <1>1 DEF Within
  <1>7. HitsAreRecent'
    BY <1>1, <1>6, FS_EmptySet DEF SubmitIInv, HitsAreRecent
  <1>8. \A t : Cardinality(Within(t)') = 0
    BY <1>6, FS_EmptySet
  <1>9. ShareIsExact'
    BY <1>1, <1>8, SubmitParameters DEF ShareIsExact
  <1> QED
    BY <1>4, <1>5, <1>7, <1>9 DEF SubmitIInv

LEMMA SubmitStepIsSound == SubmitIInv /\ [SubmitNext]_submitVars => SubmitIInv'
  <1> SUFFICES ASSUME SubmitIInv, [SubmitNext]_submitVars PROVE SubmitIInv'
      OBVIOUS
  <1>0. TermsCover /\ VariantsAreChosen /\ HitsAreRecent /\ ShareIsExact
    BY DEF SubmitIInv
  <1>1. ASSUME NEW p \in Visitors, NEW v \in Chosen, Choose(p, v) PROVE SubmitIInv'
    <2>1. /\ sheet' = [sheet EXCEPT ![p] = v]
          /\ UNCHANGED <<stage, acceptances, submitted, communityHits, time, through, turnedAway>>
      BY <1>1 DEF Choose, ServerRests
    <2>2. TermsCover'
      BY <1>0, <2>1 DEF TermsCover, SentBy
    <2>3. VariantsAreChosen'
      BY <1>0, <2>1 DEF VariantsAreChosen
    <2> QED
      BY <1>0, <2>1, <2>2, <2>3, CountsRest DEF SubmitIInv
  <1>2. ASSUME NEW p \in Visitors, PressSubmit(p) PROVE SubmitIInv'
    <2>1. UNCHANGED <<communityHits, time, through, turnedAway>>
      BY <1>2 DEF PressSubmit, ServerRests
    <2> QED
      BY <1>0, <1>2, <2>1, PressIsSound, CountsRest DEF SubmitIInv
  <1>3. ASSUME NEW p \in Visitors, RequestLost(p) PROVE SubmitIInv'
    <2>1. /\ Goes(p, "form")
          /\ UNCHANGED <<sheet, acceptances, submitted, communityHits, time, through, turnedAway>>
      BY <1>3 DEF RequestLost, ServerRests
    <2> QED
      BY <1>0, <2>1, GoesElsewhere, VariantsStay, CountsRest DEF SubmitIInv
  <1>4. ASSUME NEW p \in Visitors, RecordTerms(p) PROVE SubmitIInv'
    <2>1. /\ Goes(p, "profile") \/ Goes(p, "form")
          /\ UNCHANGED <<sheet, communityHits, time, through, turnedAway>>
      BY <1>4 DEF RecordTerms, AnsweredOrLost
    <2>2. stage[p].variant \in Chosen
      BY <1>0 DEF VariantsAreChosen
    <2>3. TermsCover' /\ VariantsAreChosen'
      BY <1>0, <1>4, <2>1, <2>2, RecordTermsIsSound, VariantsStay
    <2> QED
      BY <1>0, <2>1, <2>3, CountsRest DEF SubmitIInv
  <1>5. ASSUME NEW p \in Visitors, TurnAway(p) PROVE SubmitIInv'
    <2>1. Goes(p, "form") /\ UNCHANGED <<sheet, acceptances, submitted>>
      BY <1>5 DEF TurnAway
    <2> QED
      BY <1>0, <1>5, <2>1, GoesElsewhere, VariantsStay, TurnAwayIsExact DEF SubmitIInv
  <1>6. ASSUME NEW p \in Visitors, PostProfile(p) PROVE SubmitIInv'
    <2>1. (Goes(p, "done") \/ Goes(p, "form")) /\ UNCHANGED sheet
      BY <1>6 DEF PostProfile, AnsweredOrLost
    <2>2. stage[p].variant \in Chosen
      BY <1>0 DEF VariantsAreChosen
    <2>3. TermsCover' /\ VariantsAreChosen'
      BY <1>0, <1>6, <2>1, <2>2, PostIsCovered, VariantsStay
    <2> QED
      BY <1>0, <1>6, <2>3, PostIsExact DEF SubmitIInv
  <1>7. CASE TimePasses
    <2>1. UNCHANGED <<sheet, stage, acceptances, submitted>>
      BY <1>7 DEF TimePasses
    <2>2. TermsCover' /\ VariantsAreChosen'
      BY <1>0, <2>1 DEF TermsCover, SentBy, VariantsAreChosen
    <2> QED
      BY <1>0, <1>7, <2>2, TimePassesIsExact DEF SubmitIInv
  <1>8. CASE UNCHANGED submitVars
    <2>1. UNCHANGED <<sheet, stage, acceptances, submitted, communityHits, time, through, turnedAway>>
      BY <1>8 DEF submitVars
    <2>2. TermsCover' /\ VariantsAreChosen'
      BY <1>0, <2>1 DEF TermsCover, SentBy, VariantsAreChosen
    <2> QED
      BY <1>0, <2>1, <2>2, CountsRest DEF SubmitIInv
  <1> QED
    BY <1>1, <1>2, <1>3, <1>4, <1>5, <1>6, <1>7, <1>8, RestartIsSound DEF SubmitNext

\* For any pages, variants, shares and windows: no profile is stored without terms of its
\* own, and an address gets its share of every hour and no less.
THEOREM SubmissionsAreAlwaysSound == SubmitSpec => []SubmissionsAreSound
  <1>1. SubmitIInv => SubmissionsAreSound
    <2> SUFFICES ASSUME SubmitIInv PROVE NothingWithoutTerms
      BY DEF SubmitIInv, SubmissionsAreSound
    <2> SUFFICES ASSUME NEW v \in Chosen PROVE submitted[v] <= acceptances[v]
      BY DEF NothingWithoutTerms
    <2>1. IsFiniteSet(SentBy(v)) /\ Cardinality(SentBy(v)) \in Nat
      BY SubmitParameters, FS_Subset, FS_CardinalityType DEF SentBy
    <2>2. /\ submitted[v] \in Nat /\ acceptances[v] \in Nat
          /\ submitted[v] + Cardinality(SentBy(v)) <= acceptances[v]
      BY DEF SubmitIInv, TermsCover
    <2> QED
      BY <2>1, <2>2
  <1> QED
    BY <1>1, SubmitInitIsSound, SubmitStepIsSound, PTL DEF SubmitSpec
-----------------------------------------------------------------------------
(* The forms.                                                              *)

\* The requests of one name come to an end with the last of them.
IsLatest(queue, i, name) ==
    /\ i \in DOMAIN queue /\ queue[i].for = name
    /\ \A k \in DOMAIN queue : k > i => queue[k].for # name
LatestIn(queue, name, seens) == \A i : IsLatest(queue, i, name) => queue[i].seen \in seens
NoneOf(queue, name) == \A i \in DOMAIN queue : queue[i].for # name

\* What is asked for could be asked for.
Asking == [for : Requests, seen : Fields]
IsAskable(r) ==
    /\ r.for = "detail" => /\ form \in {"submit", "picker"}
                           /\ form = "submit" => r.seen.colour # Unset
                           /\ form = "picker" => r.seen.filament # Unset
    /\ r.for = "colours" => r.seen.filament # Unset
    /\ r.for = "opened" => form = "export" /\ r.seen.profile # Unset
    /\ r.for = "profiles" => form = "export" /\ r.seen.colour # Unset
    /\ r.for \in {"new filament", "new colour"} => form \in {"submit", "picker"}
    /\ r.for = "new filament" => r.seen.maker # Unset
    /\ r.for = "new colour" => r.seen.filament # Unset
    /\ form # "export" => r.seen.profile = Unset

FormsAreTyped ==
    /\ form \in FormKinds /\ field \in Fields
    /\ listed \in [filaments : SUBSET Filaments, colours : SUBSET Colours,
                   profiles : SUBSET Colours]
    /\ asked \in Seq(Asking) /\ \A i \in DOMAIN asked : IsAskable(asked[i])
    /\ form # "export" => field.profile = Unset

\* Selections that belong together.
FieldFits(f) ==
    /\ f.colour # Unset => FilamentOf[f.colour] = f.filament
    /\ f.filament # Unset => MakerOf[f.filament] = f.maker
WholeFits(f) ==
    /\ FieldFits(f)
    /\ f.filament # Unset => f.kind \in {Unset, KindOf[f.filament]}

\* The submit form's colour has its product, or the last answer to come brings it.
OfColour(c) == {s \in Fields : s.colour = c}
DetailFollows(f, queue) ==
    f.colour # Unset => /\ LatestIn(queue, "detail", OfColour(f.colour))
                        /\ NoneOf(queue, "detail") => FieldFits(f)

\* A list on show is of what is chosen, or will be.
OfMaker(m, k) == {s \in Fields : s.maker = m /\ s.kind = k}
OfFilament(f) == {s \in Fields : s.filament = f}
FilamentsFollow(f, lists, queue) ==
    f.maker # Unset =>
        /\ LatestIn(queue, "filaments", OfMaker(f.maker, f.kind))
        /\ NoneOf(queue, "filaments") => lists.filaments = FilamentsOf(f.maker, f.kind)
ColoursFollow(f, lists, queue) ==
    f.filament # Unset =>
        /\ LatestIn(queue, "colours", OfFilament(f.filament))
        /\ NoneOf(queue, "colours") => lists.colours \subseteq ColoursOf(f.filament)
ListsFollow ==
    /\ FilamentsFollow(field, listed, asked) /\ ColoursFollow(field, listed, asked)
    /\ form = "export" => listed.profiles \subseteq {field.colour}

\* What is created is awaited alone.
CreatedAlone ==
    \A i \in DOMAIN asked :
        asked[i].for \in {"new filament", "new colour"} => Len(asked) = 1 /\ asked[1].seen = field

\* The picker hands over what a handler saw, which belongs together.
PickerFits ==
    form = "picker" => WholeFits(field) /\ \A i \in DOMAIN asked : WholeFits(asked[i].seen)

\* The other forms change the field on show; handlers saw it but for what was
\* chosen for it since.
Opening ==
    /\ Len(asked) = 1 /\ asked[1].seen = field
    /\ \/ form = "submit" /\ asked[1].for = "detail"
          /\ \E c \in Colours : field = [Blank EXCEPT !.colour = c]
       \/ form = "export" /\ asked[1].for = "opened"
          /\ \E c \in Colours : field = [Blank EXCEPT !.profile = c]
SawMuch(f, r) ==
    /\ r.for # "opened"
    /\ r.seen.maker = f.maker /\ r.seen.filament = f.filament
    /\ r.seen.colour # Unset => r.seen.colour = f.colour
OthersFit ==
    form # "picker" =>
        \/ Opening
        \/ /\ WholeFits(field) /\ \A i \in DOMAIN asked : SawMuch(field, asked[i])
           /\ field.filament = Unset => /\ Len(asked) <= 1
                                        /\ \A i \in DOMAIN asked : asked[i].seen.kind = field.kind

Unhurried == ListsFollow /\ CreatedAlone /\ PickerFits /\ OthersFit
FormsIInv ==
    ~astray => /\ FormsAreTyped
               /\ form = "submit" => DetailFollows(field, asked)
               /\ ~hasty => Unhurried

\* The profile is the colour's, the user's own choice, or still to be opened.
ProfileFollows == ~astray /\ ~hasty => ProfileFits \/ Opening

-----------------------------------------------------------------------------
\* Two sequences, one behind the other.
LEMMA JoinedIs ==
  ASSUME NEW S, NEW a \in Seq(S), NEW b \in Seq(S)
  PROVE  /\ a \o b \in Seq(S) /\ Len(a \o b) = Len(a) + Len(b)
         /\ \A i \in DOMAIN a : i \in DOMAIN (a \o b) /\ (a \o b)[i] = a[i]
         /\ \A i \in DOMAIN b : i + Len(a) \in DOMAIN (a \o b) /\ (a \o b)[i + Len(a)] = b[i]
         /\ \A i \in DOMAIN (a \o b) :
               \/ i \in DOMAIN a /\ (a \o b)[i] = a[i]
               \/ /\ i - Len(a) \in DOMAIN b /\ (a \o b)[i] = b[i - Len(a)]
                  /\ i = (i - Len(a)) + Len(a)
  <1>1. Len(a) \in Nat /\ Len(b) \in Nat /\ DOMAIN a = 1..Len(a) /\ DOMAIN b = 1..Len(b)
    OBVIOUS
  <1>2. PICK c \in Seq(S) : c = a \o b
    BY ConcatProperties
  <1>3. /\ Len(c) = Len(a) + Len(b) /\ DOMAIN c = 1..Len(c)
        /\ \A i \in 1..(Len(a) + Len(b)) : c[i] = IF i <= Len(a) THEN a[i] ELSE b[i - Len(a)]
    BY <1>2, ConcatProperties
  <1>4. \A i \in DOMAIN a : i \in DOMAIN c /\ c[i] = a[i]
    BY <1>1, <1>3
  <1>5. ASSUME NEW i \in DOMAIN b PROVE i + Len(a) \in DOMAIN c /\ c[i + Len(a)] = b[i]
    <2>1. i \in 1..Len(b)
      BY <1>1
    <2>2. i + Len(a) \in 1..(Len(a) + Len(b)) /\ ~(i + Len(a) <= Len(a))
          /\ (i + Len(a)) - Len(a) = i
      BY <1>1, <2>1
    <2> QED
      BY <1>3, <2>2
  <1>6. ASSUME NEW i \in DOMAIN c
        PROVE  \/ i \in DOMAIN a /\ c[i] = a[i]
               \/ /\ i - Len(a) \in DOMAIN b /\ c[i] = b[i - Len(a)]
                  /\ i = (i - Len(a)) + Len(a)
    <2>1. i \in 1..(Len(a) + Len(b))
      BY <1>3
    <2>2. CASE i <= Len(a)
      <3>1. i \in 1..Len(a)
        BY <1>1, <2>1, <2>2
      <3> QED
        BY <1>1, <1>3, <2>1, <2>2, <3>1
    <2>3. CASE ~(i <= Len(a))
      <3>1. i - Len(a) \in 1..Len(b) /\ i = (i - Len(a)) + Len(a)
        BY <1>1, <2>1, <2>3
      <3> QED
        BY <1>1, <1>3, <2>1, <2>3, <3>1
    <2> QED
      BY <2>2, <2>3
  <1> QED
    BY <1>2, <1>3, <1>4, <1>5, <1>6

\* What is true of the members of both is true of those of the whole.
LEMMA EitherPart ==
  ASSUME NEW S, NEW a \in Seq(S), NEW b \in Seq(S), NEW T,
         \A i \in DOMAIN a : a[i] \in T, \A i \in DOMAIN b : b[i] \in T
  PROVE  \A i \in DOMAIN (a \o b) : (a \o b)[i] \in T
  BY JoinedIs

\* A sequence of one.
LEMMA SingleIs ==
  ASSUME NEW S, NEW r \in S
  PROVE  <<r>> \in Seq(S) /\ Len(<<r>>) = 1 /\ Len(<<r>>) <= 1
         /\ DOMAIN <<r>> = {1} /\ <<r>>[1] = r
  OBVIOUS

\* An empty sequence has no place.
LEMMA EmptyIs ==
  ASSUME NEW q, q = << >>
  PROVE  DOMAIN q = {}
  OBVIOUS

\* No request of a name in the whole: in neither part.
LEMMA NoneJoined ==
  ASSUME NEW S, NEW a \in Seq(S), NEW b \in Seq(S), NEW name
  PROVE  NoneOf(a \o b, name) <=> NoneOf(a, name) /\ NoneOf(b, name)
  <1>1. NoneOf(a \o b, name) => NoneOf(a, name)
    BY JoinedIs DEF NoneOf
  <1>2. NoneOf(a \o b, name) => NoneOf(b, name)
    <2> SUFFICES ASSUME NoneOf(a \o b, name), NEW j \in DOMAIN b PROVE b[j].for # name
      BY DEF NoneOf
    <2>1. j + Len(a) \in DOMAIN (a \o b) /\ (a \o b)[j + Len(a)] = b[j]
      BY JoinedIs
    <2> QED
      BY <2>1 DEF NoneOf
  <1>3. NoneOf(a, name) /\ NoneOf(b, name) => NoneOf(a \o b, name)
    BY JoinedIs DEF NoneOf
  <1> QED
    BY <1>1, <1>2, <1>3

\* What is added comes last; without it the last one stays the last.
LEMMA LatestJoined ==
  ASSUME NEW S, NEW a \in Seq(S), NEW b \in Seq(S), NEW name, NEW seens,
         \A j \in DOMAIN b : b[j].for = name => b[j].seen \in seens,
         NoneOf(b, name) => LatestIn(a, name, seens)
  PROVE  LatestIn(a \o b, name, seens)
  <1> SUFFICES ASSUME NEW i, IsLatest(a \o b, i, name) PROVE (a \o b)[i].seen \in seens
    BY DEF LatestIn
  <1>1. i \in DOMAIN (a \o b) /\ (a \o b)[i].for = name
        /\ \A k \in DOMAIN (a \o b) : k > i => (a \o b)[k].for # name
    BY DEF IsLatest
  <1>2. CASE i \in DOMAIN a /\ (a \o b)[i] = a[i]
    <2>1. NoneOf(b, name)
      <3> SUFFICES ASSUME NEW j \in DOMAIN b PROVE b[j].for # name
        BY DEF NoneOf
      <3>1. j + Len(a) \in DOMAIN (a \o b) /\ (a \o b)[j + Len(a)] = b[j]
        BY JoinedIs
      <3>2. j + Len(a) > i
        BY <1>2
      <3> QED
        BY <1>1, <3>1, <3>2
    <2>2. \A k \in DOMAIN a : k > i => a[k].for # name
      BY <1>1, JoinedIs
    <2>3. IsLatest(a, i, name)
      BY <1>1, <1>2, <2>2 DEF IsLatest
    <2> QED
      BY <1>2, <2>1, <2>3 DEF LatestIn
  <1>3. CASE i - Len(a) \in DOMAIN b /\ (a \o b)[i] = b[i - Len(a)]
    BY <1>1, <1>3
  <1> QED
    BY <1>1, <1>2, <1>3, JoinedIs

\* What remains when the first is answered.
LEMMA RestIs ==
  ASSUME NEW S, NEW q \in Seq(S), q # << >>
  PROVE  /\ RemoveAt(q, 1) \in Seq(S) /\ Len(RemoveAt(q, 1)) = Len(q) - 1
         /\ \A j \in DOMAIN RemoveAt(q, 1) : j + 1 \in DOMAIN q /\ RemoveAt(q, 1)[j] = q[j + 1]
         /\ \A j \in DOMAIN q : j # 1 => /\ j - 1 \in DOMAIN RemoveAt(q, 1)
                                        /\ RemoveAt(q, 1)[j - 1] = q[j]
  <1>1. Len(q) \in Nat /\ 1 \in 1..Len(q) /\ DOMAIN q = 1..Len(q)
    OBVIOUS
  <1>2. PICK r \in Seq(S) : r = RemoveAt(q, 1)
    BY <1>1, RemovedIs
  <1>3. /\ Len(r) = Len(q) - 1
        /\ \A j \in 1..(Len(q) - 1) : r[j] = IF j < 1 THEN q[j] ELSE q[j + 1]
    BY <1>1, <1>2, RemovedIs
  <1>4. DOMAIN r = 1..(Len(q) - 1)
    BY <1>3
  <1>5. \A j \in DOMAIN r : j + 1 \in DOMAIN q /\ r[j] = q[j + 1]
    BY <1>1, <1>3, <1>4
  <1>6. ASSUME NEW j \in DOMAIN q, j # 1 PROVE j - 1 \in DOMAIN r /\ r[j - 1] = q[j]
    <2>1. j - 1 \in 1..(Len(q) - 1) /\ (j - 1) + 1 = j /\ ~(j - 1 < 1)
      BY <1>1, <1>6
    <2> QED
      BY <1>3, <1>4, <2>1
  <1> QED
    BY <1>2, <1>3, <1>5, <1>6

LEMMA LatestOfRest ==
  ASSUME NEW S, NEW q \in Seq(S), q # << >>, NEW name, NEW seens, LatestIn(q, name, seens)
  PROVE  /\ LatestIn(RemoveAt(q, 1), name, seens)
         /\ NoneOf(RemoveAt(q, 1), name) /\ q[1].for = name => q[1].seen \in seens
         /\ NoneOf(RemoveAt(q, 1), name) /\ q[1].for # name => NoneOf(q, name)
  <1>1. PICK r \in Seq(S) : r = RemoveAt(q, 1)
    BY RestIs
  <1>2. ASSUME NEW i, IsLatest(r, i, name) PROVE r[i].seen \in seens
    <2>1. i \in DOMAIN r /\ r[i].for = name /\ \A k \in DOMAIN r : k > i => r[k].for # name
      BY <1>2 DEF IsLatest
    <2>2. i + 1 \in DOMAIN q /\ r[i] = q[i + 1]
      BY <1>1, <2>1, RestIs
    <2>3. ASSUME NEW k \in DOMAIN q, k > i + 1 PROVE q[k].for # name
      <3>1. k # 1 /\ k - 1 > i
        BY <2>1, <2>3
      <3>2. k - 1 \in DOMAIN r /\ r[k - 1] = q[k]
        BY <1>1, <3>1, RestIs
      <3> QED
        BY <2>1, <3>1, <3>2
    <2>4. IsLatest(q, i + 1, name)
      BY <2>1, <2>2, <2>3 DEF IsLatest
    <2> QED
      BY <2>2, <2>4 DEF LatestIn
  <1>3. ASSUME NoneOf(r, name) PROVE \A k \in DOMAIN q : k > 1 => q[k].for # name
    <2> SUFFICES ASSUME NEW k \in DOMAIN q, k > 1 PROVE q[k].for # name
      OBVIOUS
    <2>1. k # 1
      OBVIOUS
    <2>2. k - 1 \in DOMAIN r /\ r[k - 1] = q[k]
      BY <1>1, <2>1, RestIs
    <2> QED
      BY <1>3, <2>2 DEF NoneOf
  <1>4. 1 \in DOMAIN q
    OBVIOUS
  <1>5. NoneOf(r, name) /\ q[1].for = name => IsLatest(q, 1, name)
    BY <1>3, <1>4 DEF IsLatest
  <1>6. NoneOf(r, name) /\ q[1].for # name => NoneOf(q, name)
    <2> SUFFICES ASSUME NoneOf(r, name), q[1].for # name, NEW k \in DOMAIN q PROVE q[k].for # name
      BY DEF NoneOf
    <2>1. k = 1 \/ k > 1
      OBVIOUS
    <2> QED
      BY <1>3, <2>1
  <1> QED
    BY <1>1, <1>2, <1>5, <1>6 DEF LatestIn

-----------------------------------------------------------------------------
(* What a form asks for.                                                   *)

\* One request, or none.
Asked(name, new) == <<[for |-> name, seen |-> new]>>

\* What one request, or none, is as a sequence.
LEMMA AskedIs ==
  ASSUME NEW name \in Requests, NEW new \in Fields, NEW q, q = << >> \/ q = Asked(name, new)
  PROVE  /\ q \in Seq(Asking) /\ Len(q) <= 1
         /\ \A i \in DOMAIN q : q # << >> /\ q[i].for = name /\ q[i].seen = new
         /\ \A other : NoneOf(q, other) <=> q = << >> \/ other # name
  <1>1. PICK r \in Asking : r = [for |-> name, seen |-> new]
    BY DEF Asking
  <1>2. r.for = name /\ r.seen = new
    BY <1>1
  <1>3. CASE q = << >>
    BY <1>3 DEF NoneOf
  <1>4. CASE q = <<r>>
    <2>1. /\ q \in Seq(Asking) /\ Len(q) = 1 /\ DOMAIN q = {1} /\ q[1] = r
          /\ q # << >>
      BY <1>4
    <2> QED
      BY <1>2, <2>1 DEF NoneOf
  <1> QED
    BY <1>1, <1>3, <1>4 DEF Asked

WantsFilaments(old, new) == new.maker # Unset /\ FilamentsDepend(old, new)
WantsColours(old, new, fresh) == new.filament # Unset /\ ColoursDepend(old, new, fresh)
WantsProfiles(old, new) == new.colour # Unset /\ ProfilesDepend(old, new)

\* What may be asked for when a field becomes new.
Wanted(old, new, fresh) ==
    {r \in Asking : /\ r.seen = new
                    /\ \/ r.for = "detail" /\ Hydrates(old, new)
                       \/ r.for = "filaments" /\ WantsFilaments(old, new)
                       \/ r.for = "colours" /\ WantsColours(old, new, fresh)
                       \/ r.for = "profiles" /\ WantsProfiles(old, new)}

\* What a form asks for, and what not, when its field becomes new.
LEMMA AsksAre ==
  ASSUME NEW old \in Fields, NEW new \in Fields, NEW fresh
  PROVE  /\ Asks(old, new, fresh) \in Seq(Asking)
         /\ \A i \in DOMAIN Asks(old, new, fresh) :
               Asks(old, new, fresh)[i] \in Wanted(old, new, fresh)
         /\ NoneOf(Asks(old, new, fresh), "detail") <=> ~Hydrates(old, new)
         /\ NoneOf(Asks(old, new, fresh), "filaments") <=> ~WantsFilaments(old, new)
         /\ NoneOf(Asks(old, new, fresh), "colours") <=> ~WantsColours(old, new, fresh)
         /\ NoneOf(Asks(old, new, fresh), "profiles") <=> ~WantsProfiles(old, new)
         /\ NoneOf(Asks(old, new, fresh), "opened")
         /\ NoneOf(Asks(old, new, fresh), "new filament")
         /\ NoneOf(Asks(old, new, fresh), "new colour")
         /\ ~Hydrates(old, new) /\ ~WantsColours(old, new, fresh) /\ ~WantsProfiles(old, new)
               => Len(Asks(old, new, fresh)) <= 1
         /\ ~WantsFilaments(old, new) /\ ~WantsColours(old, new, fresh) /\ ~WantsProfiles(old, new)
               => Len(Asks(old, new, fresh)) <= 1
         /\ ~Hydrates(old, new) /\ ~WantsFilaments(old, new)
            /\ ~WantsColours(old, new, fresh) /\ ~WantsProfiles(old, new)
               => Asks(old, new, fresh) = << >>
  <1> DEFINE a == Ask("detail", Hydrates(old, new), new)
             b == Ask("filaments", WantsFilaments(old, new), new)
             c == Ask("colours", WantsColours(old, new, fresh), new)
             d == Ask("profiles", WantsProfiles(old, new), new)
             ab == a \o b
             abc == ab \o c
             all == abc \o d
             T == Wanted(old, new, fresh)
  <1>1. /\ a \in Seq(Asking) /\ Len(a) <= 1
        /\ \A i \in DOMAIN a : a[i] \in T
        /\ \A other : NoneOf(a, other) <=> a = << >> \/ other # "detail"
    <2>1. "detail" \in Requests
      BY DEF Requests
    <2>2. PICK q : q = a /\ (q = << >> \/ q = Asked("detail", new))
      BY DEF Ask, Asked
    <2>3. /\ q \in Seq(Asking) /\ Len(q) <= 1
          /\ \A i \in DOMAIN q : q # << >> /\ q[i].for = "detail" /\ q[i].seen = new
          /\ \A other : NoneOf(q, other) <=> q = << >> \/ other # "detail"
      BY <2>1, <2>2, AskedIs
    <2>4. q # << >> => Hydrates(old, new)
      BY <2>2 DEF Ask
    <2>5. \A i \in DOMAIN q : q[i] \in Asking
      BY <2>3
    <2>6. \A i \in DOMAIN q : q[i] \in T
      BY <2>3, <2>4, <2>5 DEF Wanted
    <2> HIDE DEF a, T
    <2> QED
      BY <2>2, <2>3, <2>6
  <1>2. /\ b \in Seq(Asking) /\ Len(b) <= 1
        /\ \A i \in DOMAIN b : b[i] \in T
        /\ \A other : NoneOf(b, other) <=> b = << >> \/ other # "filaments"
    <2>1. "filaments" \in Requests
      BY DEF Requests
    <2>2. PICK q : q = b /\ (q = << >> \/ q = Asked("filaments", new))
      BY DEF Ask, Asked
    <2>3. /\ q \in Seq(Asking) /\ Len(q) <= 1
          /\ \A i \in DOMAIN q : q # << >> /\ q[i].for = "filaments" /\ q[i].seen = new
          /\ \A other : NoneOf(q, other) <=> q = << >> \/ other # "filaments"
      BY <2>1, <2>2, AskedIs
    <2>4. q # << >> => WantsFilaments(old, new)
      BY <2>2 DEF Ask
    <2>5. \A i \in DOMAIN q : q[i] \in Asking
      BY <2>3
    <2>6. \A i \in DOMAIN q : q[i] \in T
      BY <2>3, <2>4, <2>5 DEF Wanted
    <2> HIDE DEF b, T
    <2> QED
      BY <2>2, <2>3, <2>6
  <1>3. /\ c \in Seq(Asking) /\ Len(c) <= 1
        /\ \A i \in DOMAIN c : c[i] \in T
        /\ \A other : NoneOf(c, other) <=> c = << >> \/ other # "colours"
    <2>1. "colours" \in Requests
      BY DEF Requests
    <2>2. PICK q : q = c /\ (q = << >> \/ q = Asked("colours", new))
      BY DEF Ask, Asked
    <2>3. /\ q \in Seq(Asking) /\ Len(q) <= 1
          /\ \A i \in DOMAIN q : q # << >> /\ q[i].for = "colours" /\ q[i].seen = new
          /\ \A other : NoneOf(q, other) <=> q = << >> \/ other # "colours"
      BY <2>1, <2>2, AskedIs
    <2>4. q # << >> => WantsColours(old, new, fresh)
      BY <2>2 DEF Ask
    <2>5. \A i \in DOMAIN q : q[i] \in Asking
      BY <2>3
    <2>6. \A i \in DOMAIN q : q[i] \in T
      BY <2>3, <2>4, <2>5 DEF Wanted
    <2> HIDE DEF c, T
    <2> QED
      BY <2>2, <2>3, <2>6
  <1>4. /\ d \in Seq(Asking) /\ Len(d) <= 1
        /\ \A i \in DOMAIN d : d[i] \in T
        /\ \A other : NoneOf(d, other) <=> d = << >> \/ other # "profiles"
    <2>1. "profiles" \in Requests
      BY DEF Requests
    <2>2. PICK q : q = d /\ (q = << >> \/ q = Asked("profiles", new))
      BY DEF Ask, Asked
    <2>3. /\ q \in Seq(Asking) /\ Len(q) <= 1
          /\ \A i \in DOMAIN q : q # << >> /\ q[i].for = "profiles" /\ q[i].seen = new
          /\ \A other : NoneOf(q, other) <=> q = << >> \/ other # "profiles"
      BY <2>1, <2>2, AskedIs
    <2>4. q # << >> => WantsProfiles(old, new)
      BY <2>2 DEF Ask
    <2>5. \A i \in DOMAIN q : q[i] \in Asking
      BY <2>3
    <2>6. \A i \in DOMAIN q : q[i] \in T
      BY <2>3, <2>4, <2>5 DEF Wanted
    <2> HIDE DEF d, T
    <2> QED
      BY <2>2, <2>3, <2>6
  <1>5. /\ a # << >> <=> Hydrates(old, new)
        /\ b # << >> <=> WantsFilaments(old, new)
        /\ c # << >> <=> WantsColours(old, new, fresh)
        /\ d # << >> <=> WantsProfiles(old, new)
    BY DEF Ask
  <1>6. Asks(old, new, fresh) = all
    BY DEF Asks, WantsFilaments, WantsColours, WantsProfiles
  <1> HIDE DEF a, b, c, d, T
  <1>7. /\ ab \in Seq(Asking) /\ Len(ab) = Len(a) + Len(b)
        /\ \A other : NoneOf(ab, other) <=> NoneOf(a, other) /\ NoneOf(b, other)
    BY <1>1, <1>2, JoinedIs, NoneJoined
  <1> HIDE DEF ab
  <1>8. /\ abc \in Seq(Asking) /\ Len(abc) = Len(ab) + Len(c)
        /\ \A other : NoneOf(abc, other) <=> NoneOf(ab, other) /\ NoneOf(c, other)
    BY <1>3, <1>7, JoinedIs, NoneJoined
  <1> HIDE DEF abc
  <1>9. /\ all \in Seq(Asking) /\ Len(all) = Len(abc) + Len(d)
        /\ \A other : NoneOf(all, other) <=> NoneOf(abc, other) /\ NoneOf(d, other)
    BY <1>4, <1>8, JoinedIs, NoneJoined
  <1>10. \A i \in DOMAIN all : all[i] \in T
    <2>1. a \in Seq(T) /\ b \in Seq(T) /\ c \in Seq(T) /\ d \in Seq(T)
      BY <1>1, <1>2, <1>3, <1>4
    <2>2. all \in Seq(T)
      BY <2>1 DEF ab, abc
    <2> QED
      BY <2>2
  <1>11. \A other : NoneOf(all, other) <=> /\ a = << >> \/ other # "detail"
                                           /\ b = << >> \/ other # "filaments"
                                           /\ c = << >> \/ other # "colours"
                                           /\ d = << >> \/ other # "profiles"
    BY <1>1, <1>2, <1>3, <1>4, <1>7, <1>8, <1>9
  <1>12. /\ NoneOf(all, "detail") <=> ~Hydrates(old, new)
         /\ NoneOf(all, "filaments") <=> ~WantsFilaments(old, new)
         /\ NoneOf(all, "colours") <=> ~WantsColours(old, new, fresh)
         /\ NoneOf(all, "profiles") <=> ~WantsProfiles(old, new)
         /\ NoneOf(all, "opened") /\ NoneOf(all, "new filament") /\ NoneOf(all, "new colour")
    BY <1>5, <1>11
  <1>13. Len(all) = Len(a) + Len(b) + Len(c) + Len(d)
    BY <1>1, <1>2, <1>3, <1>4, <1>7, <1>8, <1>9
  <1>14. a = << >> /\ c = << >> /\ d = << >> => Len(all) <= 1 /\ (b = << >> => all = << >>)
    <2> SUFFICES ASSUME a = << >>, c = << >>, d = << >>
                 PROVE  Len(all) <= 1 /\ (b = << >> => all = << >>)
      OBVIOUS
    <2>1. Len(all) = Len(b)
      BY <1>2, <1>13
    <2>2. b = << >> => Len(all) = 0
      BY <2>1
    <2> QED
      BY <1>2, <1>9, <2>1, <2>2
  <1>15. b = << >> /\ c = << >> /\ d = << >> => Len(all) <= 1
    BY <1>1, <1>13
  <1> HIDE DEF all
  <1> QED
    BY <1>5, <1>6, <1>9, <1>10, <1>12, <1>14, <1>15 DEF T

-----------------------------------------------------------------------------
(* A field becomes new.                                                    *)

Lists == [filaments : SUBSET Filaments, colours : SUBSET Colours, profiles : SUBSET Colours]

\* Every product has its brand and material, every colour its product.
LEMMA CatalogIs ==
  /\ \A f \in Filaments : MakerOf[f] \in Makers /\ KindOf[f] \in Kinds
  /\ \A c \in Colours : FilamentOf[c] \in Filaments
  /\ Unset \notin Makers /\ Unset \notin Kinds /\ Unset \notin Filaments /\ Unset \notin Colours
  BY FormParameters

\* What belongs together has a product with its colour.
LEMMA WholeIs ==
  ASSUME NEW f \in Fields, WholeFits(f)
  PROVE  f.filament = Unset => f.colour = Unset
  <1>1. f.colour \in Colours \cup {Unset}
    BY DEF Fields
  <1>2. f.colour # Unset => f.filament \in Filaments
    BY <1>1, CatalogIs DEF WholeFits, FieldFits
  <1> QED
    BY <1>2, CatalogIs

\* Only the label's form empties a colour that has no product.
LEMMA SettledIs ==
  ASSUME NEW old \in Fields, NEW new \in Fields
  PROVE  /\ Settled(old, new) \in Fields /\ Settled(old, new).profile = new.profile
         /\ form = "submit" => Settled(old, new) = new
         /\ (new.filament = Unset => new.colour = Unset) => Settled(old, new) = new
  <1>1. /\ [new EXCEPT !.colour = Unset] \in Fields
        /\ [new EXCEPT !.colour = Unset].profile = new.profile
        /\ new.colour = Unset => [new EXCEPT !.colour = Unset] = new
    BY DEF Fields
  <1> QED
    BY <1>1 DEF Settled

\* Types, and requests that could be asked.
LEMMA BecomesTyped ==
  ASSUME form \in FormKinds, field \in Fields,
         NEW new \in Fields, NEW lists \in Lists, NEW rest \in Seq(Asking), NEW fresh,
         \A i \in DOMAIN rest : IsAskable(rest[i]),
         form # "export" => new.profile = Unset,
         Become(new, lists, rest, fresh)
  PROVE  FormsAreTyped'
  <1>1. form' = form /\ field' \in Fields /\ (form' # "export" => field'.profile = Unset)
    BY SettledIs DEF Become
  <1>2. listed' \in Lists
    BY DEF Become, Effects, Lists
  <1>3. PICK q \in Seq(Asking) : q = Asks(field, new, fresh)
    BY AsksAre
  <1>4. asked' = rest \o q
    BY <1>3 DEF Become
  <1>5. ASSUME NEW r \in Wanted(field, new, fresh) PROVE IsAskable(r)
    BY <1>5 DEF Wanted, IsAskable, Hydrates, WantsColours, WantsProfiles, ProfilesDepend, FormKinds
  <1>6. \A i \in DOMAIN q : IsAskable(q[i])
    BY <1>3, <1>5, AsksAre
  <1>7. asked' \in Seq(Asking) /\ \A i \in DOMAIN asked' : IsAskable(asked'[i])
    BY <1>4, <1>6, JoinedIs
  <1>8. \A i \in DOMAIN asked' : IsAskable(asked[i])'
    BY <1>1, <1>7 DEF IsAskable
  <1> QED
    BY <1>1, <1>2, <1>7, <1>8 DEF FormsAreTyped, Lists

\* The submit form's colour keeps its product, or has asked for it.
LEMMA BecomesOfDetail ==
  ASSUME form = "submit", field \in Fields,
         NEW new \in Fields, NEW lists, NEW rest \in Seq(Asking), NEW fresh,
         new.colour = field.colour => DetailFollows(new, rest),
         Become(new, lists, rest, fresh)
  PROVE  DetailFollows(field', asked')
  <1>1. field' = new
    BY SettledIs DEF Become
  <1> SUFFICES ASSUME new.colour # Unset
               PROVE  /\ LatestIn(asked', "detail", OfColour(new.colour))
                      /\ NoneOf(asked', "detail") => FieldFits(new)
    BY <1>1 DEF DetailFollows
  <1>2. PICK q \in Seq(Asking) :
          /\ q = Asks(field, new, fresh)
          /\ \A i \in DOMAIN q : q[i] \in Wanted(field, new, fresh)
          /\ NoneOf(q, "detail") <=> ~Hydrates(field, new)
    BY AsksAre
  <1>3. asked' = rest \o q
    BY <1>2 DEF Become
  <1>4. \A j \in DOMAIN q : q[j].seen \in OfColour(new.colour)
    BY <1>2 DEF Wanted, OfColour
  <1>5. NoneOf(q, "detail") => DetailFollows(new, rest)
    BY <1>2 DEF Hydrates
  <1>6. NoneOf(q, "detail") => LatestIn(rest, "detail", OfColour(new.colour))
    BY <1>5 DEF DetailFollows
  <1>7. LatestIn(asked', "detail", OfColour(new.colour))
    BY <1>3, <1>4, <1>6, LatestJoined
  <1>8. NoneOf(asked', "detail") => NoneOf(rest, "detail") /\ NoneOf(q, "detail")
    BY <1>3, NoneJoined
  <1> QED
    BY <1>5, <1>7, <1>8 DEF DetailFollows

\* Nobody chose in between.
LEMMA BecomesUnhurried ==
  ASSUME form \in FormKinds, field \in Fields,
         NEW new \in Fields, NEW lists \in Lists, NEW rest \in Seq(Asking), NEW fresh,
         WholeFits(new),
         ~FilamentsDepend(field, new) => FilamentsFollow(new, lists, rest),
         new.filament = field.filament /\ new.colour = field.colour
            => ColoursFollow(new, lists, rest),
         form = "export" => lists.profiles \subseteq {new.colour},
         \A i \in DOMAIN rest : rest[i].for \notin {"new filament", "new colour"},
         form = "picker" => \A i \in DOMAIN rest : WholeFits(rest[i].seen),
         form # "picker" /\ rest # << >> => /\ new.filament # Unset
                                            /\ \A i \in DOMAIN rest : SawMuch(new, rest[i]),
         Become(new, lists, rest, fresh)
  PROVE  Unhurried'
  <1>1. new.filament = Unset => new.colour = Unset
    BY WholeIs
  <1>2. field' = new /\ form' = form /\ listed' = Effects(field, new, lists, fresh)
    BY <1>1, SettledIs DEF Become
  <1>3. PICK q \in Seq(Asking) :
          /\ q = Asks(field, new, fresh)
          /\ \A i \in DOMAIN q : q[i] \in Wanted(field, new, fresh)
          /\ NoneOf(q, "filaments") <=> ~WantsFilaments(field, new)
          /\ NoneOf(q, "colours") <=> ~WantsColours(field, new, fresh)
          /\ ~Hydrates(field, new) /\ ~WantsColours(field, new, fresh)
             /\ ~WantsProfiles(field, new) => Len(q) <= 1
    BY AsksAre
  <1>4. asked' = rest \o q
    BY <1>3 DEF Become
  <1>5. \A j \in DOMAIN q : /\ q[j].seen = new
                             /\ q[j].for \in {"detail", "filaments", "colours", "profiles"}
    BY <1>3 DEF Wanted
  <1>e. \A i \in DOMAIN asked' :
           (\E j \in DOMAIN rest : asked'[i] = rest[j]) \/ (\E j \in DOMAIN q : asked'[i] = q[j])
    <2> DEFINE T == {rest[j] : j \in DOMAIN rest} \cup {q[j] : j \in DOMAIN q}
    <2>1. \A i \in DOMAIN (rest \o q) : (rest \o q)[i] \in T
      <3>1. (\A i \in DOMAIN rest : rest[i] \in T) /\ (\A i \in DOMAIN q : q[i] \in T)
        OBVIOUS
      <3> HIDE DEF T
      <3> QED
        BY <3>1, EitherPart
    <2> QED
      BY <1>4, <2>1
  <1>6. FilamentsFollow(field', listed', asked')
    <2> SUFFICES ASSUME new.maker # Unset
                 PROVE  /\ LatestIn(asked', "filaments", OfMaker(new.maker, new.kind))
                        /\ NoneOf(asked', "filaments")
                              => listed'.filaments = FilamentsOf(new.maker, new.kind)
      BY <1>2 DEF FilamentsFollow
    <2>1. \A j \in DOMAIN q : q[j].seen \in OfMaker(new.maker, new.kind)
      BY <1>5 DEF OfMaker
    <2>2. NoneOf(q, "filaments") => FilamentsFollow(new, lists, rest)
      BY <1>3 DEF WantsFilaments
    <2>3. NoneOf(q, "filaments") => LatestIn(rest, "filaments", OfMaker(new.maker, new.kind))
      BY <2>2 DEF FilamentsFollow
    <2>4. LatestIn(asked', "filaments", OfMaker(new.maker, new.kind))
      BY <1>4, <2>1, <2>3, LatestJoined
    <2>5. NoneOf(asked', "filaments") => NoneOf(rest, "filaments") /\ NoneOf(q, "filaments")
      BY <1>4, NoneJoined
    <2>6. listed'.filaments = lists.filaments
      BY <1>2 DEF Effects
    <2> QED
      BY <2>2, <2>4, <2>5, <2>6 DEF FilamentsFollow
  <1>7. ColoursFollow(field', listed', asked')
    <2> SUFFICES ASSUME new.filament # Unset
                 PROVE  /\ LatestIn(asked', "colours", OfFilament(new.filament))
                        /\ NoneOf(asked', "colours")
                              => listed'.colours \subseteq ColoursOf(new.filament)
      BY <1>2 DEF ColoursFollow
    <2>1. \A j \in DOMAIN q : q[j].seen \in OfFilament(new.filament)
      BY <1>5 DEF OfFilament
    <2>2. NoneOf(q, "colours") => ColoursFollow(new, lists, rest)
      BY <1>3 DEF WantsColours, ColoursDepend
    <2>3. NoneOf(q, "colours") => LatestIn(rest, "colours", OfFilament(new.filament))
      BY <2>2 DEF ColoursFollow
    <2>4. LatestIn(asked', "colours", OfFilament(new.filament))
      BY <1>4, <2>1, <2>3, LatestJoined
    <2>5. NoneOf(asked', "colours") => NoneOf(rest, "colours") /\ NoneOf(q, "colours")
      BY <1>4, NoneJoined
    <2>6. listed'.colours = lists.colours
      BY <1>2 DEF Effects
    <2> QED
      BY <2>2, <2>4, <2>5, <2>6 DEF ColoursFollow
  <1>8. form' = "export" => listed'.profiles \subseteq {field'.colour}
    BY <1>2 DEF Effects
  <1>9. CreatedAlone'
    <2>1. ASSUME NEW i \in DOMAIN asked' PROVE asked'[i].for \notin {"new filament", "new colour"}
      BY <1>5, <1>e
    <2> QED
      BY <2>1 DEF CreatedAlone
  <1>10. PickerFits'
    <2>1. ASSUME form = "picker", NEW i \in DOMAIN asked' PROVE WholeFits(asked'[i].seen)
      <3>1. \A j \in DOMAIN rest : WholeFits(rest[j].seen)
        BY <2>1
      <3>2. \A j \in DOMAIN q : WholeFits(q[j].seen)
        BY <1>5
      <3> QED
        BY <1>e, <2>1, <3>1, <3>2
    <2> QED
      BY <1>2, <2>1 DEF PickerFits
  <1>11. OthersFit'
    <2> SUFFICES ASSUME form # "picker"
                 PROVE  /\ \A i \in DOMAIN asked' : SawMuch(new, asked'[i])
                        /\ new.filament = Unset =>
                              /\ Len(asked') <= 1
                              /\ \A i \in DOMAIN asked' : asked'[i].seen.kind = new.kind
      BY <1>2 DEF OthersFit
    <2>1. \A j \in DOMAIN q : SawMuch(new, q[j]) /\ q[j].seen.kind = new.kind
      BY <1>5 DEF SawMuch
    <2>2. \A j \in DOMAIN rest : SawMuch(new, rest[j])
      <3>1. CASE rest = << >>
        BY <3>1
      <3>2. CASE rest # << >>
        BY <3>2
      <3> QED
        BY <3>1, <3>2
    <2>3. ASSUME NEW i \in DOMAIN asked' PROVE SawMuch(new, asked'[i])
      BY <1>e, <2>1, <2>2, <2>3
    <2>4. ASSUME new.filament = Unset
          PROVE  /\ Len(asked') <= 1
                 /\ \A i \in DOMAIN asked' : asked'[i].seen.kind = new.kind
      <3>1. asked' = q
        BY <1>4, <2>4, ConcatEmptySeq
      <3>2. Len(q) <= 1
        BY <1>1, <1>3, <2>4 DEF Hydrates, WantsColours, WantsProfiles
      <3> QED
        BY <2>1, <3>1, <3>2
    <2> QED
      BY <2>3, <2>4
  <1> QED
    BY <1>6, <1>7, <1>8, <1>9, <1>10, <1>11 DEF Unhurried, ListsFollow

-----------------------------------------------------------------------------
(* The user chooses.                                                       *)

\* What a choice must see to, for the invariant to hold.
LEMMA ChoiceKeeps ==
  ASSUME FormsIInv, ~astray, NEW new \in Fields, NEW lists, Pick(new, lists),
         form # "export" => new.profile = Unset,
         lists = NoProfiles \/ (lists = listed /\ new.colour = field.colour),
         new.colour # Unset /\ new.colour = field.colour
            => new.maker = field.maker /\ new.filament = field.filament,
         ~hasty /\ asked = << >> => WholeFits(new)
  PROVE  FormsIInv'
  <1>1. FormsAreTyped /\ (form = "submit" => DetailFollows(field, asked)) /\ (~hasty => Unhurried)
    BY DEF FormsIInv
  <1>2. /\ lists \in Lists /\ Become(new, lists, asked, FALSE)
        /\ lists.filaments = listed.filaments /\ lists.colours = listed.colours
        /\ lists.profiles = {} \/ (lists.profiles = listed.profiles /\ new.colour = field.colour)
    BY <1>1 DEF Pick, FormsAreTyped, Lists, NoProfiles
  <1>3. /\ form \in FormKinds /\ field \in Fields /\ asked \in Seq(Asking)
        /\ \A i \in DOMAIN asked : IsAskable(asked[i])
        /\ form # "export" => field.profile = Unset
    BY <1>1 DEF FormsAreTyped
  <1>4. FormsAreTyped'
    BY <1>2, <1>3, BecomesTyped
  <1>5. form = "submit" => DetailFollows(field', asked')
    <2> SUFFICES ASSUME form = "submit" PROVE DetailFollows(field', asked')
      OBVIOUS
    <2>1. new.colour = field.colour => DetailFollows(new, asked)
      BY <1>1, <1>3 DEF DetailFollows, FieldFits
    <2> QED
      BY <1>2, <1>3, <2>1, BecomesOfDetail
  <1>6. ASSUME ~hasty' PROVE Unhurried'
    <2>1. ~hasty /\ asked = << >>
      BY <1>6 DEF Pick
    <2>2. ListsFollow
      BY <1>1, <2>1 DEF Unhurried
    <2>3. ~FilamentsDepend(field, new) => FilamentsFollow(new, lists, asked)
      BY <1>2, <2>2 DEF FilamentsDepend, FilamentsFollow, ListsFollow
    <2>4. new.filament = field.filament => ColoursFollow(new, lists, asked)
      BY <1>2, <2>2 DEF ColoursFollow, ListsFollow
    <2>5. form = "export" => lists.profiles \subseteq {new.colour}
      BY <1>2, <2>2 DEF ListsFollow
    <2>6. DOMAIN asked = {}
      BY <2>1
    <2> QED
      BY <1>2, <1>3, <2>1, <2>3, <2>4, <2>5, <2>6, BecomesUnhurried
  <1>7. form' = form
    BY <1>2 DEF Become
  <1> QED
    BY <1>4, <1>5, <1>6, <1>7 DEF FormsIInv

\* Nobody is waiting for anything, so what is on show belongs together.
LEMMA QuietFits ==
  ASSUME FormsIInv, ~astray, ~hasty, asked = << >>
  PROVE  /\ WholeFits(field)
         /\ field.maker # Unset => listed.filaments = FilamentsOf(field.maker, field.kind)
         /\ field.filament # Unset => listed.colours \subseteq ColoursOf(field.filament)
         /\ form = "export" => listed.profiles \subseteq {field.colour}
  <1>1. FormsAreTyped /\ Unhurried
    BY DEF FormsIInv
  <1>2. DOMAIN asked = {} /\ Len(asked) = 0
    OBVIOUS
  <1>3. WholeFits(field)
    BY <1>1, <1>2 DEF Unhurried, PickerFits, OthersFit, Opening
  <1>4. \A name : NoneOf(asked, name)
    BY <1>2 DEF NoneOf
  <1> QED
    BY <1>1, <1>3, <1>4 DEF Unhurried, ListsFollow, FilamentsFollow, ColoursFollow

\* A brand empties what is below it.
LEMMA PickMakerKeeps ==
  ASSUME FormsIInv, ~astray, NEW m \in Makers \cup {Unset}, PickMaker(m)
  PROVE  FormsIInv'
  <1>1. field \in Fields
    BY DEF FormsIInv, FormsAreTyped
  <1> DEFINE new == [Cleared(field) EXCEPT !.maker = m]
  <1>2. /\ new \in Fields /\ new.filament = Unset /\ new.colour = Unset
        /\ new.profile = Unset /\ new.maker = m
    BY <1>1 DEF Cleared, Fields
  <1>3. Pick(new, NoProfiles)
    BY DEF PickMaker, Act
  <1> HIDE DEF new
  <1>4. WholeFits(new)
    BY <1>2 DEF WholeFits, FieldFits
  <1> QED
    BY <1>2, <1>3, <1>4, ChoiceKeeps

\* A material keeps the product if it is of that material.
LEMMA PickKindKeeps ==
  ASSUME FormsIInv, ~astray, NEW k \in Kinds \cup {Unset}, PickKind(k)
  PROVE  FormsIInv'
  <1>1. field \in Fields /\ (form # "export" => field.profile = Unset)
    BY DEF FormsIInv, FormsAreTyped
  <1>2. CASE Pick([Cleared(field) EXCEPT !.kind = k], NoProfiles)
    <2> DEFINE new == [Cleared(field) EXCEPT !.kind = k]
    <2>1. /\ new \in Fields /\ new.filament = Unset /\ new.colour = Unset
          /\ new.profile = Unset
      BY <1>1 DEF Cleared, Fields
    <2>2. Pick(new, NoProfiles)
      BY <1>2
    <2> HIDE DEF new
    <2>3. WholeFits(new)
      BY <2>1 DEF WholeFits, FieldFits
    <2> QED
      BY <2>1, <2>2, <2>3, ChoiceKeeps
  <1>3. CASE /\ field.filament # Unset
             /\ ~(field.filament \in listed.filaments /\ KindOf[field.filament] # k)
             /\ Pick([field EXCEPT !.kind = k], listed)
    <2> DEFINE new == [field EXCEPT !.kind = k]
    <2>1. /\ new \in Fields /\ new.kind = k
          /\ new.filament = field.filament /\ new.colour = field.colour
          /\ new.profile = field.profile /\ new.maker = field.maker
      BY <1>1 DEF Fields
    <2>a. Pick(new, listed)
      BY <1>3
    <2> HIDE DEF new
    <2>2. ASSUME ~hasty, asked = << >> PROVE WholeFits(new)
      <3>1. WholeFits(field)
            /\ (field.maker # Unset => listed.filaments = FilamentsOf(field.maker, field.kind))
        BY <2>2, QuietFits
      <3>2. field.filament \in Filaments
        BY <1>1, <1>3 DEF Fields
      <3>3. /\ MakerOf[field.filament] = field.maker /\ field.maker # Unset
            /\ field.kind \in {Unset, KindOf[field.filament]}
        BY <1>3, <3>1, <3>2, CatalogIs DEF WholeFits, FieldFits
      <3>4. field.filament \in listed.filaments
        BY <3>1, <3>2, <3>3 DEF FilamentsOf
      <3>5. k = KindOf[new.filament]
        BY <1>3, <2>1, <3>4
      <3> QED
        BY <2>1, <3>1, <3>5 DEF WholeFits, FieldFits
    <2> QED
      BY <1>1, <2>1, <2>a, <2>2, ChoiceKeeps
  <1> QED
    BY <1>2, <1>3 DEF PickKind, Act

\* A product of the list is of the brand.
LEMMA PickFilamentKeeps ==
  ASSUME FormsIInv, ~astray, NEW f \in Filaments \cup {Unset}, PickFilament(f)
  PROVE  FormsIInv'
  <1>1. field \in Fields
    BY DEF FormsIInv, FormsAreTyped
  <1>2. (IF f = Unset THEN field.kind ELSE KindOf[f]) \in Kinds \cup {Unset}
    BY <1>1, CatalogIs DEF Fields
  <1> DEFINE new == [Cleared(field) EXCEPT !.filament = f,
                       !.kind = IF f = Unset THEN @ ELSE KindOf[f]]
  <1>3. /\ new \in Fields /\ new.filament = f /\ new.colour = Unset /\ new.profile = Unset
        /\ new.maker = field.maker /\ (f # Unset => new.kind = KindOf[f])
    BY <1>1, <1>2 DEF Cleared, Fields
  <1>4. Pick(new, NoProfiles)
    BY DEF PickFilament, Act
  <1> HIDE DEF new
  <1>5. ASSUME ~hasty, asked = << >> PROVE WholeFits(new)
    <2>1. field.maker # Unset /\ f \in listed.filaments \cup {Unset}
      BY DEF PickFilament
    <2>2. listed.filaments = FilamentsOf(field.maker, field.kind)
      BY <1>5, <2>1, QuietFits
    <2>3. f # Unset => MakerOf[f] = field.maker
      BY <2>1, <2>2 DEF FilamentsOf
    <2> QED
      BY <1>3, <2>3 DEF WholeFits, FieldFits
  <1> QED
    BY <1>3, <1>4, <1>5, ChoiceKeeps

\* A colour of the list is of the product.
LEMMA PickColourKeeps ==
  ASSUME FormsIInv, ~astray, NEW c \in Colours \cup {Unset}, PickColour(c)
  PROVE  FormsIInv'
  <1>1. field \in Fields
    BY DEF FormsIInv, FormsAreTyped
  <1> DEFINE new == [field EXCEPT !.colour = c, !.profile = Unset]
  <1>2. /\ new \in Fields /\ new.colour = c /\ new.profile = Unset /\ new.maker = field.maker
        /\ new.kind = field.kind /\ new.filament = field.filament
    BY <1>1 DEF Fields
  <1>3. Pick(new, NoProfiles)
    BY DEF PickColour, Act
  <1> HIDE DEF new
  <1>4. ASSUME ~hasty, asked = << >> PROVE WholeFits(new)
    <2>1. field.filament # Unset /\ c \in listed.colours \cup {Unset}
      BY DEF PickColour
    <2>2. listed.colours \subseteq ColoursOf(field.filament) /\ WholeFits(field)
      BY <1>4, <2>1, QuietFits
    <2>3. c # Unset => FilamentOf[c] = field.filament
      BY <2>1, <2>2 DEF ColoursOf
    <2> QED
      BY <1>2, <2>2, <2>3 DEF WholeFits, FieldFits
  <1> QED
    BY <1>2, <1>3, <1>4, ChoiceKeeps

\* A profile leaves the rest as it is.
LEMMA PickProfileKeeps ==
  ASSUME FormsIInv, ~astray, NEW p \in Colours \cup {Unset}, PickProfile(p)
  PROVE  FormsIInv'
  <1>1. /\ field \in Fields /\ form = "export"
    BY DEF FormsIInv, FormsAreTyped, PickProfile
  <1> DEFINE new == [field EXCEPT !.profile = p]
  <1>2. /\ new \in Fields /\ new.colour = field.colour
        /\ new.maker = field.maker /\ new.kind = field.kind /\ new.filament = field.filament
    BY <1>1 DEF Fields
  <1>3. Pick(new, listed)
    BY DEF PickProfile
  <1> HIDE DEF new
  <1>4. ASSUME ~hasty, asked = << >> PROVE WholeFits(new)
    <2>1. WholeFits(field)
      BY <1>4, QuietFits
    <2> QED
      BY <1>2, <2>1 DEF WholeFits, FieldFits
  <1> QED
    BY <1>1, <1>2, <1>3, <1>4, ChoiceKeeps

\* What is created is asked for alone, unless in haste.
LEMMA CreateKeeps ==
  ASSUME FormsIInv, ~astray, NEW name \in {"new filament", "new colour"}, Create(name),
         name = "new filament" => field.maker # Unset,
         name = "new colour" => field.filament # Unset
  PROVE  FormsIInv'
  <1>1. FormsAreTyped /\ (form = "submit" => DetailFollows(field, asked)) /\ (~hasty => Unhurried)
    BY DEF FormsIInv
  <1>2. field \in Fields /\ asked \in Seq(Asking) /\ \A i \in DOMAIN asked : IsAskable(asked[i])
    BY <1>1 DEF FormsAreTyped
  <1> DEFINE r == [for |-> name, seen |-> field]
             q == <<r>>
  <1>3. r \in Asking /\ r.for = name /\ r.seen = field
    BY <1>2 DEF Asking, Requests
  <1> HIDE DEF r
  <1>q. q = <<r>>
    OBVIOUS
  <1> HIDE DEF q
  <1>4. q \in Seq(Asking) /\ DOMAIN q = {1} /\ q[1] = r /\ Len(q) = 1 /\ Len(q) <= 1
    BY <1>3, <1>q, SingleIs
  <1>5. /\ UNCHANGED <<form, field, listed, astray>> /\ hasty' = (hasty \/ asked # << >>)
        /\ asked' = asked \o q /\ form \in {"submit", "picker"}
    BY <1>2, <1>3, <1>4, <1>q, AppendIsConcat DEF Create, r
  <1>6. IsAskable(r)
    BY <1>1, <1>3, <1>5 DEF IsAskable, FormsAreTyped
  <1>7. FormsAreTyped'
    <2>1. asked' \in Seq(Asking)
      BY <1>2, <1>5, <1>4, JoinedIs
    <2>2. \A i \in DOMAIN asked' :
           (\E j \in DOMAIN asked : asked'[i] = asked[j]) \/ (\E j \in DOMAIN q : asked'[i] = q[j])
      <3> DEFINE T == {asked[j] : j \in DOMAIN asked} \cup {q[j] : j \in DOMAIN q}
      <3>1. \A i \in DOMAIN (asked \o q) : (asked \o q)[i] \in T
        <4>1. (\A i \in DOMAIN asked : asked[i] \in T) /\ (\A i \in DOMAIN q : q[i] \in T)
          OBVIOUS
        <4> HIDE DEF T
        <4> QED
          BY <1>2, <1>4, <4>1, EitherPart
      <3> QED
        BY <1>5, <3>1
    <2>3. \A i \in DOMAIN asked' : IsAskable(asked'[i])
      BY <1>2, <1>4, <1>6, <2>2
    <2>4. \A i \in DOMAIN asked' : IsAskable(asked[i])'
      BY <1>5, <2>3 DEF IsAskable
    <2> QED
      BY <1>1, <1>5, <2>1, <2>4 DEF FormsAreTyped
  <1>8. ASSUME form = "submit" PROVE DetailFollows(field', asked')
    <2> SUFFICES ASSUME field.colour # Unset
                 PROVE  /\ LatestIn(asked', "detail", OfColour(field.colour))
                        /\ NoneOf(asked', "detail") => FieldFits(field)
      BY <1>5 DEF DetailFollows
    <2>1. LatestIn(asked, "detail", OfColour(field.colour))
          /\ (NoneOf(asked, "detail") => FieldFits(field))
      BY <1>1, <1>8 DEF DetailFollows
    <2>2. \A j \in DOMAIN q : q[j].for # "detail"
      BY <1>3, <1>4
    <2>3. LatestIn(asked', "detail", OfColour(field.colour))
      BY <1>2, <1>5, <2>1, <2>2, <1>4, LatestJoined
    <2>4. NoneOf(asked', "detail") => NoneOf(asked, "detail")
      BY <1>2, <1>5, <1>4, NoneJoined
    <2> QED
      BY <2>1, <2>3, <2>4
  <1>9. ASSUME ~hasty' PROVE Unhurried'
    <2>1. ~hasty /\ asked = << >>
      BY <1>5, <1>9
    <2>2. asked' = q
      BY <1>4, <1>5, <2>1, ConcatEmptySeq
    <2>3. /\ WholeFits(field)
          /\ field.maker # Unset => listed.filaments = FilamentsOf(field.maker, field.kind)
          /\ field.filament # Unset => listed.colours \subseteq ColoursOf(field.filament)
      BY <2>1, QuietFits
    <2>4. \A other : other \in {"filaments", "colours"} => \A seens : LatestIn(q, other, seens)
      BY <1>3, <1>4 DEF LatestIn, IsLatest
    <2>5. ListsFollow'
      BY <1>5, <2>2, <2>3, <2>4 DEF ListsFollow, FilamentsFollow, ColoursFollow
    <2>7. CreatedAlone'
      BY <1>3, <1>4, <1>5, <2>2 DEF CreatedAlone
    <2>8. PickerFits'
      BY <1>3, <1>4, <1>5, <2>2, <2>3 DEF PickerFits
    <2>9. OthersFit'
      <3>1. SawMuch(field, r) /\ r.seen.kind = field.kind
        BY <1>3 DEF SawMuch
      <3>2. \A i \in DOMAIN asked' : asked'[i] = r
        BY <1>4, <2>2
      <3>3. Len(asked') = 1
        BY <1>4, <2>2
      <3> QED
        <4>1. \A i \in DOMAIN asked' :
                SawMuch(field', asked'[i]) /\ asked'[i].seen.kind = field'.kind
          BY <1>5, <3>1, <3>2
        <4>2. WholeFits(field')
          BY <1>5, <2>3
        <4>3. Len(asked') <= 1
          BY <1>4, <2>2
        <4> QED
          BY <4>1, <4>2, <4>3 DEF OthersFit
    <2> QED
      BY <2>5, <2>7, <2>8, <2>9 DEF Unhurried
  <1> QED
    BY <1>5, <1>7, <1>8, <1>9 DEF FormsIInv

-----------------------------------------------------------------------------
(* The first request is answered.                                          *)

Rest == RemoveAt(asked, 1)

\* The lists and the detail that were not asked for stay as they are.
LEMMA DetailStill ==
  ASSUME asked \in Seq(Asking), asked # << >>, DetailFollows(field, asked),
         asked[1].for # "detail",
         NEW new, new.colour = field.colour, new.filament = field.filament,
         new.maker = field.maker, new.profile = field.profile
  PROVE  DetailFollows(new, Rest)
  <1> SUFFICES ASSUME field.colour # Unset
               PROVE  /\ LatestIn(Rest, "detail", OfColour(field.colour))
                      /\ NoneOf(Rest, "detail") => FieldFits(new)
    BY DEF DetailFollows
  <1>1. LatestIn(asked, "detail", OfColour(field.colour))
        /\ (NoneOf(asked, "detail") => FieldFits(field))
    BY DEF DetailFollows
  <1>2. LatestIn(Rest, "detail", OfColour(field.colour))
    BY <1>1, LatestOfRest DEF Rest
  <1>3. NoneOf(Rest, "detail") => NoneOf(asked, "detail")
    BY <1>1, LatestOfRest DEF Rest
  <1> QED
    BY <1>1, <1>2, <1>3 DEF FieldFits

\* The products on show follow, whether they were asked for first or not.
LEMMA FilamentsStill ==
  ASSUME asked \in Seq(Asking), asked # << >>, ListsFollow,
         NEW new, new.maker = field.maker, new.kind = field.kind,
         NEW lists,
         lists.filaments = IF asked[1].for = "filaments"
                           THEN FilamentsOf(asked[1].seen.maker, asked[1].seen.kind)
                           ELSE listed.filaments
  PROVE  FilamentsFollow(new, lists, Rest)
  <1> SUFFICES ASSUME field.maker # Unset
               PROVE  /\ LatestIn(Rest, "filaments", OfMaker(field.maker, field.kind))
                      /\ NoneOf(Rest, "filaments")
                            => lists.filaments = FilamentsOf(field.maker, field.kind)
    BY DEF FilamentsFollow
  <1>1. /\ LatestIn(asked, "filaments", OfMaker(field.maker, field.kind))
        /\ NoneOf(asked, "filaments") => listed.filaments = FilamentsOf(field.maker, field.kind)
    BY DEF ListsFollow, FilamentsFollow
  <1>2. LatestIn(Rest, "filaments", OfMaker(field.maker, field.kind))
    BY <1>1, LatestOfRest DEF Rest
  <1>3. ASSUME NoneOf(Rest, "filaments")
        PROVE  lists.filaments = FilamentsOf(field.maker, field.kind)
    <2>1. CASE asked[1].for = "filaments"
      <3>1. asked[1].seen \in OfMaker(field.maker, field.kind)
        BY <1>1, <1>3, <2>1, LatestOfRest DEF Rest
      <3> QED
        BY <2>1, <3>1 DEF OfMaker
    <2>2. CASE asked[1].for # "filaments"
      <3>1. NoneOf(asked, "filaments")
        BY <1>1, <1>3, <2>2, LatestOfRest DEF Rest
      <3> QED
        BY <1>1, <2>2, <3>1
    <2> QED
      BY <2>1, <2>2
  <1> QED
    BY <1>2, <1>3

\* The colours on show follow likewise; a colour of the product may join them.
LEMMA ColoursStill ==
  ASSUME asked \in Seq(Asking), asked # << >>, ListsFollow,
         NEW new, new.filament = field.filament,
         NEW lists, NEW more \in SUBSET ColoursOf(new.filament),
         lists.colours = IF asked[1].for = "colours" THEN ColoursOf(asked[1].seen.filament)
                         ELSE listed.colours \cup more
  PROVE  ColoursFollow(new, lists, Rest)
  <1> SUFFICES ASSUME field.filament # Unset
               PROVE  /\ LatestIn(Rest, "colours", OfFilament(field.filament))
                      /\ NoneOf(Rest, "colours") => lists.colours \subseteq ColoursOf(field.filament)
    BY DEF ColoursFollow
  <1>1. /\ LatestIn(asked, "colours", OfFilament(field.filament))
        /\ NoneOf(asked, "colours") => listed.colours \subseteq ColoursOf(field.filament)
    BY DEF ListsFollow, ColoursFollow
  <1>2. LatestIn(Rest, "colours", OfFilament(field.filament))
    BY <1>1, LatestOfRest DEF Rest
  <1>3. ASSUME NoneOf(Rest, "colours") PROVE lists.colours \subseteq ColoursOf(field.filament)
    <2>1. CASE asked[1].for = "colours"
      <3>1. asked[1].seen \in OfFilament(field.filament)
        BY <1>1, <1>3, <2>1, LatestOfRest DEF Rest
      <3> QED
        BY <2>1, <3>1 DEF OfFilament
    <2>2. CASE asked[1].for # "colours"
      <3>1. NoneOf(asked, "colours")
        BY <1>1, <1>3, <2>2, LatestOfRest DEF Rest
      <3> QED
        BY <1>1, <2>2, <3>1 DEF ColoursOf
    <2> QED
      BY <2>1, <2>2
  <1> QED
    BY <1>2, <1>3

\* What is known of the first request and of those behind it.
LEMMA FirstIs ==
  ASSUME FormsAreTyped, asked # << >>
  PROVE  /\ form \in FormKinds /\ field \in Fields /\ listed \in Lists
         /\ form # "export" => field.profile = Unset
         /\ asked \in Seq(Asking) /\ Rest \in Seq(Asking) /\ 1 \in DOMAIN asked
         /\ asked[1].for \in Requests /\ asked[1].seen \in Fields /\ IsAskable(asked[1])
         /\ \A i \in DOMAIN Rest : IsAskable(Rest[i])
  <1>1. asked \in Seq(Asking) /\ \A i \in DOMAIN asked : IsAskable(asked[i])
    BY DEF FormsAreTyped
  <1>2. 1 \in DOMAIN asked /\ asked[1] \in Asking
    BY <1>1
  <1>3. Rest \in Seq(Asking) /\ \A i \in DOMAIN Rest : i + 1 \in DOMAIN asked /\ Rest[i] = asked[i + 1]
    BY <1>1, RestIs DEF Rest
  <1>4. \A i \in DOMAIN Rest : IsAskable(Rest[i])
    BY <1>1, <1>3
  <1> QED
    BY <1>1, <1>2, <1>3, <1>4 DEF FormsAreTyped, Lists, Asking

\* And how they fit, if nobody chose in between.
LEMMA FirstFits ==
  ASSUME FormsAreTyped, Unhurried, asked # << >>
  PROVE  /\ \A i \in DOMAIN Rest : Rest[i].for \notin {"new filament", "new colour"}
         /\ asked[1].for \in {"new filament", "new colour"} => Rest = << >> /\ asked[1].seen = field
         /\ form = "picker" => /\ WholeFits(field) /\ WholeFits(asked[1].seen)
                               /\ \A i \in DOMAIN Rest : WholeFits(Rest[i].seen)
         /\ form # "picker" /\ Opening => Rest = << >>
         /\ form # "picker" /\ ~Opening =>
               /\ WholeFits(field) /\ SawMuch(field, asked[1])
               /\ \A i \in DOMAIN Rest : SawMuch(field, Rest[i])
               /\ field.filament = Unset => Rest = << >> /\ asked[1].seen.kind = field.kind
  <1>1. asked \in Seq(Asking) /\ Rest \in Seq(Asking) /\ 1 \in DOMAIN asked
    BY FirstIs
  <1>2. /\ Len(Rest) = Len(asked) - 1
        /\ \A i \in DOMAIN Rest : i + 1 \in DOMAIN asked /\ Rest[i] = asked[i + 1]
    BY <1>1, RestIs DEF Rest
  <1>3. Len(asked) <= 1 => Rest = << >>
    <2>1. Len(asked) \in Nat /\ Len(asked) >= 1
      BY <1>1
    <2> QED
      BY <1>1, <1>2, <2>1
  <1>4. \A i \in DOMAIN asked : asked[i].for \in {"new filament", "new colour"}
                                => Len(asked) = 1 /\ asked[1].seen = field
    BY DEF Unhurried, CreatedAlone
  <1>5. ASSUME NEW i \in DOMAIN Rest PROVE Rest[i].for \notin {"new filament", "new colour"}
    <2>1. SUFFICES ASSUME Rest[i].for \in {"new filament", "new colour"} PROVE FALSE
      OBVIOUS
    <2>2. Len(asked) = 1
      BY <1>2, <1>4, <2>1
    <2> QED
      BY <1>3, <2>2
  <1>6. asked[1].for \in {"new filament", "new colour"} => Rest = << >> /\ asked[1].seen = field
    <2>1. SUFFICES ASSUME asked[1].for \in {"new filament", "new colour"}
                   PROVE  Rest = << >> /\ asked[1].seen = field
      OBVIOUS
    <2>2. Len(asked) = 1 /\ asked[1].seen = field
      BY <1>1, <1>4, <2>1
    <2>3. Len(asked) <= 1
      BY <2>2
    <2> QED
      BY <1>3, <2>2, <2>3
  <1>7. form = "picker" => /\ WholeFits(field) /\ WholeFits(asked[1].seen)
                           /\ \A i \in DOMAIN Rest : WholeFits(Rest[i].seen)
    BY <1>1, <1>2 DEF Unhurried, PickerFits
  <1>8. Opening => Rest = << >>
    <2> SUFFICES ASSUME Opening PROVE Rest = << >>
      OBVIOUS
    <2>1. Len(asked) = 1
      BY DEF Opening
    <2>2. Len(asked) <= 1
      BY <2>1
    <2> QED
      BY <1>3, <2>2
  <1>9. ASSUME form # "picker", ~Opening
        PROVE  /\ WholeFits(field) /\ SawMuch(field, asked[1])
               /\ \A i \in DOMAIN Rest : SawMuch(field, Rest[i])
               /\ field.filament = Unset => Rest = << >> /\ asked[1].seen.kind = field.kind
    <2>1. /\ WholeFits(field) /\ \A i \in DOMAIN asked : SawMuch(field, asked[i])
          /\ field.filament = Unset => /\ Len(asked) <= 1
                                       /\ \A i \in DOMAIN asked : asked[i].seen.kind = field.kind
      BY <1>9 DEF Unhurried, OthersFit
    <2>2. \A i \in DOMAIN Rest : SawMuch(field, Rest[i])
      BY <1>2, <2>1
    <2> QED
      BY <1>1, <1>3, <2>1, <2>2
  <1> QED
    BY <1>5, <1>6, <1>7, <1>8, <1>9

\* What an answer must see to, for the invariant to hold.
LEMMA AnswerKeeps ==
  ASSUME FormsIInv, ~astray, asked # << >>, hasty' = hasty,
         NEW new \in Fields, NEW lists \in Lists, NEW fresh, Become(new, lists, Rest, fresh),
         form # "export" => new.profile = Unset,
         form = "submit" /\ new.colour = field.colour => DetailFollows(new, Rest),
         ~hasty => /\ WholeFits(new)
                   /\ ~FilamentsDepend(field, new) => FilamentsFollow(new, lists, Rest)
                   /\ new.filament = field.filament /\ new.colour = field.colour
                         => ColoursFollow(new, lists, Rest)
                   /\ form = "export" => lists.profiles \subseteq {new.colour}
                   /\ form # "picker" /\ Rest # << >> =>
                         /\ new.filament # Unset
                         /\ \A i \in DOMAIN Rest : SawMuch(new, Rest[i])
  PROVE  FormsIInv'
  <1>1. FormsAreTyped /\ (~hasty => Unhurried)
    BY DEF FormsIInv
  <1>2. /\ form \in FormKinds /\ field \in Fields /\ Rest \in Seq(Asking)
        /\ \A i \in DOMAIN Rest : IsAskable(Rest[i])
    BY <1>1, FirstIs
  <1>3. FormsAreTyped'
    BY <1>2, BecomesTyped
  <1>4. form = "submit" => DetailFollows(field', asked')
    BY <1>2, BecomesOfDetail
  <1>5. ASSUME ~hasty PROVE Unhurried'
    <2>1. Unhurried
      BY <1>1, <1>5
    <2>2. /\ \A i \in DOMAIN Rest : Rest[i].for \notin {"new filament", "new colour"}
          /\ form = "picker" => \A i \in DOMAIN Rest : WholeFits(Rest[i].seen)
      BY <1>1, <2>1, FirstFits
    <2> QED
      BY <1>2, <1>5, <2>2, BecomesUnhurried
  <1>6. form' = form
    BY DEF Become
  <1> QED
    BY <1>3, <1>4, <1>5, <1>6 DEF FormsIInv

\* The profile the page was opened with brings all above it.
LEMMA OpenedKeeps ==
  ASSUME FormsIInv, ~astray, asked # << >>, hasty' = hasty, asked[1].for = "opened",
         OpenedAnswered(asked[1].seen, Rest)
  PROVE  FormsIInv'
  <1>1. FormsAreTyped /\ (~hasty => Unhurried)
    BY DEF FormsIInv
  <1>2. /\ form = "export" /\ field \in Fields /\ listed \in Lists
        /\ asked[1].seen \in Fields /\ asked[1].seen.profile # Unset
    BY <1>1, FirstIs DEF IsAskable
  <1> DEFINE c == asked[1].seen.profile
             f == FilamentOf[c]
             new == [field EXCEPT !.maker = MakerOf[f], !.kind = KindOf[f],
                                  !.filament = f, !.colour = c]
  <1>3. c \in Colours /\ f \in Filaments /\ MakerOf[f] \in Makers /\ KindOf[f] \in Kinds
    BY <1>2, CatalogIs DEF Fields
  <1>4. /\ new \in Fields /\ new.maker = MakerOf[f] /\ new.kind = KindOf[f]
        /\ new.filament = f /\ new.colour = c /\ new.profile = field.profile
    BY <1>2, <1>3 DEF Fields
  <1>5. Become(new, listed, Rest, FALSE)
    BY DEF OpenedAnswered
  <1>6. ASSUME ~hasty
        PROVE  /\ Rest = << >> /\ field.maker = Unset /\ field.colour = Unset /\ field.profile = c
               /\ listed.profiles = {}
    <2>1. Opening
      <3>1. ~Opening => SawMuch(field, asked[1])
        BY <1>1, <1>2, <1>6, FirstFits
      <3> QED
        BY <3>1 DEF SawMuch
    <2>2. Rest = << >>
      BY <1>1, <1>2, <1>6, <2>1, FirstFits
    <2>3. PICK p \in Colours : field = [Blank EXCEPT !.profile = p] /\ asked[1].seen = field
      BY <1>2, <2>1 DEF Opening
    <2>4. field.maker = Unset /\ field.colour = Unset /\ field.profile = c
      BY <2>3 DEF Blank
    <2>5. listed.profiles \subseteq {field.colour} /\ listed.profiles \subseteq Colours
      BY <1>1, <1>2, <1>6 DEF Unhurried, ListsFollow, Lists
    <2> QED
      BY <2>2, <2>4, <2>5, CatalogIs
  <1> HIDE DEF new
  <1>7. field.profile = c => WholeFits(new)
    BY <1>3, <1>4, CatalogIs DEF WholeFits, FieldFits
  <1>8. ASSUME ~hasty
        PROVE  /\ WholeFits(new) /\ FilamentsDepend(field, new)
               /\ new.colour # field.colour
               /\ listed.profiles \subseteq {new.colour} /\ Rest = << >>
    BY <1>3, <1>4, <1>6, <1>7, <1>8, CatalogIs DEF FilamentsDepend
  <1> QED
    BY <1>2, <1>4, <1>5, <1>8, AnswerKeeps

\* The detail brings the product with its brand and material.
LEMMA DetailKeeps ==
  ASSUME FormsIInv, ~astray, asked # << >>, hasty' = hasty, asked[1].for = "detail",
         DetailAnswered(asked[1].seen, Rest)
  PROVE  FormsIInv'
  <1>1. /\ FormsAreTyped /\ (~hasty => Unhurried)
        /\ form = "submit" => DetailFollows(field, asked)
    BY DEF FormsIInv
  <1> DEFINE seen == asked[1].seen
             base == IF form = "picker" THEN seen ELSE field
             f == IF form = "submit" THEN FilamentOf[seen.colour] ELSE seen.filament
             more == IF form = "submit" THEN {seen.colour} ELSE {}
             new == [base EXCEPT !.maker = MakerOf[f], !.kind = KindOf[f], !.filament = f]
             lists == [listed EXCEPT !.colours = @ \cup more]
  <1>2. /\ field \in Fields /\ listed \in Lists /\ seen \in Fields
        /\ field.profile = Unset /\ seen.profile = Unset
        /\ asked \in Seq(Asking) /\ Rest \in Seq(Asking)
        /\ \/ form = "submit" /\ seen.colour # Unset
           \/ form = "picker" /\ seen.filament # Unset
    BY <1>1, FirstIs DEF IsAskable
  <1>3. /\ f \in Filaments /\ MakerOf[f] \in Makers /\ KindOf[f] \in Kinds
        /\ form = "submit" => seen.colour \in Colours
    BY <1>2, CatalogIs DEF Fields
  <1>4. /\ new \in Fields /\ new.maker = MakerOf[f] /\ new.kind = KindOf[f]
        /\ new.filament = f /\ new.colour = base.colour /\ new.profile = Unset
    BY <1>2, <1>3 DEF Fields
  <1>5. /\ lists \in Lists /\ lists.filaments = listed.filaments
        /\ lists.colours = listed.colours \cup more
        /\ more \subseteq ColoursOf(f)
    BY <1>2, <1>3 DEF Lists, ColoursOf
  <1>6. Become(new, lists, Rest, FALSE)
    BY DEF DetailAnswered, Base
  <1> HIDE DEF new, lists, more
  <1>7. ASSUME form = "submit", new.colour = field.colour PROVE DetailFollows(new, Rest)
    <2> SUFFICES ASSUME field.colour # Unset
                 PROVE  /\ LatestIn(Rest, "detail", OfColour(field.colour))
                        /\ NoneOf(Rest, "detail") => FieldFits(new)
      BY <1>7 DEF DetailFollows
    <2>1. LatestIn(asked, "detail", OfColour(field.colour))
      BY <1>1, <1>7 DEF DetailFollows
    <2>2. LatestIn(Rest, "detail", OfColour(field.colour))
      BY <1>2, <2>1, LatestOfRest DEF Rest
    <2>3. NoneOf(Rest, "detail") => seen \in OfColour(field.colour)
      BY <1>2, <2>1, LatestOfRest DEF Rest
    <2>4. NoneOf(Rest, "detail") => FilamentOf[field.colour] = f
      BY <1>7, <2>3 DEF OfColour
    <2> QED
      BY <1>4, <1>7, <2>2, <2>4 DEF FieldFits
  <1>8. ASSUME ~hasty
        PROVE  /\ WholeFits(new)
               /\ form # "picker" /\ Rest # << >> =>
                     /\ new.filament # Unset
                     /\ \A i \in DOMAIN Rest : SawMuch(new, Rest[i])
    <2>1. Unhurried
      BY <1>1, <1>8
    <2>2. CASE form = "picker"
      <3>1. WholeFits(seen)
        BY <1>1, <2>1, <2>2, FirstFits
      <3> QED
        BY <1>2, <1>3, <1>4, <2>2, <3>1 DEF WholeFits, FieldFits
    <2>3. CASE form = "submit" /\ Opening
      <3>1. Rest = << >>
        BY <1>1, <2>1, <2>3, FirstFits
      <3>2. seen = field
        BY <2>3 DEF Opening
      <3> QED
        BY <1>2, <1>3, <1>4, <2>3, <3>1, <3>2 DEF WholeFits, FieldFits
    <2>4. CASE form = "submit" /\ ~Opening
      <3>1. /\ WholeFits(field) /\ SawMuch(field, asked[1])
            /\ \A i \in DOMAIN Rest : SawMuch(field, Rest[i])
        BY <1>1, <2>1, <2>4, FirstFits
      <3>2. seen.colour = field.colour
        BY <1>2, <2>4, <3>1 DEF SawMuch
      <3>3. f = field.filament /\ MakerOf[f] = field.maker /\ f # Unset
        BY <1>2, <1>3, <2>4, <3>1, <3>2, CatalogIs DEF WholeFits, FieldFits
      <3>4. \A i \in DOMAIN Rest : SawMuch(new, Rest[i])
        BY <1>4, <2>4, <3>1, <3>3 DEF SawMuch
      <3>5. WholeFits(new)
        BY <1>2, <1>4, <2>4, <3>2, <3>3 DEF WholeFits, FieldFits
      <3> QED
        BY <1>4, <3>3, <3>4, <3>5
    <2> QED
      BY <1>2, <2>2, <2>3, <2>4
  <1>9. ASSUME ~hasty
        PROVE  /\ ~FilamentsDepend(field, new) => FilamentsFollow(new, lists, Rest)
               /\ new.filament = field.filament => ColoursFollow(new, lists, Rest)
    <2>1. ListsFollow
      BY <1>1, <1>9 DEF Unhurried
    <2>2. ~FilamentsDepend(field, new) => FilamentsFollow(new, lists, Rest)
      BY <1>2, <1>5, <2>1, FilamentsStill DEF FilamentsDepend
    <2>3. new.filament = field.filament => ColoursFollow(new, lists, Rest)
      BY <1>2, <1>4, <1>5, <2>1, ColoursStill
    <2> QED
      BY <2>2, <2>3
  <1> HIDE DEF f
  <1> QED
    BY <1>2, <1>4, <1>5, <1>6, <1>7, <1>8, <1>9, AnswerKeeps

\* A list of products, whose only member is chosen.
LEMMA FilamentsKeeps ==
  ASSUME FormsIInv, ~astray, asked # << >>, hasty' = hasty, asked[1].for = "filaments",
         FilamentsAnswered(asked[1].seen, Rest)
  PROVE  FormsIInv'
  <1>1. /\ FormsAreTyped /\ (~hasty => Unhurried)
        /\ form = "submit" => DetailFollows(field, asked)
    BY DEF FormsIInv
  <1> DEFINE seen == asked[1].seen
             base == IF form = "picker" THEN seen ELSE field
             rows == FilamentsOf(seen.maker, seen.kind)
             only == CHOOSE f \in rows : TRUE
             alone == seen.filament = Unset /\ Cardinality(rows) = 1
             picked == [base EXCEPT !.filament = only, !.colour = Unset]
             new == IF alone THEN picked ELSE field
             profiles == IF alone THEN {} ELSE listed.profiles
             lists == [listed EXCEPT !.filaments = rows, !.profiles = profiles]
  <1>2. /\ field \in Fields /\ listed \in Lists /\ seen \in Fields
        /\ form # "export" => field.profile = Unset /\ seen.profile = Unset
        /\ asked \in Seq(Asking) /\ Rest \in Seq(Asking)
    BY <1>1, FirstIs DEF IsAskable
  <1>3. rows \subseteq Filaments /\ (alone => only \in rows)
    <2>1. rows \subseteq Filaments
      BY DEF FilamentsOf
    <2>2. Cardinality(rows) = 1 => rows # {}
      BY FS_EmptySet
    <2> QED
      BY <2>1, <2>2
  <1>4. alone => /\ picked \in Fields /\ picked.maker = base.maker /\ picked.kind = base.kind
                 /\ picked.filament = only /\ picked.colour = Unset
                 /\ picked.profile = base.profile
    BY <1>2, <1>3 DEF Fields
  <1>5. new \in Fields /\ (form # "export" => new.profile = Unset)
    BY <1>2, <1>4
  <1>6. /\ lists \in Lists /\ lists.filaments = rows /\ lists.colours = listed.colours
        /\ lists.profiles = profiles
    BY <1>2, <1>3 DEF Lists
  <1>7. Become(new, lists, Rest, TRUE)
    BY DEF FilamentsAnswered, Base
  <1>8. /\ alone => new = picked
        /\ ~alone => new = field
        /\ profiles = IF alone THEN {} ELSE listed.profiles
    OBVIOUS
  <1> HIDE DEF new, lists, profiles, picked, only, alone
  <1>9. ASSUME form = "submit", new.colour = field.colour PROVE DetailFollows(new, Rest)
    <2>1. CASE alone
      BY <1>4, <1>8, <2>1 DEF DetailFollows
    <2>2. CASE ~alone
      BY <1>1, <1>2, <1>8, <1>9, <2>2, DetailStill
    <2> QED
      BY <2>1, <2>2
  <1>10. ASSUME ~hasty
         PROVE  /\ WholeFits(new)
                /\ form # "picker" /\ Rest # << >> =>
                      /\ new.filament # Unset
                      /\ \A i \in DOMAIN Rest : SawMuch(new, Rest[i])
    <2>1. Unhurried
      BY <1>1, <1>10
    <2>2. alone => only \in Filaments /\ MakerOf[only] = seen.maker /\ seen.kind \in {Unset, KindOf[only]}
      BY <1>3 DEF FilamentsOf
    <2>3. CASE form = "picker"
      <3>1. WholeFits(field) /\ WholeFits(seen)
        BY <1>1, <2>1, <2>3, FirstFits
      <3>2. alone => WholeFits(picked)
        BY <1>2, <1>4, <2>2, <2>3 DEF WholeFits, FieldFits
      <3> QED
        BY <1>8, <2>3, <3>1, <3>2
    <2>4. CASE form # "picker"
      <3>1. ~Opening
        BY DEF Opening
      <3>2. /\ WholeFits(field) /\ SawMuch(field, asked[1])
            /\ \A i \in DOMAIN Rest : SawMuch(field, Rest[i])
            /\ field.filament = Unset => Rest = << >> /\ seen.kind = field.kind
        BY <1>1, <2>1, <2>4, <3>1, FirstFits
      <3>3. seen.maker = field.maker /\ seen.filament = field.filament
        BY <3>2 DEF SawMuch
      <3>4. CASE alone
        <4>1. field.filament = Unset /\ field.colour = Unset
          BY <1>2, <3>2, <3>3, <3>4, WholeIs DEF alone
        <4>2. WholeFits(picked)
          BY <1>4, <2>2, <2>4, <3>2, <3>3, <3>4, <4>1 DEF WholeFits, FieldFits
        <4> QED
          BY <1>8, <3>2, <3>4, <4>1, <4>2
      <3>5. CASE ~alone
        BY <1>8, <3>2, <3>5
      <3> QED
        BY <3>4, <3>5
    <2> QED
      BY <2>3, <2>4
  <1>11. ASSUME ~hasty
         PROVE  /\ ~FilamentsDepend(field, new) => FilamentsFollow(new, lists, Rest)
                /\ new.filament = field.filament => ColoursFollow(new, lists, Rest)
                /\ form = "export" => lists.profiles \subseteq {new.colour}
    <2>1. ListsFollow
      BY <1>1, <1>11 DEF Unhurried
    <2>2. ~FilamentsDepend(field, new) => FilamentsFollow(new, lists, Rest)
      BY <1>2, <1>6, <2>1, FilamentsStill DEF FilamentsDepend
    <2>3. PICK more \in SUBSET ColoursOf(new.filament) : lists.colours = listed.colours \cup more
      <3>1. {} \in SUBSET ColoursOf(new.filament) /\ lists.colours = listed.colours \cup {}
        BY <1>6
      <3> QED
        BY <3>1
    <2>4. new.filament = field.filament => ColoursFollow(new, lists, Rest)
      BY <1>2, <2>1, <2>3, ColoursStill
    <2>5. form = "export" => lists.profiles \subseteq {new.colour}
      BY <1>6, <1>8, <2>1 DEF ListsFollow
    <2> QED
      BY <2>2, <2>4, <2>5
  <1> QED
    BY <1>5, <1>6, <1>7, <1>9, <1>10, <1>11, AnswerKeeps

\* A list of colours, whose only member is chosen.
LEMMA ColoursKeeps ==
  ASSUME FormsIInv, ~astray, asked # << >>, hasty' = hasty, asked[1].for = "colours",
         ColoursAnswered(asked[1].seen, Rest)
  PROVE  FormsIInv'
  <1>1. /\ FormsAreTyped /\ (~hasty => Unhurried)
        /\ form = "submit" => DetailFollows(field, asked)
    BY DEF FormsIInv
  <1> DEFINE seen == asked[1].seen
             base == IF form = "picker" THEN seen ELSE field
             rows == ColoursOf(seen.filament)
             only == CHOOSE c \in rows : TRUE
             alone == seen.colour = Unset /\ Cardinality(rows) = 1
             picked == [base EXCEPT !.colour = only]
             new == IF alone THEN picked ELSE field
             profiles == IF alone THEN {} ELSE listed.profiles
             lists == [listed EXCEPT !.colours = rows, !.profiles = profiles]
  <1>2. /\ field \in Fields /\ listed \in Lists /\ seen \in Fields
        /\ form # "export" => field.profile = Unset /\ seen.profile = Unset
        /\ asked \in Seq(Asking) /\ Rest \in Seq(Asking) /\ seen.filament # Unset
    BY <1>1, FirstIs DEF IsAskable
  <1>3. rows \subseteq Colours /\ (alone => rows = {only} /\ only \in Colours)
    <2>1. rows \subseteq Colours
      BY DEF ColoursOf
    <2>2. IsFiniteSet(rows)
      BY <2>1, FormParameters, FS_Subset
    <2>3. Cardinality(rows) = 1 => \E c : rows = {c}
      BY <2>2, FS_Singleton
    <2> QED
      BY <2>1, <2>3
  <1>4. alone => /\ picked \in Fields /\ picked.maker = base.maker /\ picked.kind = base.kind
                 /\ picked.filament = base.filament /\ picked.colour = only
                 /\ picked.profile = base.profile
                 /\ base.colour = only => picked = base
    BY <1>2, <1>3 DEF Fields
  <1>5. new \in Fields /\ (form # "export" => new.profile = Unset)
    BY <1>2, <1>4
  <1>6. /\ lists \in Lists /\ lists.filaments = listed.filaments /\ lists.colours = rows
        /\ lists.profiles = profiles
    BY <1>2, <1>3 DEF Lists
  <1>7. Become(new, lists, Rest, FALSE)
    BY DEF ColoursAnswered, Base
  <1>8. /\ alone => new = picked
        /\ ~alone => new = field
        /\ profiles = IF alone THEN {} ELSE listed.profiles
    OBVIOUS
  <1> HIDE DEF new, lists, profiles, picked, only, alone
  <1>9. ASSUME form = "submit", new.colour = field.colour PROVE DetailFollows(new, Rest)
    <2>1. new.filament = field.filament /\ new.maker = field.maker /\ new.profile = field.profile
      BY <1>2, <1>4, <1>5, <1>8, <1>9
    <2> QED
      BY <1>1, <1>2, <1>9, <2>1, DetailStill
  <1>10. ASSUME ~hasty
         PROVE  /\ WholeFits(new)
                /\ form # "picker" /\ Rest # << >> =>
                      /\ new.filament # Unset
                      /\ \A i \in DOMAIN Rest : SawMuch(new, Rest[i])
    <2>1. Unhurried
      BY <1>1, <1>10
    <2>2. alone => only \in Colours /\ only # Unset /\ FilamentOf[only] = seen.filament
      BY <1>3, CatalogIs DEF ColoursOf
    <2>3. CASE form = "picker"
      <3>1. WholeFits(field) /\ WholeFits(seen)
        BY <1>1, <2>1, <2>3, FirstFits
      <3>2. alone => WholeFits(picked)
        BY <1>2, <1>4, <2>2, <2>3, <3>1 DEF WholeFits, FieldFits
      <3> QED
        BY <1>8, <2>3, <3>1, <3>2
    <2>4. CASE form # "picker"
      <3>1. ~Opening
        BY DEF Opening
      <3>2. /\ WholeFits(field) /\ SawMuch(field, asked[1])
            /\ \A i \in DOMAIN Rest : SawMuch(field, Rest[i])
        BY <1>1, <2>1, <2>4, <3>1, FirstFits
      <3>3. seen.filament = field.filament
        BY <3>2 DEF SawMuch
      <3>4. CASE alone
        <4>1. field.colour # Unset => field.colour = only
          <5>1. field.colour # Unset => field.colour \in ColoursOf(field.filament)
            BY <1>2, <3>2 DEF WholeFits, FieldFits, ColoursOf, Fields
          <5> QED
            BY <1>3, <3>3, <3>4, <5>1
        <4>2. /\ new.maker = field.maker /\ new.kind = field.kind /\ new.filament = field.filament
              /\ new.colour = only /\ new.profile = field.profile
          BY <1>4, <1>8, <2>4, <3>4
        <4>3. WholeFits(new)
          BY <2>2, <3>2, <3>3, <3>4, <4>1, <4>2 DEF WholeFits, FieldFits
        <4>4. \A i \in DOMAIN Rest : SawMuch(new, Rest[i])
          BY <3>2, <4>1, <4>2 DEF SawMuch
        <4> QED
          BY <1>2, <3>3, <4>2, <4>3, <4>4
      <3>5. CASE ~alone
        BY <1>2, <1>8, <3>2, <3>3, <3>5
      <3> QED
        BY <3>4, <3>5
    <2> QED
      BY <2>3, <2>4
  <1>11. ASSUME ~hasty
         PROVE  /\ ~FilamentsDepend(field, new) => FilamentsFollow(new, lists, Rest)
                /\ new.filament = field.filament => ColoursFollow(new, lists, Rest)
                /\ form = "export" => lists.profiles \subseteq {new.colour}
    <2>1. ListsFollow
      BY <1>1, <1>11 DEF Unhurried
    <2>2. ~FilamentsDepend(field, new) => FilamentsFollow(new, lists, Rest)
      BY <1>2, <1>6, <2>1, FilamentsStill DEF FilamentsDepend
    <2>3. {} \subseteq ColoursOf(new.filament)
      OBVIOUS
    <2>4. new.filament = field.filament => ColoursFollow(new, lists, Rest)
      BY <1>2, <1>6, <2>1, <2>3, ColoursStill
    <2>5. form = "export" => lists.profiles \subseteq {new.colour}
      BY <1>6, <1>8, <2>1 DEF ListsFollow
    <2> QED
      BY <2>2, <2>4, <2>5
  <1> QED
    BY <1>5, <1>6, <1>7, <1>9, <1>10, <1>11, AnswerKeeps

\* The profile of the colour is chosen.
LEMMA ProfilesKeeps ==
  ASSUME FormsIInv, ~astray, asked # << >>, hasty' = hasty, asked[1].for = "profiles",
         ProfilesAnswered(asked[1].seen, Rest)
  PROVE  FormsIInv'
  <1>1. FormsAreTyped /\ (~hasty => Unhurried)
    BY DEF FormsIInv
  <1> DEFINE seen == asked[1].seen
             new == IF seen.profile = Unset THEN [field EXCEPT !.profile = seen.colour] ELSE field
             lists == [listed EXCEPT !.profiles = {seen.colour}]
  <1>2. /\ form = "export" /\ field \in Fields /\ listed \in Lists /\ seen \in Fields
        /\ asked \in Seq(Asking) /\ Rest \in Seq(Asking) /\ seen.colour # Unset
    BY <1>1, FirstIs DEF IsAskable
  <1>3. seen.colour \in Colours
    BY <1>2 DEF Fields
  <1>4. /\ new \in Fields /\ new.maker = field.maker /\ new.kind = field.kind
        /\ new.filament = field.filament /\ new.colour = field.colour
        /\ new.profile \in {field.profile, seen.colour}
    BY <1>2, <1>3 DEF Fields
  <1>5. /\ lists \in Lists /\ lists.filaments = listed.filaments /\ lists.colours = listed.colours
        /\ lists.profiles = {seen.colour}
    BY <1>2, <1>3 DEF Lists
  <1>6. Become(new, lists, Rest, FALSE)
    BY DEF ProfilesAnswered
  <1> HIDE DEF new, lists
  <1>7. ASSUME ~hasty
        PROVE  /\ WholeFits(new) /\ lists.profiles \subseteq {new.colour}
               /\ Rest # << >> => /\ new.filament # Unset
                                  /\ \A i \in DOMAIN Rest : SawMuch(new, Rest[i])
    <2>1. ~Opening
      BY DEF Opening
    <2>2. /\ WholeFits(field) /\ SawMuch(field, asked[1])
          /\ \A i \in DOMAIN Rest : SawMuch(field, Rest[i])
      BY <1>1, <1>2, <1>7, <2>1, FirstFits
    <2>3. seen.colour = field.colour
      BY <1>2, <2>2 DEF SawMuch
    <2>4. field.filament # Unset
      BY <1>2, <2>2, <2>3, WholeIs
    <2>5. WholeFits(new)
      BY <1>2, <1>4, <2>2, <2>3 DEF WholeFits, FieldFits
    <2>6. \A i \in DOMAIN Rest : SawMuch(new, Rest[i])
      BY <1>4, <2>2 DEF SawMuch
    <2> QED
      BY <1>4, <1>5, <2>3, <2>4, <2>5, <2>6
  <1>8. ASSUME ~hasty
        PROVE  FilamentsFollow(new, lists, Rest) /\ ColoursFollow(new, lists, Rest)
    <2>1. ListsFollow
      BY <1>1, <1>8 DEF Unhurried
    <2>2. FilamentsFollow(new, lists, Rest)
      BY <1>2, <1>4, <1>5, <2>1, FilamentsStill
    <2>3. PICK more \in SUBSET ColoursOf(new.filament) : lists.colours = listed.colours \cup more
      <3>1. {} \in SUBSET ColoursOf(new.filament) /\ lists.colours = listed.colours \cup {}
        BY <1>5
      <3> QED
        BY <3>1
    <2>4. ColoursFollow(new, lists, Rest)
      BY <1>2, <1>4, <2>1, <2>3, ColoursStill
    <2> QED
      BY <2>2, <2>4
  <1> QED
    BY <1>2, <1>4, <1>5, <1>6, <1>7, <1>8, AnswerKeeps

\* A created product is of the brand it was created for.
LEMMA FilamentCreatedKeeps ==
  ASSUME FormsIInv, ~astray, asked # << >>, hasty' = hasty, asked[1].for = "new filament",
         FilamentCreated(asked[1].seen, Rest)
  PROVE  FormsIInv'
  <1>1. /\ FormsAreTyped /\ (~hasty => Unhurried)
        /\ form = "submit" => DetailFollows(field, asked)
    BY DEF FormsIInv
  <1> DEFINE seen == asked[1].seen
             base == IF form = "picker" THEN seen ELSE field
             rows == FilamentsOf(seen.maker, seen.kind)
             lists == [listed EXCEPT !.filaments = rows]
  <1>2. /\ form \in {"submit", "picker"} /\ field \in Fields /\ listed \in Lists /\ seen \in Fields
        /\ asked \in Seq(Asking) /\ Rest \in Seq(Asking)
    BY <1>1, FirstIs DEF IsAskable
  <1>3. PICK f \in rows : Become([Cleared(base) EXCEPT !.filament = f], lists, Rest, TRUE)
    BY DEF FilamentCreated, Base
  <1> DEFINE new == [Cleared(base) EXCEPT !.filament = f]
  <1>4. f \in Filaments /\ MakerOf[f] = seen.maker /\ seen.kind \in {Unset, KindOf[f]}
    BY <1>3 DEF FilamentsOf
  <1>5. /\ new \in Fields /\ new.maker = base.maker /\ new.kind = base.kind
        /\ new.filament = f /\ new.colour = Unset /\ new.profile = Unset
    BY <1>2, <1>4 DEF Fields, Cleared
  <1>6. lists \in Lists /\ lists.filaments = rows /\ lists.colours = listed.colours
        /\ lists.profiles = listed.profiles
    BY <1>2 DEF Lists, FilamentsOf
  <1>7. Become(new, lists, Rest, TRUE)
    BY <1>3
  <1> HIDE DEF new, lists
  <1>8. DetailFollows(new, Rest)
    BY <1>5 DEF DetailFollows
  <1>9. ASSUME ~hasty
        PROVE  /\ WholeFits(new) /\ Rest = << >>
               /\ ~FilamentsDepend(field, new) => FilamentsFollow(new, lists, Rest)
               /\ new.filament = field.filament => ColoursFollow(new, lists, Rest)
    <2>1. Unhurried /\ ListsFollow
      BY <1>1, <1>9 DEF Unhurried
    <2>2. Rest = << >> /\ seen = field
      BY <1>1, <2>1, FirstFits
    <2>3. WholeFits(new)
      BY <1>4, <1>5, <2>2 DEF WholeFits, FieldFits
    <2>d. DOMAIN Rest = {}
      BY <2>2, EmptyIs
    <2>4. NoneOf(Rest, "filaments") /\ LatestIn(Rest, "filaments", OfMaker(new.maker, new.kind))
      BY <2>d DEF NoneOf, LatestIn, IsLatest
    <2>5. FilamentsFollow(new, lists, Rest)
      BY <1>5, <1>6, <2>2, <2>4 DEF FilamentsFollow
    <2>6. PICK more \in SUBSET ColoursOf(new.filament) : lists.colours = listed.colours \cup more
      <3>1. {} \in SUBSET ColoursOf(new.filament) /\ lists.colours = listed.colours \cup {}
        BY <1>6
      <3> QED
        BY <3>1
    <2>7. new.filament = field.filament => ColoursFollow(new, lists, Rest)
      BY <1>2, <2>1, <2>6, ColoursStill
    <2> QED
      BY <2>2, <2>3, <2>5, <2>7
  <1> QED
    BY <1>2, <1>5, <1>6, <1>7, <1>8, <1>9, AnswerKeeps

\* A created colour is of the product it was created for.
LEMMA ColourCreatedKeeps ==
  ASSUME FormsIInv, ~astray, asked # << >>, hasty' = hasty, asked[1].for = "new colour",
         ColourCreated(asked[1].seen, Rest)
  PROVE  FormsIInv'
  <1>1. /\ FormsAreTyped /\ (~hasty => Unhurried)
        /\ form = "submit" => DetailFollows(field, asked)
    BY DEF FormsIInv
  <1> DEFINE seen == asked[1].seen
             base == IF form = "picker" THEN seen ELSE field
             rows == ColoursOf(seen.filament)
             lists == [listed EXCEPT !.colours = rows]
  <1>2. /\ form \in {"submit", "picker"} /\ field \in Fields /\ listed \in Lists /\ seen \in Fields
        /\ field.profile = Unset /\ seen.profile = Unset
        /\ asked \in Seq(Asking) /\ Rest \in Seq(Asking)
    BY <1>1, FirstIs DEF IsAskable
  <1>3. PICK c \in rows : Become([base EXCEPT !.colour = c], lists, Rest, FALSE)
    BY DEF ColourCreated, Base
  <1> DEFINE new == [base EXCEPT !.colour = c]
  <1>4. c \in Colours /\ FilamentOf[c] = seen.filament
    BY <1>3 DEF ColoursOf
  <1>5. /\ new \in Fields /\ new.maker = base.maker /\ new.kind = base.kind
        /\ new.filament = base.filament /\ new.colour = c /\ new.profile = Unset
    BY <1>2, <1>4 DEF Fields
  <1>6. lists \in Lists /\ lists.filaments = listed.filaments /\ lists.colours = rows
        /\ lists.profiles = listed.profiles
    BY <1>2 DEF Lists, ColoursOf
  <1>7. Become(new, lists, Rest, FALSE)
    BY <1>3
  <1> HIDE DEF new, lists
  <1>8. ASSUME form = "submit", new.colour = field.colour PROVE DetailFollows(new, Rest)
    <2>1. /\ new.filament = field.filament /\ new.maker = field.maker
          /\ new.profile = field.profile
      BY <1>2, <1>5, <1>8
    <2> QED
      BY <1>1, <1>2, <1>8, <2>1, DetailStill
  <1>9. ASSUME ~hasty
        PROVE  /\ WholeFits(new) /\ Rest = << >>
               /\ FilamentsFollow(new, lists, Rest) /\ ColoursFollow(new, lists, Rest)
    <2>1. Unhurried /\ ListsFollow
      BY <1>1, <1>9 DEF Unhurried
    <2>2. Rest = << >> /\ seen = field
      BY <1>1, <2>1, FirstFits
    <2>3. WholeFits(field)
      <3>1. CASE form = "picker"
        BY <1>1, <2>1, <3>1, FirstFits
      <3>2. CASE form # "picker"
        <4>1. ~Opening
          BY DEF Opening
        <4> QED
          BY <1>1, <2>1, <3>2, <4>1, FirstFits
      <3> QED
        BY <3>1, <3>2
    <2>4. WholeFits(new)
      BY <1>4, <1>5, <2>2, <2>3 DEF WholeFits, FieldFits
    <2>5. FilamentsFollow(new, lists, Rest)
      BY <1>2, <1>5, <1>6, <2>1, <2>2, FilamentsStill
    <2>d. DOMAIN Rest = {}
      BY <2>2, EmptyIs
    <2>6. NoneOf(Rest, "colours") /\ LatestIn(Rest, "colours", OfFilament(new.filament))
      BY <2>d DEF NoneOf, LatestIn, IsLatest
    <2>7. ColoursFollow(new, lists, Rest)
      BY <1>5, <1>6, <2>2, <2>6 DEF ColoursFollow
    <2> QED
      BY <2>2, <2>4, <2>5, <2>7
  <1> QED
    BY <1>2, <1>5, <1>6, <1>7, <1>8, <1>9, AnswerKeeps

-----------------------------------------------------------------------------
\* A form opens empty or with what its address says, and asks for the rest.
LEMMA FormsBegin ==
  ASSUME FormsInit
  PROVE  FormsIInv
  <1> DEFINE opener == IF field.profile = Unset THEN << >>
                       ELSE <<[for |-> "opened", seen |-> field]>>
             effects == Asks(Blank, field, FALSE)
  <1>1. /\ form \in FormKinds /\ asked = opener \o effects
        /\ listed = [filaments |-> {}, colours |-> {}, profiles |-> {}]
        /\ ~hasty
    BY DEF FormsInit
  <1>2. /\ Blank \in Fields /\ Blank.maker = Unset /\ Blank.kind = Unset
        /\ Blank.filament = Unset /\ Blank.colour = Unset /\ Blank.profile = Unset
    BY DEF Blank, Fields
  <1>3. \/ field = Blank
        \/ form = "submit" /\ \E c \in Colours : field = [Blank EXCEPT !.colour = c]
        \/ form = "export" /\ \E c \in Colours : field = [Blank EXCEPT !.profile = c]
        \/ form = "picker" /\ \E c \in Colours :
                 field = [Blank EXCEPT !.maker = MakerOf[FilamentOf[c]],
                                       !.filament = FilamentOf[c], !.colour = c]
    BY DEF FormsInit, Opened, FormKinds
  <1>4. /\ field \in Fields
        /\ form # "export" => field.profile = Unset
        /\ field.kind = Unset
        /\ form = "export" => field.maker = Unset /\ field.filament = Unset /\ field.colour = Unset
        /\ form = "submit" => field.maker = Unset /\ field.filament = Unset
        /\ form \notin {"export", "submit"} => WholeFits(field)
    <2>1. CASE field = Blank
      BY <1>2, <2>1 DEF WholeFits, FieldFits
    <2>2. CASE form = "submit" /\ \E c \in Colours : field = [Blank EXCEPT !.colour = c]
      BY <1>2, <2>2 DEF Fields
    <2>3. CASE form = "export" /\ \E c \in Colours : field = [Blank EXCEPT !.profile = c]
      BY <1>2, <2>3 DEF Fields
    <2>4. ASSUME form = "picker", NEW c \in Colours,
                 field = [Blank EXCEPT !.maker = MakerOf[FilamentOf[c]],
                                       !.filament = FilamentOf[c], !.colour = c]
          PROVE  /\ field \in Fields /\ field.kind = Unset /\ field.profile = Unset
                 /\ WholeFits(field)
      <3>1. FilamentOf[c] \in Filaments /\ MakerOf[FilamentOf[c]] \in Makers /\ c # Unset
        BY CatalogIs
      <3>2. /\ field \in Fields /\ field.kind = Unset /\ field.profile = Unset
            /\ field.maker = MakerOf[FilamentOf[c]] /\ field.filament = FilamentOf[c]
            /\ field.colour = c
        BY <1>2, <2>4, <3>1 DEF Fields
      <3> QED
        BY <3>1, <3>2 DEF WholeFits, FieldFits
    <2> QED
      BY <1>3, <2>1, <2>2, <2>3, <2>4
  <1>5. /\ effects \in Seq(Asking)
        /\ \A i \in DOMAIN effects : effects[i] \in Wanted(Blank, field, FALSE)
        /\ NoneOf(effects, "detail") <=> ~Hydrates(Blank, field)
        /\ NoneOf(effects, "filaments") <=> ~WantsFilaments(Blank, field)
        /\ NoneOf(effects, "colours") <=> ~WantsColours(Blank, field, FALSE)
        /\ ~WantsFilaments(Blank, field) /\ ~WantsColours(Blank, field, FALSE)
           /\ ~WantsProfiles(Blank, field) => Len(effects) <= 1
        /\ ~Hydrates(Blank, field) /\ ~WantsFilaments(Blank, field)
           /\ ~WantsColours(Blank, field, FALSE) /\ ~WantsProfiles(Blank, field)
              => effects = << >>
    BY <1>2, <1>4, AsksAre
  <1> HIDE DEF effects
  <1>6. \A i \in DOMAIN effects : /\ IsAskable(effects[i]) /\ effects[i].seen = field
                                  /\ effects[i].for \in {"detail", "filaments", "colours", "profiles"}
    <2>1. ASSUME NEW r \in Wanted(Blank, field, FALSE)
          PROVE  /\ IsAskable(r) /\ r.seen = field
                 /\ r.for \in {"detail", "filaments", "colours", "profiles"}
      BY <1>4, <2>1 DEF Wanted, IsAskable, Hydrates, WantsColours, WantsProfiles, ProfilesDepend
    <2> QED
      BY <1>5, <2>1
  <1>7. CASE field.profile # Unset
    <2>1. form = "export" /\ \E c \in Colours : field = [Blank EXCEPT !.profile = c]
      BY <1>2, <1>3, <1>4, <1>7
    <2>2. effects = << >>
      BY <1>4, <1>5, <2>1 DEF Hydrates, WantsFilaments, WantsColours, WantsProfiles
    <2> DEFINE r == [for |-> "opened", seen |-> field]
    <2>3. r \in Asking /\ r.for = "opened" /\ r.seen = field
      BY <1>4 DEF Asking, Requests
    <2>4. asked = <<r>>
      <3>1. asked = <<r>> \o << >>
        BY <1>1, <1>7, <2>2
      <3> QED
        BY <2>3, <3>1, SingleIs, ConcatEmptySeq
    <2> HIDE DEF r
    <2>5. asked \in Seq(Asking) /\ Len(asked) = 1 /\ DOMAIN asked = {1} /\ asked[1] = r
      BY <2>3, <2>4, SingleIs
    <2>6. IsAskable(r)
      BY <1>7, <2>1, <2>3 DEF IsAskable
    <2>7. FormsAreTyped
      BY <1>1, <1>4, <2>5, <2>6 DEF FormsAreTyped
    <2>8. ListsFollow
      BY <1>1, <1>4, <2>1 DEF ListsFollow, FilamentsFollow, ColoursFollow
    <2>9. CreatedAlone /\ PickerFits
      BY <2>1, <2>3, <2>5 DEF CreatedAlone, PickerFits
    <2>10. OthersFit
      BY <2>1, <2>3, <2>5 DEF OthersFit, Opening
    <2> QED
      BY <2>1, <2>7, <2>8, <2>9, <2>10 DEF FormsIInv, Unhurried
  <1>8. CASE field.profile = Unset
    <2>1. asked = effects
      <3>1. asked = << >> \o effects
        BY <1>1, <1>8
      <3> QED
        BY <1>5, <3>1, ConcatEmptySeq
    <2>2. FormsAreTyped
      BY <1>1, <1>4, <1>5, <1>6, <2>1 DEF FormsAreTyped
    <2>3. ASSUME form = "submit" PROVE DetailFollows(field, asked)
      <3> SUFFICES ASSUME field.colour # Unset
                   PROVE  /\ LatestIn(asked, "detail", OfColour(field.colour))
                          /\ NoneOf(asked, "detail") => FieldFits(field)
        BY DEF DetailFollows
      <3>1. ~NoneOf(asked, "detail")
        BY <1>2, <1>5, <2>1, <2>3 DEF Hydrates
      <3>2. \A i \in DOMAIN asked : asked[i].seen \in OfColour(field.colour)
        BY <1>4, <1>6, <2>1 DEF OfColour
      <3> QED
        BY <3>1, <3>2 DEF LatestIn, IsLatest
    <2>4. FilamentsFollow(field, listed, asked)
      <3> SUFFICES ASSUME field.maker # Unset
                   PROVE  /\ LatestIn(asked, "filaments", OfMaker(field.maker, field.kind))
                          /\ ~NoneOf(asked, "filaments")
        BY DEF FilamentsFollow
      <3>1. ~NoneOf(asked, "filaments")
        BY <1>2, <1>5, <2>1 DEF WantsFilaments, FilamentsDepend
      <3>2. \A i \in DOMAIN asked : asked[i].seen \in OfMaker(field.maker, field.kind)
        BY <1>4, <1>6, <2>1 DEF OfMaker
      <3> QED
        BY <3>1, <3>2 DEF LatestIn, IsLatest
    <2>5. ColoursFollow(field, listed, asked)
      <3> SUFFICES ASSUME field.filament # Unset
                   PROVE  /\ LatestIn(asked, "colours", OfFilament(field.filament))
                          /\ ~NoneOf(asked, "colours")
        BY DEF ColoursFollow
      <3>1. ~NoneOf(asked, "colours")
        BY <1>2, <1>5, <2>1 DEF WantsColours, ColoursDepend
      <3>2. \A i \in DOMAIN asked : asked[i].seen \in OfFilament(field.filament)
        BY <1>4, <1>6, <2>1 DEF OfFilament
      <3> QED
        BY <3>1, <3>2 DEF LatestIn, IsLatest
    <2>6. form = "export" => listed.profiles \subseteq {field.colour}
      BY <1>1
    <2>7. CreatedAlone
      BY <1>6, <2>1 DEF CreatedAlone
    <2>8. PickerFits
      BY <1>4, <1>6, <2>1 DEF PickerFits
    <2>9. ASSUME form # "picker" PROVE OthersFit
      <3>1. CASE form = "submit" /\ field.colour # Unset
        <4>1. \E c \in Colours : field = [Blank EXCEPT !.colour = c]
          BY <1>2, <1>3, <3>1
        <4>2. Len(effects) <= 1
          BY <1>4, <1>5, <3>1 DEF WantsFilaments, WantsColours, WantsProfiles, ProfilesDepend
        <4>3. ~NoneOf(effects, "detail")
          BY <1>2, <1>5, <3>1 DEF Hydrates
        <4>4. PICK i \in DOMAIN effects : effects[i].for = "detail"
          BY <4>3 DEF NoneOf
        <4>5. Len(effects) = 1 /\ i = 1
          <5>1. Len(effects) \in Nat /\ DOMAIN effects = 1..Len(effects)
            BY <1>5
          <5> QED
            BY <4>2, <4>4, <5>1
        <4> QED
          BY <1>6, <2>1, <3>1, <4>1, <4>4, <4>5 DEF OthersFit, Opening
      <3>2. CASE ~(form = "submit" /\ field.colour # Unset)
        <4>1. WholeFits(field)
          BY <1>4, <1>8, <3>2 DEF WholeFits, FieldFits
        <4>2. field.maker = Unset /\ field.filament = Unset /\ field.colour = Unset
          BY <1>2, <1>3, <1>4, <2>9, <3>2
        <4>3. effects = << >>
          BY <1>5, <2>9, <4>2 DEF Hydrates, WantsFilaments, WantsColours, WantsProfiles
        <4>4. DOMAIN asked = {} /\ Len(asked) <= 1
          BY <2>1, <4>3
        <4> QED
          BY <4>1, <4>4 DEF OthersFit
      <3> QED
        BY <3>1, <3>2
    <2>10. OthersFit
      BY <2>9 DEF OthersFit
    <2> QED
      BY <2>2, <2>3, <2>4, <2>5, <2>6, <2>7, <2>8, <2>10 DEF FormsIInv, Unhurried, ListsFollow
  <1> QED
    BY <1>7, <1>8

\* The invariant holds through every choice and every answer in turn.
LEMMA FormsKept ==
  ASSUME FormsIInv, [FormsNext]_formVars
  PROVE  FormsIInv'
  <1> SUFFICES ASSUME ~astray' PROVE FormsIInv'
    BY DEF FormsIInv
  <1>1. ASSUME NEW m \in Makers \cup {Unset}, PickMaker(m) PROVE FormsIInv'
    BY <1>1, PickMakerKeeps DEF PickMaker, Act, Pick
  <1>2. ASSUME NEW k \in Kinds \cup {Unset}, PickKind(k) PROVE FormsIInv'
    BY <1>2, PickKindKeeps DEF PickKind, Act, Pick
  <1>3. ASSUME NEW f \in Filaments \cup {Unset}, PickFilament(f) PROVE FormsIInv'
    BY <1>3, PickFilamentKeeps DEF PickFilament, Act, Pick
  <1>4. ASSUME NEW c \in Colours \cup {Unset}, PickColour(c) PROVE FormsIInv'
    BY <1>4, PickColourKeeps DEF PickColour, Act, Pick
  <1>5. ASSUME NEW p \in Colours \cup {Unset}, PickProfile(p) PROVE FormsIInv'
    BY <1>5, PickProfileKeeps DEF PickProfile, Pick
  <1>6. CASE CreateFilament
    BY <1>6, CreateKeeps DEF CreateFilament, Create
  <1>7. CASE CreateColour
    BY <1>7, CreateKeeps DEF CreateColour, Create
  <1>8. ASSUME NEW i \in DOMAIN asked, Answer(i) PROVE FormsIInv'
    <2>1. ~astray /\ ~(i > 1)
      BY <1>8 DEF Answer
    <2>2. FormsAreTyped
      BY <2>1 DEF FormsIInv
    <2>3. i = 1 /\ asked # << >>
      <3>1. asked \in Seq(Asking)
        BY <2>2 DEF FormsAreTyped
      <3> QED
        BY <2>1, <3>1
    <2>4. Answered(asked[1], Rest) /\ hasty' = hasty
      BY <1>8, <2>3 DEF Answer, Rest
    <2>5. asked[1].for \in Requests
      BY <2>2, <2>3, FirstIs
    <2>6. CASE asked[1].for = "opened"
      BY <2>1, <2>3, <2>4, <2>6, OpenedKeeps DEF Answered
    <2>7. CASE asked[1].for = "detail"
      BY <2>1, <2>3, <2>4, <2>7, DetailKeeps DEF Answered
    <2>8. CASE asked[1].for = "filaments"
      BY <2>1, <2>3, <2>4, <2>8, FilamentsKeeps DEF Answered
    <2>9. CASE asked[1].for = "colours"
      BY <2>1, <2>3, <2>4, <2>9, ColoursKeeps DEF Answered
    <2>10. CASE asked[1].for = "profiles"
      BY <2>1, <2>3, <2>4, <2>10, ProfilesKeeps DEF Answered
    <2>11. CASE asked[1].for = "new filament"
      BY <2>1, <2>3, <2>4, <2>11, FilamentCreatedKeeps DEF Answered
    <2>12. CASE asked[1].for = "new colour"
      BY <2>1, <2>3, <2>4, <2>12, ColourCreatedKeeps DEF Answered
    <2> QED
      BY <2>5, <2>6, <2>7, <2>8, <2>9, <2>10, <2>11, <2>12 DEF Requests
  <1>9. ASSUME NEW i \in DOMAIN asked, FailAnswer(i) PROVE FormsIInv'
    BY <1>9 DEF FailAnswer
  <1>10. CASE UNCHANGED formVars
    BY <1>10 DEF formVars, FormsIInv, FormsAreTyped, IsAskable, Unhurried, ListsFollow,
                 CreatedAlone, PickerFits, OthersFit, Opening
  <1> QED
    BY <1>1, <1>2, <1>3, <1>4, <1>5, <1>6, <1>7, <1>8, <1>9, <1>10 DEF FormsNext

\* A choice from above clears the profile, or keeps it with its colour.
LEMMA ActFits ==
  ASSUME FormsIInv, ProfileFollows, NEW new \in Fields, NEW lists, Act(new, lists),
         \/ new.profile = Unset
         \/ form = "export" /\ new.profile = field.profile /\ new.colour = field.colour
  PROVE  ProfileFollows'
  <1> SUFFICES ASSUME ~astray', ~hasty' PROVE ProfileFits'
    BY DEF ProfileFollows
  <1>1. /\ ~astray /\ ~hasty /\ asked = << >> /\ field' = Settled(field, new)
        /\ outside' = (outside /\ field'.profile = field.profile)
    BY DEF Act, Pick, Become, ProfileStays
  <1>2. field \in Fields
    BY <1>1 DEF FormsIInv, FormsAreTyped
  <1>3. field'.profile = new.profile /\ (form = "export" => field' = new)
    BY <1>1, <1>2, SettledIs DEF Settled
  <1>4. ProfileFits
    BY <1>1 DEF ProfileFollows, Opening
  <1> QED
    BY <1>1, <1>3, <1>4 DEF ProfileFits

\* An answer keeps the profile with its colour, or chooses the profile of the colour.
LEMMA AnswerFits ==
  ASSUME FormsIInv, ProfileFollows, ~astray', ~hasty', asked # << >>, hasty' = hasty,
         ~astray, form = "export", Answered(asked[1], Rest), ProfileStays
  PROVE  ProfileFits'
  <1>1. FormsAreTyped /\ Unhurried
    BY DEF FormsIInv
  <1>2. /\ field \in Fields /\ listed \in Lists /\ asked[1].seen \in Fields
        /\ asked[1].for \in Requests /\ IsAskable(asked[1])
    BY <1>1, FirstIs
  <1>3. Opening => asked[1].for = "opened" /\ asked[1].seen = field
    BY DEF Opening
  <1>4. ~Opening => WholeFits(field) /\ SawMuch(field, asked[1]) /\ ProfileFits
    BY <1>1, FirstFits DEF ProfileFollows
  <1> DEFINE seen == asked[1].seen
  <1>5. ASSUME NEW new \in Fields, NEW lists, NEW fresh, Become(new, lists, Rest, fresh)
        PROVE  field' = new
    BY <1>5 DEF Become, Settled
  <1>6. CASE asked[1].for = "opened"
    <2> DEFINE f == FilamentOf[seen.profile]
               new == [field EXCEPT !.maker = MakerOf[f], !.kind = KindOf[f],
                                    !.filament = f, !.colour = seen.profile]
    <2>1. Opening
      BY <1>4, <1>6 DEF SawMuch
    <2>2. seen.profile \in Colours
      BY <1>2, <1>6 DEF IsAskable, Fields
    <2>3. new \in Fields /\ new.colour = seen.profile /\ new.profile = field.profile
      BY <1>2, <2>2, CatalogIs DEF Fields
    <2>4. Become(new, listed, Rest, FALSE)
      BY <1>6 DEF Answered, OpenedAnswered
    <2> HIDE DEF new
    <2>5. field' = new
      BY <1>5, <2>3, <2>4
    <2> QED
      BY <1>3, <2>1, <2>3, <2>5 DEF ProfileFits
  <1>7. CASE asked[1].for = "filaments"
    <2> DEFINE rows == FilamentsOf(seen.maker, seen.kind)
               only == seen.filament = Unset /\ Cardinality(rows) = 1
               new == IF only THEN [field EXCEPT !.filament = CHOOSE f \in rows : TRUE,
                                                 !.colour = Unset]
                              ELSE field
    <2>1. WholeFits(field) /\ SawMuch(field, asked[1]) /\ ProfileFits
      BY <1>3, <1>4, <1>7
    <2>2. only => rows # {} /\ rows \subseteq Filaments
      <3>1. rows \subseteq Filaments
        BY DEF FilamentsOf
      <3> HIDE DEF rows
      <3>2. Cardinality(rows) = 1 => rows # {}
        BY FS_EmptySet
      <3> QED
        BY <3>1, <3>2
    <2>a. only => seen.filament = Unset
      OBVIOUS
    <2>3. /\ new \in Fields /\ new.profile = field.profile
          /\ new.colour = field.colour \/ (only /\ new.colour = Unset)
      <3> DEFINE f == CHOOSE f \in rows : TRUE
                 picked == [field EXCEPT !.filament = f, !.colour = Unset]
      <3>1. only => f \in Filaments
        BY <2>2
      <3>2. new = IF only THEN picked ELSE field
        OBVIOUS
      <3> HIDE DEF only, new, f
      <3>3. only => /\ picked \in Fields /\ picked.profile = field.profile
                    /\ picked.colour = Unset
        BY <1>2, <3>1 DEF Fields
      <3> HIDE DEF picked
      <3>4. CASE only
        BY <3>2, <3>3, <3>4
      <3>5. CASE ~only
        BY <1>2, <3>2, <3>5
      <3> QED
        BY <3>4, <3>5
    <2>4. \E lists : Become(new, lists, Rest, TRUE)
      BY <1>7 DEF Answered, FilamentsAnswered, Base
    <2> HIDE DEF new, only
    <2>5. only => field.colour = Unset
      BY <1>2, <2>1, <2>a, WholeIs DEF SawMuch
    <2>6. field' = new
      BY <1>5, <2>3, <2>4
    <2> QED
      BY <2>1, <2>3, <2>5, <2>6 DEF ProfileFits, ProfileStays
  <1>8. CASE asked[1].for = "colours"
    <2> DEFINE rows == ColoursOf(seen.filament)
               only == seen.colour = Unset /\ Cardinality(rows) = 1
               new == IF only THEN [field EXCEPT !.colour = CHOOSE c \in rows : TRUE]
                              ELSE field
    <2>1. WholeFits(field) /\ SawMuch(field, asked[1]) /\ ProfileFits
      BY <1>3, <1>4, <1>8
    <2>2. only => \E c \in Colours : rows = {c}
      <3>1. rows \subseteq Colours
        BY DEF ColoursOf
      <3>2. IsFiniteSet(rows)
        BY <3>1, FormParameters, FS_Subset
      <3>3. Cardinality(rows) = 1 => \E c : rows = {c}
        BY <3>2, FS_Singleton
      <3> QED
        BY <3>1, <3>3
    <2>3. field.colour # Unset => field.colour \in rows
      BY <1>2, <2>1 DEF WholeFits, FieldFits, SawMuch, ColoursOf, Fields
    <2>4. /\ new \in Fields /\ new.profile = field.profile
          /\ new.colour = field.colour \/ field.colour = Unset
      <3>1. only => (CHOOSE c \in rows : TRUE) \in Colours
        BY <2>2
      <3>2. only /\ field.colour # Unset => (CHOOSE c \in rows : TRUE) = field.colour
        BY <2>2, <2>3
      <3> QED
        BY <1>2, <3>1, <3>2 DEF Fields
    <2>5. \E lists : Become(new, lists, Rest, FALSE)
      BY <1>8 DEF Answered, ColoursAnswered, Base
    <2> HIDE DEF new, only
    <2>6. field' = new
      BY <1>5, <2>4, <2>5
    <2> QED
      BY <2>1, <2>4, <2>6 DEF ProfileFits, ProfileStays
  <1>9. CASE asked[1].for = "profiles"
    <2> DEFINE new == IF seen.profile = Unset THEN [field EXCEPT !.profile = seen.colour]
                                              ELSE field
    <2>1. SawMuch(field, asked[1]) /\ ProfileFits
      BY <1>3, <1>4, <1>9
    <2>2. seen.colour = field.colour
      BY <1>2, <1>9, <2>1 DEF SawMuch, IsAskable
    <2>3. /\ new \in Fields /\ new.colour = field.colour
          /\ new.profile = field.profile \/ new.profile = field.colour
      BY <1>2, <2>2 DEF Fields
    <2>4. \E lists : Become(new, lists, Rest, FALSE)
      BY <1>9 DEF Answered, ProfilesAnswered
    <2> HIDE DEF new
    <2>5. field' = new
      BY <1>5, <2>3, <2>4
    <2> QED
      BY <2>1, <2>3, <2>5 DEF ProfileFits, ProfileStays
  <1> QED
    BY <1>2, <1>6, <1>7, <1>8, <1>9 DEF Requests, IsAskable

\* The profile follows its colour, the user's own choice apart.
LEMMA ProfileKept ==
  ASSUME FormsIInv, ProfileFollows, [FormsNext]_formVars
  PROVE  ProfileFollows'
  <1>0. FormsIInv'
    BY FormsKept
  <1> SUFFICES ASSUME ~astray', ~hasty' PROVE (ProfileFits \/ Opening)'
    BY DEF ProfileFollows
  <1>a. ASSUME ~astray PROVE field \in Fields /\ (form # "export" => field.profile = Unset)
    BY <1>a DEF FormsIInv, FormsAreTyped
  <1>b. ASSUME ProfileFollows' PROVE (ProfileFits \/ Opening)'
    BY <1>b DEF ProfileFollows
  <1>1. ASSUME NEW m \in Makers \cup {Unset}, PickMaker(m) PROVE (ProfileFits \/ Opening)'
    <2> DEFINE new == [Cleared(field) EXCEPT !.maker = m]
    <2>1. Act(new, NoProfiles) /\ ~astray
      BY <1>1 DEF PickMaker, Act, Pick
    <2>2. new \in Fields /\ new.profile = Unset
      BY <1>a, <2>1 DEF Cleared, Fields
    <2> QED
      BY <1>b, <2>1, <2>2, ActFits
  <1>2. ASSUME NEW k \in Kinds \cup {Unset}, PickKind(k) PROVE (ProfileFits \/ Opening)'
    <2>0. ~astray
      BY <1>2 DEF PickKind, Act, Pick
    <2>1. CASE Act([Cleared(field) EXCEPT !.kind = k], NoProfiles)
      <3> DEFINE new == [Cleared(field) EXCEPT !.kind = k]
      <3>1. new \in Fields /\ new.profile = Unset
        BY <1>a, <2>0 DEF Cleared, Fields
      <3> QED
        BY <1>b, <2>1, <3>1, ActFits
    <2>2. CASE Act([field EXCEPT !.kind = k], listed)
      <3> DEFINE new == [field EXCEPT !.kind = k]
      <3>1. new \in Fields /\ new.profile = field.profile /\ new.colour = field.colour
        BY <1>a, <2>0 DEF Fields
      <3>2. new.profile = Unset \/ form = "export"
        BY <1>a, <2>0, <3>1
      <3> QED
        BY <1>b, <2>2, <3>1, <3>2, ActFits
    <2> QED
      BY <1>2, <2>1, <2>2 DEF PickKind
  <1>3. ASSUME NEW f \in Filaments \cup {Unset}, PickFilament(f) PROVE (ProfileFits \/ Opening)'
    <2> DEFINE new == [Cleared(field) EXCEPT !.filament = f,
                         !.kind = IF f = Unset THEN @ ELSE KindOf[f]]
    <2>1. Act(new, NoProfiles) /\ ~astray
      BY <1>3 DEF PickFilament, Act, Pick
    <2>2. (IF f = Unset THEN field.kind ELSE KindOf[f]) \in Kinds \cup {Unset}
      BY <1>a, <2>1, CatalogIs DEF Fields
    <2>3. new \in Fields /\ new.profile = Unset
      BY <1>a, <2>1, <2>2 DEF Cleared, Fields
    <2> QED
      BY <1>b, <2>1, <2>3, ActFits
  <1>4. ASSUME NEW c \in Colours \cup {Unset}, PickColour(c) PROVE (ProfileFits \/ Opening)'
    <2> DEFINE new == [field EXCEPT !.colour = c, !.profile = Unset]
    <2>1. Act(new, NoProfiles) /\ ~astray
      BY <1>4 DEF PickColour, Act, Pick
    <2>2. new \in Fields /\ new.profile = Unset
      BY <1>a, <2>1 DEF Fields
    <2> QED
      BY <1>b, <2>1, <2>2, ActFits
  <1>5. ASSUME NEW p \in Colours \cup {Unset}, PickProfile(p) PROVE (ProfileFits \/ Opening)'
    <2> DEFINE new == [field EXCEPT !.profile = p]
    <2>1. /\ ~astray /\ ~hasty /\ asked = << >> /\ form = "export"
          /\ field' = Settled(field, new) /\ outside' = (p \notin listed.profiles \cup {Unset})
      BY <1>5 DEF PickProfile, Pick, Become
    <2>2. field' = new /\ new.profile = p /\ new.colour = field.colour
      BY <1>a, <2>1 DEF Settled, Fields
    <2>3. listed.profiles \subseteq {field.colour}
      BY <2>1, QuietFits
    <2> QED
      BY <2>1, <2>2, <2>3 DEF ProfileFits
  <1>6. ASSUME NEW name, Create(name) PROVE (ProfileFits \/ Opening)'
    <2>1. /\ UNCHANGED <<field, outside>> /\ ~astray /\ ~hasty /\ asked = << >>
      BY <1>6 DEF Create
    <2>2. ProfileFits
      BY <2>1 DEF ProfileFollows, Opening
    <2> QED
      BY <2>1, <2>2 DEF ProfileFits
  <1>7. ASSUME NEW i \in DOMAIN asked, Answer(i) PROVE (ProfileFits \/ Opening)'
    <2>1. ~astray /\ ~(i > 1) /\ hasty' = hasty /\ ProfileStays
      BY <1>7 DEF Answer
    <2>2. FormsAreTyped /\ FormsAreTyped'
      BY <1>0, <2>1 DEF FormsIInv
    <2>3. i = 1 /\ asked # << >>
      <3>1. asked \in Seq(Asking)
        BY <2>2 DEF FormsAreTyped
      <3> QED
        BY <2>1, <3>1
    <2>4. Answered(asked[1], Rest)
      BY <1>7, <2>3 DEF Answer, Rest
    <2>5. CASE form = "export"
      BY <2>1, <2>3, <2>4, <2>5, AnswerFits
    <2>6. CASE form # "export"
      <3>1. asked[1].for \in Requests
        BY <2>2, <2>3, FirstIs
      <3>2. form' = form
        BY <2>4, <3>1 DEF Answered, Requests, OpenedAnswered, DetailAnswered, FilamentsAnswered,
                          ColoursAnswered, ProfilesAnswered, FilamentCreated, ColourCreated, Become
      <3>3. field'.profile = Unset
        BY <2>2, <2>6, <3>2 DEF FormsAreTyped
      <3> QED
        BY <3>3 DEF ProfileFits
    <2> QED
      BY <2>5, <2>6
  <1>8. ASSUME NEW i \in DOMAIN asked, FailAnswer(i) PROVE (ProfileFits \/ Opening)'
    BY <1>8 DEF FailAnswer
  <1>9. CASE UNCHANGED formVars
    BY <1>9 DEF formVars, ProfileFollows, ProfileFits, Opening
  <1> QED
    BY <1>1, <1>2, <1>3, <1>4, <1>5, <1>6, <1>7, <1>8, <1>9
       DEF FormsNext, CreateFilament, CreateColour

\* SelectionFits, for any catalogue and any number of requests under way: when
\* every request was answered in turn, what the form shows belongs together,
\* whatever was chosen, created or chosen by itself in between, but for the
\* profile that the export page was opened with and that the user takes again.
THEOREM SelectionsAlwaysFit == FormsSpec => []SelectionFits
  <1>1. FormsInit => FormsIInv /\ ProfileFollows
    <2> SUFFICES ASSUME FormsInit PROVE ProfileFits \/ Opening
      BY FormsBegin DEF ProfileFollows
    <2>1. FormsIInv /\ ~astray /\ ~hasty
      BY FormsBegin DEF FormsInit
    <2>2. CASE field.profile = Unset
      BY <2>2 DEF ProfileFits
    <2>3. CASE field.profile # Unset
      <3>1. FormsAreTyped /\ Unhurried
        BY <2>1 DEF FormsIInv
      <3>2. form = "export"
        BY <2>3, <3>1 DEF FormsAreTyped
      <3>3. asked # << >> /\ asked[1].for = "opened"
        <4> DEFINE q == Asks(Blank, field, FALSE)
        <4>1. Blank \in Fields /\ field \in Fields
          BY <3>1 DEF Blank, Fields, FormsAreTyped
        <4>2. q \in Seq(Asking)
          BY <4>1, AsksAre
        <4> HIDE DEF q
        <4>3. asked = <<[for |-> "opened", seen |-> field]>> \o q
          BY <2>3 DEF FormsInit, q
        <4> DEFINE r == [for |-> "opened", seen |-> field]
        <4>4. r \in Asking /\ r.for = "opened"
          BY <4>1 DEF Asking, Requests
        <4> HIDE DEF r
        <4>5. <<r>> \in Seq(Asking) /\ DOMAIN <<r>> = {1} /\ <<r>>[1] = r
          BY <4>4, SingleIs
        <4>6. 1 \in DOMAIN (<<r>> \o q) /\ (<<r>> \o q)[1] = r
          BY <4>2, <4>5, JoinedIs
        <4>7. asked = <<r>> \o q
          BY <4>3 DEF r
        <4> QED
          BY <4>4, <4>6, <4>7
      <3> QED
        BY <3>1, <3>2, <3>3, FirstFits DEF SawMuch
    <2> QED
      BY <2>2, <2>3
  <1>2. FormsIInv /\ ProfileFollows /\ [FormsNext]_formVars => (FormsIInv /\ ProfileFollows)'
    BY FormsKept, ProfileKept
  <1>3. FormsIInv /\ ProfileFollows => SelectionFits
    <2> SUFFICES ASSUME FormsIInv, ProfileFollows, asked = << >>, ~astray
                 PROVE  /\ ~hasty => Fits /\ KindFits /\ ProfileFits
                        /\ form = "submit" /\ field.colour # Unset => Fits
      BY DEF SelectionFits
    <2>1. ASSUME ~hasty PROVE Fits /\ KindFits /\ ProfileFits
      <3>1. WholeFits(field)
        BY <2>1, QuietFits
      <3>2. ProfileFits
        BY <2>1 DEF ProfileFollows, Opening
      <3> QED
        BY <3>1, <3>2 DEF WholeFits, FieldFits, Fits, KindFits
    <2>2. ASSUME form = "submit", field.colour # Unset PROVE Fits
      <3>1. NoneOf(asked, "detail")
        BY DEF NoneOf
      <3>2. DetailFollows(field, asked)
        BY <2>2 DEF FormsIInv
      <3> QED
        BY <2>2, <3>1, <3>2 DEF DetailFollows, FieldFits, Fits
    <2> QED
      BY <2>1, <2>2
  <1> QED
    BY <1>1, <1>2, <1>3, PTL DEF FormsSpec
-----------------------------------------------------------------------------
\* FormsAreSound: each form by its own specification, whatever the visitor does:
\* selections fit, files are as named, nothing is submitted without terms and
\* the share of an address is exact.
THEOREM FormsAreAlwaysSound == FormsSpec /\ ExportSpec /\ SubmitSpec => []FormsAreSound
BY SelectionsAlwaysFit, FilesAreAlwaysAsNamed, SubmissionsAreAlwaysSound, PTL DEF FormsAreSound

-----------------------------------------------------------------------------
(* Where the numbers of a profile go.                                      *)

NozzleKind == Nozzle \cup {"midNozzle", "defaultNozzle"}
BedKind == Bed \cup {"bedTempC", "midBed", "bedTempMinC", "bedTempMaxC", "defaultBed"}

\* Two numbers of the same quantity as a third are of the same.
LEMMA QuantityIsTransitive ==
  ASSUME NEW a, NEW b, NEW c, SameQuantity(a, b), SameQuantity(b, c)
  PROVE  SameQuantity(a, c)
  <1>1. NozzleKind \cap BedKind = {}
    BY DEF NozzleKind, BedKind, Nozzle, Bed
  <1>2. \A x, y : SameQuantity(x, y) <=> x = y \/ {x, y} \subseteq NozzleKind \/ {x, y} \subseteq BedKind
    BY DEF SameQuantity, NozzleKind, BedKind
  <1> QED
    BY <1>1, <1>2

\* The sources of a name in a table: columns of one quantity, the first of which is
\* what the name means; the preset of a tag knows all of them or none.
AreSources(q) ==
    /\ q \in Seq(SubmitColumns) /\ Len(q) > 0
    /\ \A i \in 1..Len(q) : SameQuantity(q[i], q[1])
    /\ \A i \in 1..Len(q) : q[i] \in MatchColumns <=> q[1] \in MatchColumns

\* A column is a source by itself, and so are the two layers of one heater, either
\* first.
LEMMA PairsAreSources ==
  /\ \A a \in SubmitColumns : AreSources(<<a>>)
  /\ AreSources(<<"nozzleTempOtherLayersC", "nozzleTempFirstLayerC">>)
  /\ AreSources(<<"nozzleTempFirstLayerC", "nozzleTempOtherLayersC">>)
  /\ AreSources(<<"bedTempOtherLayersC", "bedTempFirstLayerC">>)
  /\ AreSources(<<"bedTempFirstLayerC", "bedTempOtherLayersC">>)
  <1>1. \A a \in SubmitColumns : AreSources(<<a>>)
    BY DEF AreSources, SameQuantity
  <1>2. ASSUME NEW a \in SubmitColumns, NEW b \in SubmitColumns, SameQuantity(b, a),
               b \in MatchColumns <=> a \in MatchColumns
        PROVE AreSources(<<a, b>>)
    BY <1>2 DEF AreSources, SameQuantity
  <1>3. {"nozzleTempOtherLayersC", "nozzleTempFirstLayerC", "bedTempOtherLayersC", "bedTempFirstLayerC"}
            \subseteq SubmitColumns \cap MatchColumns
    BY DEF SubmitColumns, MatchColumns, Common, CreateColumns
  <1>4. /\ SameQuantity("nozzleTempFirstLayerC", "nozzleTempOtherLayersC")
        /\ SameQuantity("nozzleTempOtherLayersC", "nozzleTempFirstLayerC")
        /\ SameQuantity("bedTempFirstLayerC", "bedTempOtherLayersC")
        /\ SameQuantity("bedTempOtherLayersC", "bedTempFirstLayerC")
    BY DEF SameQuantity, Nozzle, Bed
  <1> QED
    BY <1>1, <1>2, <1>3, <1>4

\* Every table for a slicer names sources.
LEMMA FamilyNamesSources == \A k \in DOMAIN FamilyKeys : AreSources(FamilyKeys[k])
  <1>1. {"chamberTempC", "maxVolumetricFlowMm3s", "flowRatio", "pressureAdvance", "fanMinPercent",
         "fanMaxPercent", "fanDisableFirstLayers", "retractionDistanceMm", "shrinkagePercentXy",
         "shrinkagePercentZ", "nozzleTempFirstLayerC", "bedTempFirstLayerC"} \subseteq SubmitColumns
    BY DEF SubmitColumns, CreateColumns, Common, Shrinkage
  <1> QED
    BY <1>1, PairsAreSources DEF FamilyKeys

\* What a function has before another's.
LEMMA BeforeOthers ==
  ASSUME NEW f, NEW g
  PROVE  /\ DOMAIN FilledFrom(f, g) = DOMAIN f \cup DOMAIN g
         /\ \A k \in DOMAIN f : FilledFrom(f, g)[k] = f[k]
         /\ \A k \in DOMAIN g \ DOMAIN f : FilledFrom(f, g)[k] = g[k]
  BY DEF FilledFrom

FamilyOwn == DOMAIN FamilyKeys
CrealityOwn == {"nozzle_temperature_range_low", "nozzle_temperature_range_high",
                "textured_plate_temp_initial_layer", "bridge_fan_speed",
                "filament_retraction_speed", "shrinkage"}

\* What Creality's table adds to the family's.
LEMMA CrealityNames ==
  /\ DOMAIN CrealityKeys = FamilyOwn \cup CrealityOwn
  /\ \A k \in FamilyOwn : CrealityKeys[k] = FamilyKeys[k]
  /\ \A k \in CrealityOwn : AreSources(CrealityKeys[k])
  /\ CrealityKeys["filament_retraction_speed"] = <<"retractionSpeedMms">>
  /\ CrealityKeys["shrinkage"] = <<"shrinkagePercentXy">>
  /\ CrealityKeys["textured_plate_temp_initial_layer"] = <<"bedTempFirstLayerC">>
  <1> DEFINE own == [
    nozzle_temperature_range_low      |-> <<"nozzleTempMinC">>,
    nozzle_temperature_range_high     |-> <<"nozzleTempMaxC">>,
    textured_plate_temp_initial_layer |-> <<"bedTempFirstLayerC">>,
    bridge_fan_speed                  |-> <<"bridgeFanPercent">>,
    filament_retraction_speed         |-> <<"retractionSpeedMms">>,
    shrinkage                         |-> <<"shrinkagePercentXy">>]
  <1>1. CrealityKeys = FilledFrom(FamilyKeys, own)
    BY DEF CrealityKeys
  <1>2. DOMAIN own = CrealityOwn
    BY DEF CrealityOwn
  <1>3. FamilyOwn \cap CrealityOwn = {}
    BY DEF FamilyOwn, CrealityOwn, FamilyKeys
  <1>4. \A k \in CrealityOwn : AreSources(own[k])
    <2>1. {"shrinkagePercentXy", "bedTempFirstLayerC", "nozzleTempMinC",
           "nozzleTempMaxC", "bridgeFanPercent", "retractionSpeedMms"} \subseteq SubmitColumns
      BY DEF SubmitColumns, CreateColumns, Common, Shrinkage, Nozzle
    <2> QED
      BY <2>1, PairsAreSources DEF CrealityOwn
  <1>5. /\ own["filament_retraction_speed"] = <<"retractionSpeedMms">>
        /\ own["shrinkage"] = <<"shrinkagePercentXy">>
        /\ own["textured_plate_temp_initial_layer"] = <<"bedTempFirstLayerC">>
        /\ {"filament_retraction_speed", "shrinkage", "textured_plate_temp_initial_layer"}
              \subseteq CrealityOwn
    BY DEF CrealityOwn
  <1> HIDE DEF own
  <1>6. \A k \in CrealityOwn : CrealityKeys[k] = own[k]
    <2>1. \A k \in DOMAIN own \ DOMAIN FamilyKeys : FilledFrom(FamilyKeys, own)[k] = own[k]
      BY BeforeOthers
    <2> QED
      BY <1>1, <1>2, <1>3, <2>1 DEF FamilyOwn
  <1> QED
    BY <1>1, <1>2, <1>4, <1>5, <1>6, BeforeOthers DEF FamilyOwn

OrcaOwn == {"filament_retraction_speed", "shrinkage_xy"}

\* What OrcaSlicer's table adds.
LEMMA OrcaNames ==
  /\ DOMAIN OrcaKeys = FamilyOwn \cup OrcaOwn
  /\ \A k \in FamilyOwn : OrcaKeys[k] = FamilyKeys[k]
  /\ OrcaKeys["filament_retraction_speed"] = <<"retractionSpeedMms">>
  /\ OrcaKeys["shrinkage_xy"] = <<"shrinkagePercentXy">>
  <1> DEFINE own == [
    filament_retraction_speed |-> <<"retractionSpeedMms">>,
    shrinkage_xy              |-> <<"shrinkagePercentXy">>]
  <1>1. OrcaKeys = FilledFrom(FamilyKeys, own)
    BY DEF OrcaKeys
  <1>2. DOMAIN own = OrcaOwn
    BY DEF OrcaOwn
  <1>3. FamilyOwn \cap OrcaOwn = {}
    BY DEF FamilyOwn, OrcaOwn, FamilyKeys
  <1>4. /\ own["filament_retraction_speed"] = <<"retractionSpeedMms">>
        /\ own["shrinkage_xy"] = <<"shrinkagePercentXy">>
        /\ {"filament_retraction_speed", "shrinkage_xy"} = OrcaOwn
    BY DEF OrcaOwn
  <1> HIDE DEF own
  <1>5. \A k \in OrcaOwn : OrcaKeys[k] = own[k]
    <2>1. \A k \in DOMAIN own \ DOMAIN FamilyKeys : FilledFrom(FamilyKeys, own)[k] = own[k]
      BY BeforeOthers
    <2> QED
      BY <1>1, <1>2, <1>3, <2>1 DEF FamilyOwn
  <1> QED
    BY <1>1, <1>2, <1>4, <1>5, BeforeOthers DEF FamilyOwn

BambuOwn == {"eng_plate_temp", "shrinkage"}

\* What Bambu Studio's table adds.
LEMMA BambuNames ==
  /\ DOMAIN BambuKeys = FamilyOwn \cup BambuOwn
  /\ \A k \in FamilyOwn : BambuKeys[k] = FamilyKeys[k]
  /\ BambuKeys["eng_plate_temp"] = <<"bedTempOtherLayersC", "bedTempFirstLayerC">>
  /\ BambuKeys["shrinkage"] = <<"shrinkagePercentXy">>
  <1> DEFINE own == [
    eng_plate_temp |-> <<"bedTempOtherLayersC", "bedTempFirstLayerC">>,
    shrinkage      |-> <<"shrinkagePercentXy">>]
  <1>1. BambuKeys = FilledFrom(FamilyKeys, own)
    BY DEF BambuKeys
  <1>2. DOMAIN own = BambuOwn
    BY DEF BambuOwn
  <1>3. FamilyOwn \cap BambuOwn = {}
    BY DEF FamilyOwn, BambuOwn, FamilyKeys
  <1>4. /\ own["eng_plate_temp"] = <<"bedTempOtherLayersC", "bedTempFirstLayerC">>
        /\ own["shrinkage"] = <<"shrinkagePercentXy">>
        /\ {"eng_plate_temp", "shrinkage"} = BambuOwn
    BY DEF BambuOwn
  <1> HIDE DEF own
  <1>5. \A k \in BambuOwn : BambuKeys[k] = own[k]
    <2>1. \A k \in DOMAIN own \ DOMAIN FamilyKeys : FilledFrom(FamilyKeys, own)[k] = own[k]
      BY BeforeOthers
    <2> QED
      BY <1>1, <1>2, <1>3, <2>1 DEF FamilyOwn
  <1> QED
    BY <1>1, <1>2, <1>4, <1>5, BeforeOthers DEF FamilyOwn

PrusaOwn == {"temperature", "first_layer_temperature", "bed_temperature",
             "first_layer_bed_temperature", "extrusion_multiplier", "min_fan_speed",
             "max_fan_speed", "disable_fan_first_layers", "start_filament_gcode",
             "retraction_length_hint", "filament_shrinkage_xy_hint",
             "filament_shrinkage_z_hint", "chamber_temperature_hint"}

\* PrusaSlicer's table shares one name with the others, and means the same by it.
LEMMA PrusaNames ==
  /\ DOMAIN PrusaKeys = PrusaOwn \cup {"filament_max_volumetric_speed"}
  /\ PrusaKeys["filament_max_volumetric_speed"] = FamilyKeys["filament_max_volumetric_speed"]
  /\ \A k \in DOMAIN PrusaKeys : AreSources(PrusaKeys[k])
  <1>1. {"chamberTempC", "maxVolumetricFlowMm3s", "flowRatio", "pressureAdvance", "fanMinPercent",
         "fanMaxPercent", "fanDisableFirstLayers", "retractionDistanceMm", "shrinkagePercentXy",
         "shrinkagePercentZ"} \subseteq SubmitColumns
    BY DEF SubmitColumns, CreateColumns, Common, Shrinkage
  <1>2. DOMAIN PrusaKeys = PrusaOwn \cup {"filament_max_volumetric_speed"}
    BY DEF PrusaKeys, PrusaOwn
  <1>3. PrusaKeys["filament_max_volumetric_speed"] = FamilyKeys["filament_max_volumetric_speed"]
    BY DEF PrusaKeys, FamilyKeys
  <1>4. \A k \in DOMAIN PrusaKeys : AreSources(PrusaKeys[k])
    BY <1>1, PairsAreSources DEF PrusaKeys
  <1> QED
    BY <1>2, <1>3, <1>4

\* One name means one thing to every slicer that has it.
AllKeys == FilledFrom(CrealityKeys, FilledFrom(OrcaKeys, FilledFrom(BambuKeys, PrusaKeys)))

LEMMA OneMeaning ==
  /\ \A k \in DOMAIN CrealityKeys : AllKeys[k] = CrealityKeys[k]
  /\ \A k \in DOMAIN OrcaKeys : AllKeys[k] = OrcaKeys[k]
  /\ \A k \in DOMAIN BambuKeys : AllKeys[k] = BambuKeys[k]
  /\ \A k \in DOMAIN PrusaKeys : AllKeys[k] = PrusaKeys[k]
  <1> DEFINE BP == FilledFrom(BambuKeys, PrusaKeys)
             OBP == FilledFrom(OrcaKeys, BP)
  <1>1. /\ DOMAIN BP = DOMAIN BambuKeys \cup DOMAIN PrusaKeys
        /\ \A k \in DOMAIN BambuKeys : BP[k] = BambuKeys[k]
        /\ \A k \in DOMAIN PrusaKeys \ DOMAIN BambuKeys : BP[k] = PrusaKeys[k]
    BY BeforeOthers
  <1> HIDE DEF BP
  <1>2. /\ DOMAIN OBP = DOMAIN OrcaKeys \cup DOMAIN BP
        /\ \A k \in DOMAIN OrcaKeys : OBP[k] = OrcaKeys[k]
        /\ \A k \in DOMAIN BP \ DOMAIN OrcaKeys : OBP[k] = BP[k]
    BY BeforeOthers
  <1>3. AllKeys = FilledFrom(CrealityKeys, OBP)
    BY DEF AllKeys, BP
  <1> HIDE DEF OBP
  <1>4. /\ \A k \in DOMAIN CrealityKeys : AllKeys[k] = CrealityKeys[k]
        /\ \A k \in DOMAIN OBP \ DOMAIN CrealityKeys : AllKeys[k] = OBP[k]
    <2>1. /\ \A k \in DOMAIN CrealityKeys : FilledFrom(CrealityKeys, OBP)[k] = CrealityKeys[k]
          /\ \A k \in DOMAIN OBP \ DOMAIN CrealityKeys : FilledFrom(CrealityKeys, OBP)[k] = OBP[k]
      BY BeforeOthers
    <2> QED
      BY <1>3, <2>1
  <1>5. /\ FamilyOwn \cap PrusaOwn = {} /\ CrealityOwn \cap PrusaOwn = {}
        /\ OrcaOwn \cap PrusaOwn = {} /\ BambuOwn \cap PrusaOwn = {}
        /\ "filament_max_volumetric_speed" \in FamilyOwn
    BY DEF FamilyOwn, FamilyKeys, PrusaOwn, OrcaOwn, BambuOwn, CrealityOwn
  <1>6. /\ "filament_retraction_speed" \in CrealityOwn /\ "shrinkage" \in CrealityOwn
        /\ "shrinkage_xy" \notin CrealityOwn /\ "eng_plate_temp" \notin CrealityOwn
        /\ "shrinkage_xy" \notin FamilyOwn /\ "eng_plate_temp" \notin FamilyOwn
        /\ "eng_plate_temp" \notin OrcaOwn
    BY DEF FamilyOwn, FamilyKeys, OrcaOwn, CrealityOwn
  <1>7. \A k \in DOMAIN OrcaKeys : AllKeys[k] = OrcaKeys[k]
    BY <1>2, <1>4, <1>6, CrealityNames, OrcaNames DEF OrcaOwn
  <1>8. \A k \in DOMAIN BambuKeys : AllKeys[k] = BambuKeys[k]
    BY <1>1, <1>2, <1>4, <1>6, CrealityNames, OrcaNames, BambuNames DEF BambuOwn
  <1>9. \A k \in DOMAIN PrusaKeys : AllKeys[k] = PrusaKeys[k]
    BY <1>1, <1>2, <1>4, <1>5, CrealityNames, OrcaNames, BambuNames, PrusaNames
  <1> QED
    BY <1>4, <1>7, <1>8, <1>9

\* No slicer calls its keys as a revision its columns.
LEMMA KeysAreNoColumns ==
  /\ DOMAIN CrealityReads \subseteq SubmitColumns
  /\ (FamilyOwn \cup CrealityOwn \cup OrcaOwn \cup BambuOwn \cup PrusaOwn) \cap SubmitColumns = {}
  <1>1. DOMAIN CrealityReads \subseteq SubmitColumns
    BY DEF CrealityReads, SubmitColumns, CreateColumns, Common
  <1>2. FamilyOwn \cap SubmitColumns = {}
    BY DEF FamilyOwn, FamilyKeys, SubmitColumns, CreateColumns, Common, Shrinkage, Nozzle
  <1>3. (CrealityOwn \cup OrcaOwn \cup BambuOwn) \cap SubmitColumns = {}
    BY DEF CrealityOwn, OrcaOwn, BambuOwn, SubmitColumns, CreateColumns, Common, Shrinkage, Nozzle
  <1>4. PrusaOwn \cap SubmitColumns = {}
    BY DEF PrusaOwn, SubmitColumns, CreateColumns, Common, Shrinkage, Nozzle
  <1> QED
    BY <1>1, <1>2, <1>3, <1>4

\* What a slicer has under a name comes from what the name means, or else from
\* another number of that quantity.
LEMMA KeysAreSources ==
  ASSUME NEW slicer \in DOMAIN Keys, NEW k \in DOMAIN Keys[slicer]
  PROVE  AreSources(Keys[slicer][k]) /\ Meaning(k) = Keys[slicer][k][1]
  <1>1. \A j : j \in FamilyOwn \cup CrealityOwn \cup OrcaOwn \cup BambuOwn \cup PrusaOwn
              => Meaning(j) = Head(AllKeys[j])
    BY KeysAreNoColumns DEF Meaning, AllKeys
  <1>2. \A q : AreSources(q) => Head(q) = q[1]
    BY DEF AreSources
  <1>3. /\ {"maxVolumetricFlowMm3s", "retractionSpeedMms", "shrinkagePercentXy"} \subseteq SubmitColumns
        /\ "filament_max_volumetric_speed" \in FamilyOwn
    BY DEF SubmitColumns, CreateColumns, Common, Shrinkage, FamilyOwn, FamilyKeys
  <1>4. \A j \in FamilyOwn : AreSources(FamilyKeys[j])
    BY FamilyNamesSources DEF FamilyOwn
  <1>5. ASSUME NEW table, k \in DOMAIN table, AreSources(table[k]), AllKeys[k] = table[k],
               k \in FamilyOwn \cup CrealityOwn \cup OrcaOwn \cup BambuOwn \cup PrusaOwn,
               Keys[slicer] = table
        PROVE  AreSources(Keys[slicer][k]) /\ Meaning(k) = Keys[slicer][k][1]
    BY <1>5, <1>1, <1>2
  <1>6. CASE slicer = "creality"
    <2>1. Keys[slicer] = CrealityKeys
      BY <1>6 DEF Keys
    <2> QED
      BY <2>1, <1>4, <1>5, CrealityNames, OneMeaning
  <1>7. CASE slicer = "orca"
    <2>1. Keys[slicer] = OrcaKeys
      BY <1>7 DEF Keys
    <2>2. AreSources(OrcaKeys[k])
      BY <2>1, <1>3, <1>4, OrcaNames, PairsAreSources DEF OrcaOwn
    <2> QED
      BY <2>1, <2>2, <1>5, OrcaNames, OneMeaning
  <1>8. CASE slicer = "bambu"
    <2>1. Keys[slicer] = BambuKeys
      BY <1>8 DEF Keys
    <2>2. AreSources(BambuKeys[k])
      BY <2>1, <1>3, <1>4, BambuNames, PairsAreSources DEF BambuOwn
    <2> QED
      BY <2>1, <2>2, <1>5, BambuNames, OneMeaning
  <1>9. CASE slicer = "prusaslicer"
    <2>1. Keys[slicer] = PrusaKeys
      BY <1>9 DEF Keys
    <2> QED
      BY <2>1, <1>3, <1>5, PrusaNames, OneMeaning
  <1>10. slicer \in {"creality", "orca", "bambu", "prusaslicer"}
    BY DEF Keys
  <1> QED
    BY <1>6, <1>7, <1>8, <1>9, <1>10

\* A name is taken from the first of its sources that the document has.
TakesFirst(table, doc, out) ==
    /\ \A k : k \in DOMAIN out
               <=> k \in DOMAIN table /\ \E i \in DOMAIN table[k] : table[k][i] \in DOMAIN doc
    /\ \A k \in DOMAIN out : \E i \in DOMAIN table[k] :
          /\ table[k][i] \in DOMAIN doc /\ out[k] = doc[table[k][i]]
          /\ \A j \in DOMAIN table[k] : table[k][j] \in DOMAIN doc => i <= j

LEMMA FirstSourceFirst ==
  ASSUME NEW table, NEW doc,
         \A k \in DOMAIN table : \E n \in Nat : DOMAIN table[k] = 1..n
  PROVE  TakesFirst(table, doc, Convert(table, doc))
  <1> DEFINE Sources(k) == {i \in DOMAIN table[k] : table[k][i] \in DOMAIN doc}
  <1>1. Convert(table, doc) = [k \in {k \in DOMAIN table : Sources(k) # {}} |->
                                  doc[table[k][Min(Sources(k))]]]
    BY DEF Convert
  <1>2. ASSUME NEW k \in DOMAIN table, Sources(k) # {}
        PROVE  Min(Sources(k)) \in Sources(k) /\ \A j \in Sources(k) : Min(Sources(k)) <= j
    <2>1. Sources(k) \subseteq Nat
      <3>1. PICK n \in Nat : DOMAIN table[k] = 1..n
        OBVIOUS
      <3> QED
        BY <3>1
    <2>2. PICK x \in Sources(k) : \A y \in Sources(k) : ~(<<y, x>> \in OpToRel(<, Nat))
      BY <1>2, <2>1, NatLessThanWellFounded, WFMin
    <2>3. \A y \in Sources(k) : x =< y
      <3>1. ASSUME NEW y \in Sources(k) PROVE x =< y
        <4>1. x \in Nat /\ y \in Nat
          BY <2>1
        <4>2. ~(y < x)
          BY <2>2, <4>1 DEF OpToRel
        <4> QED
          BY <4>1, <4>2
      <3> QED
        BY <3>1
    <2> HIDE DEF Sources
    <2> QED
      BY <2>3 DEF Min
  <1> QED
    BY <1>1, <1>2 DEF TakesFirst

\* Every table names its sources in a row.
LEMMA TablesHaveSources ==
  /\ \A slicer \in DOMAIN Keys : \A k \in DOMAIN Keys[slicer] :
        \E n \in Nat : DOMAIN Keys[slicer][k] = 1..n
  /\ \A k \in DOMAIN CrealityReads : \E n \in Nat : DOMAIN CrealityReads[k] = 1..n
  /\ \A k \in DOMAIN StarterRow : \E n \in Nat : DOMAIN StarterRow[k] = 1..n
  /\ \A k \in DOMAIN SubmitDefaults : \E n \in Nat : DOMAIN SubmitDefaults[k] = 1..n
  <1> DEFINE Row(q) == \E n \in Nat : DOMAIN q = 1..n
  <1>1. /\ \A a : Row(<<a>>)
        /\ \A a, b : Row(<<a, b>>)
        /\ \A a, b, c : Row(<<a, b, c>>)
    <2>1. \A q, n : n \in Nat /\ DOMAIN q = 1..n => Row(q)
      OBVIOUS
    <2>2. /\ \A a : DOMAIN <<a>> = 1..1
          /\ \A a, b : DOMAIN <<a, b>> = 1..2
          /\ \A a, b, c : DOMAIN <<a, b, c>> = 1..3
      OBVIOUS
    <2>3. 1 \in Nat /\ 2 \in Nat /\ 3 \in Nat
      OBVIOUS
    <2> HIDE DEF Row
    <2> QED
      BY <2>1, <2>2, <2>3
  <1>2. \A slicer \in DOMAIN Keys : \A k \in DOMAIN Keys[slicer] :
           \E n \in Nat : DOMAIN Keys[slicer][k] = 1..n
    BY KeysAreSources DEF AreSources
  <1>3. \A k \in DOMAIN CrealityReads : \E n \in Nat : DOMAIN CrealityReads[k] = 1..n
    <2>1. \A k \in DOMAIN CrealityReads : Row(CrealityReads[k])
      <3> HIDE DEF Row
      <3> QED
        BY <1>1 DEF CrealityReads
    <2> QED
      BY <2>1
  <1>4. \A k \in DOMAIN StarterRow : \E n \in Nat : DOMAIN StarterRow[k] = 1..n
    <2>1. \A k \in DOMAIN StarterRow : Row(StarterRow[k])
      <3> HIDE DEF Row
      <3> QED
        BY <1>1 DEF StarterRow
    <2> QED
      BY <2>1
  <1>5. \A k \in DOMAIN SubmitDefaults : \E n \in Nat : DOMAIN SubmitDefaults[k] = 1..n
    <2>1. \A k \in DOMAIN SubmitDefaults : Row(SubmitDefaults[k])
      <3> HIDE DEF Row
      <3> QED
        BY <1>1 DEF SubmitDefaults
    <2> QED
      BY <2>1
  <1> QED
    BY <1>2, <1>3, <1>4, <1>5

\* A column means what it is called.
LEMMA OwnColumns ==
  ASSUME NEW doc, NEW names, DOMAIN doc \subseteq SubmitColumns
  PROVE  OwnIn(doc, names) <=>
           \A k \in DOMAIN doc : IF k \in names THEN doc[k] = k ELSE SameQuantity(doc[k], k)
  BY DEF OwnIn, Meaning

\* What a preset takes from a document in which every number is its own is its own:
\* a source other than the first is only taken where the first was given by nobody.
LEMMA PresetsAreOwn ==
  ASSUME NEW doc, NEW names, NEW slicer \in DOMAIN Keys,
         DOMAIN doc \subseteq SubmitColumns, OwnIn(doc, names),
         \A q : AreSources(q) /\ q[1] \in names /\ (\E i \in 1..Len(q) : q[i] \in DOMAIN doc)
                  => q[1] \in DOMAIN doc
  PROVE  OwnIn(Convert(Keys[slicer], doc), names)
  <1> DEFINE table == Keys[slicer]
             out == Convert(table, doc)
  <1>0. TakesFirst(table, doc, out)
    <2>1. \A j \in DOMAIN table : \E n \in Nat : DOMAIN table[j] = 1..n
      BY TablesHaveSources
    <2> HIDE DEF table
    <2> QED
      BY <2>1, FirstSourceFirst
  <1>1. SUFFICES ASSUME NEW k \in DOMAIN out
                 PROVE  IF Meaning(k) \in names THEN out[k] = Meaning(k)
                        ELSE SameQuantity(out[k], Meaning(k))
    BY DEF OwnIn
  <1> DEFINE q == table[k]
  <1>3. k \in DOMAIN table
    <2> HIDE DEF out, table
    <2> QED
      BY <1>0 DEF TakesFirst
  <1>4. AreSources(q) /\ Meaning(k) = q[1]
    BY <1>3, KeysAreSources
  <1>5. PICK i \in DOMAIN q : /\ q[i] \in DOMAIN doc /\ out[k] = doc[q[i]]
                              /\ \A j \in DOMAIN q : q[j] \in DOMAIN doc => i <= j
    <2> HIDE DEF out, table
    <2> QED
      BY <1>0 DEF TakesFirst
  <1> HIDE DEF q, table, out
  <1>6. q \in Seq(SubmitColumns) /\ Len(q) > 0 /\ SameQuantity(q[i], q[1]) /\ DOMAIN q = 1..Len(q)
    BY <1>4 DEF AreSources
  <1>7. IF q[i] \in names THEN doc[q[i]] = q[i] ELSE SameQuantity(doc[q[i]], q[i])
    BY <1>5, OwnColumns
  <1>8. CASE q[1] \in names
    <2>1. q[1] \in DOMAIN doc
      BY <1>4, <1>5, <1>6, <1>8
    <2>2. i = 1
      BY <2>1, <1>5, <1>6
    <2> QED
      BY <2>2, <1>4, <1>5, <1>7, <1>8
  <1>9. CASE q[1] \notin names
    <2>1. SameQuantity(doc[q[i]], q[i])
      BY <1>7 DEF SameQuantity
    <2> QED
      BY <2>1, <1>4, <1>5, <1>6, <1>9, QuantityIsTransitive
  <1> QED
    BY <1>8, <1>9

\* Of a revision nobody gave a number that it does not have.
LEMMA NobodyAsksMore ==
  ASSUME NEW doc, NEW names, names \subseteq DOMAIN doc
  PROVE  \A q : AreSources(q) /\ q[1] \in names /\ (\E i \in 1..Len(q) : q[i] \in DOMAIN doc)
                  => q[1] \in DOMAIN doc
  OBVIOUS

\* The invariant of the steps: a revision has columns and no other names, somebody
\* gave only what is there, and every number is its own.
ValuesHold ==
    /\ DOMAIN columns \subseteq SubmitColumns /\ given \subseteq DOMAIN columns
    /\ OwnIn(columns, given)
    /\ preset # NoFile => OwnIn(preset.doc, preset.given)

\* A new revision whose numbers are their own under the names it is given.
LEMMA NewIsOwn ==
  ASSUME NEW doc, NEW names, New(doc, names), DOMAIN doc \subseteq SubmitColumns,
         \A k \in DOMAIN doc : IF k \in names THEN doc[k] = k ELSE SameQuantity(doc[k], k)
  PROVE  /\ DOMAIN columns' \subseteq SubmitColumns /\ given' \subseteq DOMAIN columns'
         /\ OwnIn(columns', given')
  <1>1. columns' = doc /\ given' = names \cap DOMAIN doc
    BY DEF New
  <1>2. OwnIn(doc, names \cap DOMAIN doc)
    BY OwnColumns
  <1> QED
    BY <1>1, <1>2

\* What is kept of a document is as it was, and a number is called as it was
\* measured.
LEMMA KeptIsThere ==
  ASSUME NEW doc, NEW names
  PROVE  /\ DOMAIN Kept(doc, names) = names \cap DOMAIN doc
         /\ \A k \in names \cap DOMAIN doc : Kept(doc, names)[k] = doc[k]
         /\ DOMAIN Of(names) = names /\ \A k \in names : Of(names)[k] = k
  BY DEF Kept, Of, Restrict

\* Who enters a profile gives every number its name.
LEMMA CreateIsOwn ==
  ASSUME NEW names, CreateValues(names)
  PROVE  /\ DOMAIN columns' \subseteq SubmitColumns /\ given' \subseteq DOMAIN columns'
         /\ OwnIn(columns', given')
  <1> DEFINE doc == Kept(Of(names), CreateColumns)
  <1>1. DOMAIN doc = CreateColumns \cap names /\ \A k \in CreateColumns \cap names : doc[k] = k
    BY KeptIsThere
  <1>2. New(doc, names) /\ CreateColumns \subseteq SubmitColumns
    BY DEF CreateValues, SubmitColumns
  <1> HIDE DEF doc
  <1> QED
    BY <1>1, <1>2, NewIsOwn

\* What is not measured by layers is taken from the range and from the bed.
LEMMA DefaultsAreOfTheirKind ==
  /\ DOMAIN SubmitDefaults = {"nozzleTempFirstLayerC", "nozzleTempOtherLayersC",
                              "bedTempFirstLayerC", "bedTempOtherLayersC"}
  /\ \A k \in DOMAIN SubmitDefaults :
        /\ DOMAIN SubmitDefaults[k] = 1..2 /\ SubmitDefaults[k][1] = k
        /\ SameQuantity(SubmitDefaults[k][2], k)
        /\ k \in SubmitColumns \ {"nozzleTempMinC", "nozzleTempMaxC", "chamberTempC"}
  <1>1. /\ SubmitDefaults["nozzleTempFirstLayerC"] = <<"nozzleTempFirstLayerC", "nozzleTempMaxC">>
        /\ SubmitDefaults["nozzleTempOtherLayersC"] = <<"nozzleTempOtherLayersC", "midNozzle">>
        /\ SubmitDefaults["bedTempFirstLayerC"] = <<"bedTempFirstLayerC", "bedTempC">>
        /\ SubmitDefaults["bedTempOtherLayersC"] = <<"bedTempOtherLayersC", "bedTempC">>
    BY DEF SubmitDefaults
  <1>2. DOMAIN SubmitDefaults = {"nozzleTempFirstLayerC", "nozzleTempOtherLayersC",
                                 "bedTempFirstLayerC", "bedTempOtherLayersC"}
    BY DEF SubmitDefaults
  <1>3. /\ SameQuantity("nozzleTempMaxC", "nozzleTempFirstLayerC")
        /\ SameQuantity("midNozzle", "nozzleTempOtherLayersC")
        /\ SameQuantity("bedTempC", "bedTempFirstLayerC")
        /\ SameQuantity("bedTempC", "bedTempOtherLayersC")
    BY DEF SameQuantity, Nozzle, Bed
  <1>4. \A a, b : DOMAIN <<a, b>> = 1..2 /\ <<a, b>>[1] = a /\ <<a, b>>[2] = b
    OBVIOUS
  <1>5. DOMAIN SubmitDefaults \subseteq SubmitColumns
    BY <1>2 DEF SubmitColumns, CreateColumns, Common
  <1> QED
    BY <1>1, <1>2, <1>3, <1>4, <1>5

\* Of a submission, what was measured by layers comes first, and else its default.
LEMMA SubmitIsOwn ==
  ASSUME NEW names, NEW heated, SubmitValues(names, heated)
  PROVE  /\ DOMAIN columns' \subseteq SubmitColumns /\ given' \subseteq DOMAIN columns'
         /\ OwnIn(columns', given')
  <1> DEFINE all == names \cup {"nozzleTempMinC", "nozzleTempMaxC", "midNozzle",
                                "bedTempC", "chamberTempC"}
             known == SubmitColumns \ (IF heated THEN {} ELSE {"chamberTempC"})
             mapped == Convert(SubmitDefaults, Of(all))
             second == Kept(Of(all), known)
             doc == FilledFrom(mapped, second)
             claimed == names \cup {"nozzleTempMinC", "nozzleTempMaxC", "chamberTempC"}
  <1>1. New(doc, claimed)
    BY DEF SubmitValues, Submitted
  <1>2. /\ DOMAIN mapped \subseteq DOMAIN SubmitDefaults
        /\ \A k \in DOMAIN mapped : \E i \in DOMAIN SubmitDefaults[k] :
              /\ SubmitDefaults[k][i] \in DOMAIN Of(all)
              /\ mapped[k] = Of(all)[SubmitDefaults[k][i]]
              /\ \A j \in DOMAIN SubmitDefaults[k] : SubmitDefaults[k][j] \in DOMAIN Of(all) => i <= j
    <2>1. \A k \in DOMAIN SubmitDefaults : \E n \in Nat : DOMAIN SubmitDefaults[k] = 1..n
      BY TablesHaveSources
    <2>2. TakesFirst(SubmitDefaults, Of(all), mapped)
      BY <2>1, FirstSourceFirst
    <2> HIDE DEF all, mapped
    <2> QED
      BY <2>2 DEF TakesFirst
  <1>3. DOMAIN Of(all) = all /\ \A k \in all : Of(all)[k] = k
    BY KeptIsThere
  <1>4. DOMAIN second = known \cap all /\ \A k \in known \cap all : second[k] = k
    <2> HIDE DEF all, known
    <2> QED
      BY <1>3, KeptIsThere
  <1>5. names \subseteq all /\ known \subseteq SubmitColumns
    OBVIOUS
  <1>6. \A k \in DOMAIN mapped : IF k \in names THEN mapped[k] = k ELSE SameQuantity(mapped[k], k)
    <2> HIDE DEF all, known, mapped
    <2>1. SUFFICES ASSUME NEW k \in DOMAIN mapped
                   PROVE  IF k \in names THEN mapped[k] = k ELSE SameQuantity(mapped[k], k)
      OBVIOUS
    <2>2. PICK i \in 1..2 : /\ SubmitDefaults[k][i] \in all /\ mapped[k] = SubmitDefaults[k][i]
                            /\ \A j \in 1..2 : SubmitDefaults[k][j] \in all => i <= j
      BY <2>1, <1>2, <1>3, DefaultsAreOfTheirKind
    <2>3. k \in DOMAIN SubmitDefaults
      BY <1>2
    <2>4. CASE k \in names
      <3>1. SubmitDefaults[k][1] = k /\ k \in all
        BY <2>3, <2>4, <1>5, DefaultsAreOfTheirKind
      <3>2. i = 1
        BY <3>1, <2>2
      <3> QED
        BY <2>2, <2>4, <3>1, <3>2
    <2>5. CASE k \notin names
      <3>1. SameQuantity(SubmitDefaults[k][1], k) /\ SameQuantity(SubmitDefaults[k][2], k)
        BY <2>3, DefaultsAreOfTheirKind DEF SameQuantity
      <3> QED
        BY <2>2, <2>5, <3>1
    <2> QED
      BY <2>4, <2>5
  <1>7. /\ DOMAIN doc = DOMAIN mapped \cup DOMAIN second
        /\ \A k \in DOMAIN mapped : doc[k] = mapped[k]
        /\ \A k \in DOMAIN second \ DOMAIN mapped : doc[k] = second[k]
    <2> HIDE DEF mapped, second
    <2> QED
      BY BeforeOthers
  <1>8. \A k \in DOMAIN mapped : k \in claimed <=> k \in names
    BY <1>2, DefaultsAreOfTheirKind
  <1> HIDE DEF all, known, mapped, second, doc, claimed
  <1>9. DOMAIN doc \subseteq SubmitColumns
    BY <1>2, <1>4, <1>5, <1>7, DefaultsAreOfTheirKind
  <1>10. \A k \in DOMAIN doc : IF k \in claimed THEN doc[k] = k ELSE SameQuantity(doc[k], k)
    BY <1>4, <1>6, <1>7, <1>8 DEF SameQuantity
  <1> QED
    BY <1>1, <1>9, <1>10, NewIsOwn

\* A revision takes what is sent, and else what there was.
LEMMA ReviseIsOwn ==
  ASSUME ValuesHold, NEW names, ReviseValues(names)
  PROVE  /\ DOMAIN columns' \subseteq SubmitColumns /\ given' \subseteq DOMAIN columns'
         /\ OwnIn(columns', given')
  <1> DEFINE sent == Kept(Of(names), ReviseColumns)
             old == Kept(columns, ReviseColumns)
             doc == FilledFrom(sent, old)
  <1>1. New(doc, given \cup names) /\ ReviseColumns \subseteq SubmitColumns
    BY DEF ReviseValues, Successor, Revised, ReviseColumns, SubmitColumns, CreateColumns
  <1>2. DOMAIN sent = ReviseColumns \cap names /\ \A k \in ReviseColumns \cap names : sent[k] = k
    BY KeptIsThere
  <1>3. /\ DOMAIN old = ReviseColumns \cap DOMAIN columns
        /\ \A k \in ReviseColumns \cap DOMAIN columns : old[k] = columns[k]
    BY KeptIsThere
  <1>4. \A k \in DOMAIN columns : IF k \in given THEN columns[k] = k ELSE SameQuantity(columns[k], k)
    BY OwnColumns DEF ValuesHold
  <1>5. /\ DOMAIN doc = DOMAIN sent \cup DOMAIN old
        /\ \A k \in DOMAIN sent : doc[k] = sent[k]
        /\ \A k \in DOMAIN old \ DOMAIN sent : doc[k] = old[k]
    <2> HIDE DEF sent, old
    <2> QED
      BY BeforeOthers
  <1> HIDE DEF sent, old, doc
  <1>6. \A k \in DOMAIN doc :
           IF k \in given \cup names THEN doc[k] = k ELSE SameQuantity(doc[k], k)
    BY <1>2, <1>3, <1>4, <1>5
  <1> QED
    BY <1>1, <1>2, <1>3, <1>5, <1>6, NewIsOwn

\* A fork keeps the ten it knows.
LEMMA ForkIsOwn ==
  ASSUME ValuesHold, ForkValues
  PROVE  /\ DOMAIN columns' \subseteq SubmitColumns /\ given' \subseteq DOMAIN columns'
         /\ OwnIn(columns', given')
  <1> DEFINE doc == Kept(columns, ForkColumns)
  <1>1. New(doc, given) /\ ForkColumns \subseteq SubmitColumns
    BY DEF ForkValues, Successor, ForkColumns, SubmitColumns, CreateColumns
  <1>2. /\ DOMAIN doc = ForkColumns \cap DOMAIN columns
        /\ \A k \in ForkColumns \cap DOMAIN columns : doc[k] = columns[k]
    BY KeptIsThere
  <1>3. \A k \in DOMAIN columns : IF k \in given THEN columns[k] = k ELSE SameQuantity(columns[k], k)
    BY OwnColumns DEF ValuesHold
  <1> HIDE DEF doc
  <1> QED
    BY <1>1, <1>2, <1>3, NewIsOwn

\* What a manufacturer states is a range for the nozzle, one for the bed, or one end
\* of it; a layer's temperature is not among it.
LEMMA StatementsAreRanges ==
  \A names \in Statements :
     names \subseteq {"nozzleTempMinC", "nozzleTempMaxC", "bedTempMinC", "bedTempMaxC", "chamberTempC"}
  BY DEF Statements

\* What a layer of a starter is calculated from is of its heater.
LEMMA StartersAreOfTheirKind ==
  /\ DOMAIN StarterRow = DOMAIN SubmitDefaults \cup {"nozzleTempMinC", "nozzleTempMaxC", "chamberTempC"}
  /\ \A k \in DOMAIN SubmitDefaults : \A i \in DOMAIN StarterRow[k] : SameQuantity(StarterRow[k][i], k)
  /\ \A k \in {"nozzleTempMinC", "nozzleTempMaxC", "chamberTempC"} : StarterRow[k] = <<k>>
  <1>1. /\ DOMAIN StarterRow = {"nozzleTempFirstLayerC", "nozzleTempOtherLayersC",
             "bedTempFirstLayerC", "bedTempOtherLayersC", "nozzleTempMinC", "nozzleTempMaxC", "chamberTempC"}
        /\ StarterRow["nozzleTempFirstLayerC"] = <<"midNozzle", "nozzleTempMinC", "nozzleTempMaxC">>
        /\ StarterRow["nozzleTempOtherLayersC"] = <<"midNozzle", "nozzleTempMinC", "nozzleTempMaxC">>
        /\ StarterRow["bedTempFirstLayerC"] = <<"midBed", "bedTempMinC", "bedTempMaxC">>
        /\ StarterRow["bedTempOtherLayersC"] = <<"midBed", "bedTempMinC", "bedTempMaxC">>
        /\ StarterRow["nozzleTempMinC"] = <<"nozzleTempMinC">>
        /\ StarterRow["nozzleTempMaxC"] = <<"nozzleTempMaxC">>
        /\ StarterRow["chamberTempC"] = <<"chamberTempC">>
    BY DEF StarterRow
  <1>2. \A a, b, c : \A i \in DOMAIN <<a, b, c>> : <<a, b, c>>[i] \in {a, b, c}
    OBVIOUS
  <1>3. /\ \A x \in {"midNozzle", "nozzleTempMinC", "nozzleTempMaxC"} :
             SameQuantity(x, "nozzleTempFirstLayerC") /\ SameQuantity(x, "nozzleTempOtherLayersC")
        /\ \A x \in {"midBed", "bedTempMinC", "bedTempMaxC"} :
             SameQuantity(x, "bedTempFirstLayerC") /\ SameQuantity(x, "bedTempOtherLayersC")
    BY DEF SameQuantity, Nozzle, Bed
  <1> QED
    BY <1>1, <1>2, <1>3, DefaultsAreOfTheirKind

\* What is calculated from a manufacturer's statement: a number for every name he
\* stated of those a revision has, and numbers of their kind.
LEMMA StatedIsOwn ==
  ASSUME NEW names \in Statements, NEW doc, doc = Convert(StarterRow, Known(names))
  PROVE  /\ DOMAIN doc \subseteq DOMAIN StarterRow
         /\ names \cap {"nozzleTempMinC", "nozzleTempMaxC", "chamberTempC"} \subseteq DOMAIN doc
         /\ \A k \in DOMAIN doc : IF k \in names THEN doc[k] = k ELSE SameQuantity(doc[k], k)
  <1> DEFINE known == Known(names)
  <1>1. /\ names \subseteq DOMAIN known /\ \A k \in DOMAIN known : known[k] = k
    BY DEF Known, Of
  <1> HIDE DEF known
  <1>2. /\ \A k : k \in DOMAIN doc <=> k \in DOMAIN StarterRow
                                       /\ \E i \in DOMAIN StarterRow[k] : StarterRow[k][i] \in DOMAIN known
        /\ \A k \in DOMAIN doc : \E i \in DOMAIN StarterRow[k] :
              StarterRow[k][i] \in DOMAIN known /\ doc[k] = known[StarterRow[k][i]]
    <2>1. \A k \in DOMAIN StarterRow : \E n \in Nat : DOMAIN StarterRow[k] = 1..n
      BY TablesHaveSources
    <2>2. doc = Convert(StarterRow, known)
      BY DEF known
    <2>3. TakesFirst(StarterRow, known, doc)
      BY <2>1, <2>2, FirstSourceFirst
    <2> QED
      BY <2>3 DEF TakesFirst
  <1>3. \A a : DOMAIN <<a>> = {1} /\ <<a>>[1] = a
    OBVIOUS
  <1>4. \A k \in {"nozzleTempMinC", "nozzleTempMaxC", "chamberTempC"} :
           DOMAIN StarterRow[k] = {1} /\ StarterRow[k][1] = k
    BY <1>3, StartersAreOfTheirKind
  <1>5. names \cap {"nozzleTempMinC", "nozzleTempMaxC", "chamberTempC"} \subseteq DOMAIN doc
    BY <1>1, <1>2, <1>4, StartersAreOfTheirKind
  <1>6. ASSUME NEW k \in DOMAIN doc
        PROVE  IF k \in names THEN doc[k] = k ELSE SameQuantity(doc[k], k)
    <2>1. PICK i \in DOMAIN StarterRow[k] : StarterRow[k][i] \in DOMAIN known /\ doc[k] = known[StarterRow[k][i]]
      BY <1>2
    <2>2. doc[k] = StarterRow[k][i]
      BY <2>1, <1>1
    <2>3. CASE k \in DOMAIN SubmitDefaults
      <3>1. k \notin names
        BY <2>3, StatementsAreRanges, DefaultsAreOfTheirKind
      <3> QED
        BY <2>1, <2>2, <2>3, <3>1, StartersAreOfTheirKind
    <2>4. CASE k \in {"nozzleTempMinC", "nozzleTempMaxC", "chamberTempC"}
      <3>1. doc[k] = k
        BY <2>1, <2>2, <2>4, <1>4
      <3> QED
        BY <3>1 DEF SameQuantity
    <2> QED
      BY <2>3, <2>4, <1>2, StartersAreOfTheirKind
  <1> QED
    BY <1>2, <1>5, <1>6

\* A starter profile from the catalogue.
LEMMA StarterIsOwn ==
  ASSUME NEW names, names \in Statements, ImportStarter(names)
  PROVE  /\ DOMAIN columns' \subseteq SubmitColumns /\ given' \subseteq DOMAIN columns'
         /\ OwnIn(columns', given')
  <1> DEFINE doc == Convert(StarterRow, Known(names))
  <1>1. New(doc, names)
    BY DEF ImportStarter
  <1>2. DOMAIN StarterRow \subseteq SubmitColumns
    BY StartersAreOfTheirKind, DefaultsAreOfTheirKind
       DEF SubmitColumns, CreateColumns, Nozzle
  <1>3. /\ DOMAIN doc \subseteq DOMAIN StarterRow
        /\ \A k \in DOMAIN doc : IF k \in names THEN doc[k] = k ELSE SameQuantity(doc[k], k)
    BY StatedIsOwn
  <1> HIDE DEF doc
  <1> QED
    BY <1>1, <1>2, <1>3, NewIsOwn

\* What Creality Print saved under a name is what the importer reads it as.
LEMMA ReadsWhatIsMeant ==
  \A k \in DOMAIN CrealityReads : \A i \in DOMAIN CrealityReads[k] : Meaning(CrealityReads[k][i]) = k
  <1>1. \A j \in DOMAIN CrealityKeys : Meaning(j) = CrealityKeys[j][1]
    <2>1. "creality" \in DOMAIN Keys /\ Keys["creality"] = CrealityKeys
      BY DEF Keys
    <2> QED
      BY <2>1, KeysAreSources
  <1>2. \A a, b : <<a>>[1] = a /\ <<a, b>>[1] = a
    OBVIOUS
  <1>3. /\ FamilyKeys["nozzle_temperature"][1] = "nozzleTempOtherLayersC"
        /\ FamilyKeys["nozzle_temperature_initial_layer"][1] = "nozzleTempFirstLayerC"
        /\ FamilyKeys["hot_plate_temp"][1] = "bedTempOtherLayersC"
        /\ FamilyKeys["textured_plate_temp"][1] = "bedTempOtherLayersC"
        /\ FamilyKeys["hot_plate_temp_initial_layer"][1] = "bedTempFirstLayerC"
        /\ FamilyKeys["filament_flow_ratio"][1] = "flowRatio"
        /\ FamilyKeys["pressure_advance"][1] = "pressureAdvance"
        /\ FamilyKeys["filament_max_volumetric_speed"][1] = "maxVolumetricFlowMm3s"
        /\ {"nozzle_temperature", "nozzle_temperature_initial_layer", "hot_plate_temp",
            "textured_plate_temp", "hot_plate_temp_initial_layer", "filament_flow_ratio",
            "pressure_advance", "filament_max_volumetric_speed"} \subseteq FamilyOwn
    BY <1>2 DEF FamilyKeys, FamilyOwn
  <1>4. /\ Meaning("nozzle_temperature") = "nozzleTempOtherLayersC"
        /\ Meaning("nozzle_temperature_initial_layer") = "nozzleTempFirstLayerC"
        /\ Meaning("hot_plate_temp") = "bedTempOtherLayersC"
        /\ Meaning("textured_plate_temp") = "bedTempOtherLayersC"
        /\ Meaning("hot_plate_temp_initial_layer") = "bedTempFirstLayerC"
        /\ Meaning("filament_flow_ratio") = "flowRatio"
        /\ Meaning("pressure_advance") = "pressureAdvance"
        /\ Meaning("filament_max_volumetric_speed") = "maxVolumetricFlowMm3s"
    BY <1>1, <1>3, CrealityNames
  <1>5. Meaning("textured_plate_temp_initial_layer") = "bedTempFirstLayerC"
    BY <1>1, <1>2, CrealityNames DEF CrealityOwn
  <1>6. /\ \A a : \A i \in DOMAIN <<a>> : <<a>>[i] = a
        /\ \A a, b : \A i \in DOMAIN <<a, b>> : <<a, b>>[i] \in {a, b}
    OBVIOUS
  <1> QED
    BY <1>4, <1>5, <1>6 DEF CrealityReads

\* Who reads a preset back into columns takes every number as what it means.
LEMMA ImportIsOwn ==
  ASSUME ValuesHold, ImportFile
  PROVE  /\ DOMAIN columns' \subseteq SubmitColumns /\ given' \subseteq DOMAIN columns'
         /\ OwnIn(columns', given')
  <1>1. OwnIn(preset.doc, preset.given)
    BY DEF ImportFile, ValuesHold
  <1>2. CASE New(Convert(CrealityReads, preset.doc), preset.given)
    <2> DEFINE doc == preset.doc
               out == Convert(CrealityReads, doc)
    <2>1. \A k \in DOMAIN CrealityReads : \E n \in Nat : DOMAIN CrealityReads[k] = 1..n
      BY TablesHaveSources
    <2>2. TakesFirst(CrealityReads, doc, out)
      BY <2>1, FirstSourceFirst
    <2>3. New(out, preset.given) /\ OwnIn(doc, preset.given)
      BY <1>1, <1>2
    <2> HIDE DEF out, doc
    <2>4. DOMAIN out \subseteq SubmitColumns
      BY <2>2, KeysAreNoColumns DEF TakesFirst
    <2>5. ASSUME NEW k \in DOMAIN out
          PROVE  IF k \in preset.given THEN out[k] = k ELSE SameQuantity(out[k], k)
      <3>1. k \in DOMAIN CrealityReads
        BY <2>2 DEF TakesFirst
      <3>2. PICK i \in DOMAIN CrealityReads[k] :
               CrealityReads[k][i] \in DOMAIN doc /\ out[k] = doc[CrealityReads[k][i]]
        BY <2>2 DEF TakesFirst
      <3>3. Meaning(CrealityReads[k][i]) = k
        BY <3>1, ReadsWhatIsMeant
      <3> QED
        BY <2>3, <3>2, <3>3 DEF OwnIn
    <2> QED
      BY <2>3, <2>4, <2>5, NewIsOwn
  <1>3. CASE New(Kept(preset.doc, ImportColumns), preset.given)
    <2> DEFINE doc == Kept(preset.doc, ImportColumns)
    <2>1. /\ DOMAIN doc = ImportColumns \cap DOMAIN preset.doc
          /\ \A k \in ImportColumns \cap DOMAIN preset.doc : doc[k] = preset.doc[k]
      BY KeptIsThere
    <2>2. New(doc, preset.given) /\ ImportColumns \subseteq SubmitColumns
      BY <1>3 DEF ImportColumns, SubmitColumns, CreateColumns
    <2> HIDE DEF doc
    <2>3. \A k \in DOMAIN doc : IF k \in preset.given THEN doc[k] = k ELSE SameQuantity(doc[k], k)
      BY <1>1, <2>1, <2>2 DEF OwnIn, Meaning
    <2> QED
      BY <2>1, <2>2, <2>3, NewIsOwn
  <1> QED
    BY <1>2, <1>3 DEF ImportFile, Successor

\* A document of which every number is its own is saved as such.
LEMMA SaveIsOwn ==
  ASSUME NEW slicer \in Outputs, NEW doc, NEW names, Save(slicer, doc, names),
         DOMAIN doc \subseteq SubmitColumns, OwnIn(doc, names),
         \A q : AreSources(q) /\ q[1] \in names /\ (\E i \in 1..Len(q) : q[i] \in DOMAIN doc)
                  => q[1] \in DOMAIN doc
  PROVE  OwnIn(preset'.doc, preset'.given)
  <1>1. preset'.given = names
    BY DEF Save
  <1>2. CASE slicer = "openfilamentprofile"
    <2>1. preset'.doc = doc
      BY <1>2 DEF Save
    <2> QED
      BY <1>1, <2>1
  <1>3. CASE slicer # "openfilamentprofile"
    <2>1. preset'.doc = Convert(Keys[slicer], doc)
      BY <1>3 DEF Save
    <2>2. slicer \in DOMAIN Keys
      BY <1>3 DEF Outputs
    <2>3. OwnIn(Convert(Keys[slicer], doc), names)
      BY <2>2, PresetsAreOwn
    <2> QED
      BY <1>1, <2>1, <2>3
  <1> QED
    BY <1>2, <1>3

\* Who exports a profile exports its present numbers.
LEMMA ExportIsOwn ==
  ASSUME ValuesHold, NEW slicer \in Outputs, ExportProfile(slicer)
  PROVE  OwnIn(preset'.doc, preset'.given)
  <1>1. Save(slicer, columns, given)
    BY DEF ExportProfile
  <1> QED
    BY <1>1, SaveIsOwn, NobodyAsksMore DEF ValuesHold

\* The preset for a spool read from its tag leaves out whole rows of sources, never
\* the first of one alone.
LEMMA MatchedIsOwn ==
  ASSUME ValuesHold, ExportMatched
  PROVE  OwnIn(preset'.doc, preset'.given)
  <1> DEFINE doc == Kept(columns, MatchColumns)
  <1>1. Save("creality", doc, given) /\ "creality" \in Outputs
    BY DEF ExportMatched, Outputs, Keys
  <1>2. /\ DOMAIN doc = MatchColumns \cap DOMAIN columns
        /\ \A k \in MatchColumns \cap DOMAIN columns : doc[k] = columns[k]
    BY KeptIsThere
  <1> HIDE DEF doc
  <1>3. DOMAIN doc \subseteq SubmitColumns
    BY <1>2 DEF ValuesHold
  <1>4. OwnIn(doc, given)
    BY <1>2, <1>3, OwnColumns DEF ValuesHold
  <1>5. \A q : AreSources(q) /\ q[1] \in given /\ (\E i \in 1..Len(q) : q[i] \in DOMAIN doc)
                 => q[1] \in DOMAIN doc
    BY <1>2 DEF AreSources, ValuesHold
  <1> QED
    BY <1>1, <1>3, <1>4, <1>5, SaveIsOwn

\* A preset without a revision: what the manufacturer stated, then a default for
\* every layer, then the template of the printer's class.
LEMMA StarterPresetIsOwn ==
  ASSUME NEW slicer \in Outputs, NEW names \in Statements, ExportStarter(slicer, names)
  PROVE  OwnIn(preset'.doc, preset'.given)
  <1>1. PICK template \in Templates : Save(slicer, StarterDocument(names, template), names)
    BY DEF ExportStarter
  <1> DEFINE temps == Convert(StarterRow, Known(names))
             nozzle == [f \in Nozzle \ {"nozzleTempMinC", "nozzleTempMaxC"} |-> "defaultNozzle"]
             bed == [f \in Bed |-> "defaultBed"]
             layers == FilledFrom(nozzle, bed)
             others == FilledFrom(layers, Of(template))
             doc == FilledFrom(temps, others)
  <1>2. Save(slicer, doc, names)
    BY <1>1 DEF StarterDocument
  <1>3. /\ DOMAIN temps \subseteq DOMAIN StarterRow
        /\ names \cap {"nozzleTempMinC", "nozzleTempMaxC", "chamberTempC"} \subseteq DOMAIN temps
        /\ \A k \in DOMAIN temps : IF k \in names THEN temps[k] = k ELSE SameQuantity(temps[k], k)
    BY StatedIsOwn
  <1>4. /\ DOMAIN layers \subseteq {"nozzleTempFirstLayerC", "nozzleTempOtherLayersC",
                                    "bedTempFirstLayerC", "bedTempOtherLayersC"}
        /\ \A k \in DOMAIN layers : SameQuantity(layers[k], k)
    <2>1. /\ DOMAIN layers = DOMAIN nozzle \cup DOMAIN bed
          /\ \A k \in DOMAIN nozzle : layers[k] = nozzle[k]
          /\ \A k \in DOMAIN bed \ DOMAIN nozzle : layers[k] = bed[k]
      <3> HIDE DEF nozzle, bed
      <3> QED
        BY BeforeOthers
    <2>2. /\ DOMAIN nozzle = Nozzle \ {"nozzleTempMinC", "nozzleTempMaxC"}
          /\ DOMAIN bed = Bed
          /\ \A k \in DOMAIN nozzle : nozzle[k] = "defaultNozzle"
          /\ \A k \in DOMAIN bed : bed[k] = "defaultBed"
      OBVIOUS
    <2>3. /\ \A k \in Nozzle : SameQuantity("defaultNozzle", k)
          /\ \A k \in Bed : SameQuantity("defaultBed", k)
      BY DEF SameQuantity
    <2> HIDE DEF nozzle, bed, layers
    <2>4. \A k \in DOMAIN layers : SameQuantity(layers[k], k)
      BY <2>1, <2>2, <2>3
    <2> QED
      BY <2>1, <2>2, <2>4 DEF Nozzle, Bed
  <1>5. /\ DOMAIN others = DOMAIN layers \cup template
        /\ \A k \in DOMAIN layers : others[k] = layers[k]
        /\ \A k \in template \ DOMAIN layers : others[k] = k
    <2> HIDE DEF layers
    <2>1. DOMAIN Of(template) = template /\ \A k \in template : Of(template)[k] = k
      BY KeptIsThere
    <2>2. /\ DOMAIN others = DOMAIN layers \cup DOMAIN Of(template)
          /\ \A k \in DOMAIN layers : others[k] = layers[k]
          /\ \A k \in DOMAIN Of(template) \ DOMAIN layers : others[k] = Of(template)[k]
      BY BeforeOthers
    <2> HIDE DEF others
    <2> QED
      BY <2>1, <2>2
  <1>6. /\ DOMAIN doc = DOMAIN temps \cup DOMAIN others
        /\ \A k \in DOMAIN temps : doc[k] = temps[k]
        /\ \A k \in DOMAIN others \ DOMAIN temps : doc[k] = others[k]
    <2> HIDE DEF temps, others
    <2> QED
      BY BeforeOthers
  <1> HIDE DEF temps, nozzle, bed, layers, others, doc
  <1>7. /\ template \subseteq SubmitColumns
        /\ DOMAIN StarterRow \subseteq SubmitColumns
        /\ DOMAIN layers \subseteq SubmitColumns
    <2>1. template \subseteq SubmitColumns
      BY DEF Templates, SubmitColumns, CreateColumns, Common
    <2>2. DOMAIN StarterRow \subseteq SubmitColumns
      BY StartersAreOfTheirKind, DefaultsAreOfTheirKind DEF SubmitColumns, CreateColumns, Nozzle
    <2>3. DOMAIN layers \subseteq SubmitColumns
      BY <1>4 DEF SubmitColumns, CreateColumns, Common
    <2> QED
      BY <2>1, <2>2, <2>3
  <1>8. DOMAIN doc \subseteq SubmitColumns
    BY <1>3, <1>5, <1>6, <1>7
  <1>9. names \cap SubmitColumns \subseteq DOMAIN doc
    <2>1. "bedTempMinC" \notin SubmitColumns /\ "bedTempMaxC" \notin SubmitColumns
      BY DEF SubmitColumns, CreateColumns, Common, Shrinkage, Nozzle
    <2> QED
      BY <2>1, <1>3, <1>6, StatementsAreRanges
  <1>10. \A k \in DOMAIN doc : IF k \in names THEN doc[k] = k ELSE SameQuantity(doc[k], k)
    <2>1. \A k \in DOMAIN layers : k \notin names
      BY <1>4, StatementsAreRanges
    <2>2. \A k : SameQuantity(k, k)
      BY DEF SameQuantity
    <2> QED
      BY <2>1, <2>2, <1>3, <1>4, <1>5, <1>6
  <1>11. OwnIn(doc, names)
    BY <1>8, <1>10, OwnColumns
  <1>12. \A q : AreSources(q) /\ q[1] \in names /\ (\E i \in 1..Len(q) : q[i] \in DOMAIN doc)
                 => q[1] \in DOMAIN doc
    BY <1>9 DEF AreSources
  <1> QED
    BY <1>2, <1>8, <1>11, <1>12, SaveIsOwn

\* Of what the importer reads, the first place is the one its number is saved to,
\* and saved from nothing else while it is there.
LEMMA FirstPlaceIsItsOwn ==
  /\ ImportColumns = DOMAIN CrealityReads
  /\ \A f \in DOMAIN CrealityReads :
        /\ 1 \in DOMAIN CrealityReads[f]
        /\ CrealityReads[f][1] \in DOMAIN CrealityKeys
        /\ 1 \in DOMAIN CrealityKeys[CrealityReads[f][1]]
        /\ CrealityKeys[CrealityReads[f][1]][1] = f
  <1>1. ImportColumns = DOMAIN CrealityReads
    BY DEF ImportColumns, Common, CrealityReads
  <1>2. \A f \in DOMAIN CrealityReads :
           /\ 1 \in DOMAIN CrealityReads[f]
           /\ CrealityReads[f][1] \in FamilyOwn \cup CrealityOwn
    <2>1. /\ \A a : 1 \in DOMAIN <<a>> /\ <<a>>[1] = a
          /\ \A a, b : 1 \in DOMAIN <<a, b>> /\ <<a, b>>[1] = a
      OBVIOUS
    <2>2. {"nozzle_temperature", "nozzle_temperature_initial_layer", "textured_plate_temp",
           "textured_plate_temp_initial_layer", "filament_flow_ratio", "pressure_advance",
           "filament_max_volumetric_speed"} \subseteq FamilyOwn \cup CrealityOwn
      BY DEF FamilyOwn, FamilyKeys, CrealityOwn
    <2> QED
      BY <2>1, <2>2 DEF CrealityReads
  <1>3. "creality" \in DOMAIN Keys /\ Keys["creality"] = CrealityKeys
    BY DEF Keys
  <1>4. \A k \in DOMAIN CrealityKeys : 1 \in DOMAIN CrealityKeys[k] /\ Meaning(k) = CrealityKeys[k][1]
    BY <1>3, KeysAreSources DEF AreSources
  <1> QED
    BY <1>1, <1>2, <1>4, ReadsWhatIsMeant, CrealityNames

\* So what goes out comes back, whatever a revision holds.
LEMMA ComesBack == PresetsComeBack
  <1> DEFINE shown == Convert(CrealityKeys, columns)
             back == Convert(CrealityReads, shown)
  <1>1. TakesFirst(CrealityKeys, columns, shown)
    <2>1. "creality" \in DOMAIN Keys /\ Keys["creality"] = CrealityKeys
      BY DEF Keys
    <2>2. \A k \in DOMAIN CrealityKeys : \E n \in Nat : DOMAIN CrealityKeys[k] = 1..n
      BY <2>1, TablesHaveSources
    <2> QED
      BY <2>2, FirstSourceFirst
  <1>2. TakesFirst(CrealityReads, shown, back)
    <2>1. \A k \in DOMAIN CrealityReads : \E n \in Nat : DOMAIN CrealityReads[k] = 1..n
      BY TablesHaveSources
    <2> QED
      BY <2>1, FirstSourceFirst
  <1>3. SUFFICES ASSUME NEW f \in ImportColumns \cap DOMAIN columns
                 PROVE  f \in DOMAIN back /\ back[f] = columns[f]
    BY DEF PresetsComeBack
  <1> HIDE DEF shown, back
  <1> DEFINE k == CrealityReads[f][1]
  <1>4. /\ f \in DOMAIN CrealityReads /\ 1 \in DOMAIN CrealityReads[f] /\ k \in DOMAIN CrealityKeys
        /\ 1 \in DOMAIN CrealityKeys[k] /\ CrealityKeys[k][1] = f
    BY FirstPlaceIsItsOwn
  <1>5. \E n, m \in Nat : DOMAIN CrealityReads[f] = 1..n /\ DOMAIN CrealityKeys[k] = 1..m
    <2>1. "creality" \in DOMAIN Keys /\ Keys["creality"] = CrealityKeys
      BY DEF Keys
    <2> QED
      BY <1>4, <2>1, TablesHaveSources
  <1> HIDE DEF k
  <1>6. k \in DOMAIN shown /\ shown[k] = columns[f]
    <2>1. k \in DOMAIN shown
      BY <1>1, <1>4 DEF TakesFirst
    <2>2. PICK i \in DOMAIN CrealityKeys[k] :
             /\ shown[k] = columns[CrealityKeys[k][i]]
             /\ \A j \in DOMAIN CrealityKeys[k] : CrealityKeys[k][j] \in DOMAIN columns => i <= j
      BY <1>1, <2>1 DEF TakesFirst
    <2>3. i = 1
      BY <2>2, <1>4, <1>5
    <2> QED
      BY <2>1, <2>2, <2>3, <1>4
  <1>7. CrealityReads[f][1] = k
    BY DEF k
  <1>8. f \in DOMAIN back
    BY <1>2, <1>4, <1>6, <1>7 DEF TakesFirst
  <1>9. PICK i \in DOMAIN CrealityReads[f] :
           /\ back[f] = shown[CrealityReads[f][i]]
           /\ \A j \in DOMAIN CrealityReads[f] : CrealityReads[f][j] \in DOMAIN shown => i <= j
    BY <1>2, <1>8 DEF TakesFirst
  <1>10. i = 1
    BY <1>4, <1>5, <1>6, <1>7, <1>9
  <1> QED
    BY <1>6, <1>7, <1>8, <1>9, <1>10

\* The invariant holds of a product without a profile.
LEMMA ValuesStart == ValuesInit => ValuesHold
  <1> SUFFICES ASSUME ValuesInit PROVE ValuesHold
    OBVIOUS
  <1>1. DOMAIN columns = {} /\ given = {} /\ preset = NoFile
    BY DEF ValuesInit
  <1> QED
    BY <1>1 DEF ValuesHold, OwnIn

\* Every way to write a revision or a preset keeps it.
LEMMA ValuesStep == ValuesHold /\ [ValuesNext]_valueVars => ValuesHold'
  <1> SUFFICES ASSUME ValuesHold, [ValuesNext]_valueVars PROVE ValuesHold'
    OBVIOUS
  <1> DEFINE Own == /\ DOMAIN columns' \subseteq SubmitColumns /\ given' \subseteq DOMAIN columns'
                    /\ OwnIn(columns', given')
  <1>1. Own /\ UNCHANGED preset => ValuesHold'
    BY DEF ValuesHold, OwnIn
  <1>2. OwnIn(preset'.doc, preset'.given) /\ UNCHANGED <<columns, given>> => ValuesHold'
    BY DEF ValuesHold, OwnIn
  <1>3. ASSUME NEW names, CreateValues(names) PROVE ValuesHold'
    BY <1>1, <1>3, CreateIsOwn DEF CreateValues
  <1>4. ASSUME NEW names, ReviseValues(names) PROVE ValuesHold'
    BY <1>1, <1>4, ReviseIsOwn DEF ReviseValues, Successor
  <1>5. ASSUME NEW names, NEW heated, SubmitValues(names, heated) PROVE ValuesHold'
    BY <1>1, <1>5, SubmitIsOwn DEF SubmitValues
  <1>6. ASSUME NEW names \in Statements, ImportStarter(names) PROVE ValuesHold'
    BY <1>1, <1>6, StarterIsOwn DEF ImportStarter
  <1>7. ASSUME NEW names \in Statements, NEW slicer \in Outputs, ExportStarter(slicer, names)
        PROVE  ValuesHold'
    BY <1>2, <1>7, StarterPresetIsOwn DEF ExportStarter, Save
  <1>8. ASSUME ForkValues PROVE ValuesHold'
    BY <1>1, <1>8, ForkIsOwn DEF ForkValues, Successor
  <1>9. ASSUME ImportFile PROVE ValuesHold'
    BY <1>1, <1>9, ImportIsOwn DEF ImportFile, Successor
  <1>10. ASSUME ExportMatched PROVE ValuesHold'
    BY <1>2, <1>10, MatchedIsOwn DEF ExportMatched, Save
  <1>11. ASSUME NEW slicer \in Outputs, ExportProfile(slicer) PROVE ValuesHold'
    BY <1>2, <1>11, ExportIsOwn DEF ExportProfile, Save
  <1>12. CASE UNCHANGED valueVars
    BY <1>12 DEF ValuesHold, valueVars, OwnIn
  <1> QED
    BY <1>3, <1>4, <1>5, <1>6, <1>7, <1>8, <1>9, <1>10, <1>11, <1>12 DEF ValuesNext

\* However revisions, forks, presets and imports follow each other, whatever was
\* sent: a number that somebody gave keeps its name, a default is of its kind, and
\* what goes out as a preset for Creality Print comes back (ProfileValues, and
\* through it api/routes.ts, canonical-profile and slicer-*/convert.ts).
THEOREM ValuesAreAlwaysSound == ValuesSpec => []ValuesAreSound
  <1>1. ValuesHold => ValuesAreSound
    BY ComesBack DEF ValuesHold, ValuesAreSound, ValuesAreTheirOwn
  <1> QED
    BY <1>1, ValuesStart, ValuesStep, PTL DEF ValuesSpec
=============================================================================
