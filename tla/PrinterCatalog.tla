--------------------------- MODULE PrinterCatalog ----------------------------
(***************************************************************************)
(* Printers, their toolheads and the profiles measured on them.  A visitor *)
(* names a printer in his own words and it is looked up or created, before *)
(* his profile is stored (db/printer-catalog.ts, resolveOrCreatePrinter;   *)
(* api/routes.ts, POST community/profiles).  Jobs run beside the API on    *)
(* the same file: the curated list (ensurePrinterCatalog), a public        *)
(* dataset (import-open-printers.ts), and the clean-up of names            *)
(* (dedupe-brands.ts, dedupePrinterBrands).                                *)
(*                                                                         *)
(* Nothing opens a transaction; foreign keys are on.  A row's uuid is      *)
(* computed from who made it and under what name, and stays when the row   *)
(* is renamed; a toolhead's is computed from its printer's.                *)
(*                                                                         *)
(* A name is brand and model together, in one spelling.  KeyOf is          *)
(* normalizeNameKey (domain/name-match.ts): names that are matched with    *)
(* each other, aliases and near misses too, have one key.  CleanOf is what *)
(* the clean-up makes of a name.  A printer has toolheads of one diameter. *)
(***************************************************************************)
EXTENDS Naturals, FiniteSets, Sequences

CONSTANTS
    Names, NoName,
    KeyOf, CleanOf,
    Curated,           \* the names of PRINTER_CATALOG
    Dataset,           \* the names of the public dataset, as its importer cleans them
    MaxRow, MaxTool,   \* bounds on the ids of printer_models and toolhead_configs
    Profiles

ASSUME PrinterParameters ==
    /\ NoName \notin Names /\ MaxRow \in Nat /\ MaxTool \in Nat
    /\ CleanOf \in [Names -> Names] /\ KeyOf \in [Names -> Names]
    /\ \A n \in Names : CleanOf[CleanOf[n]] = CleanOf[n]
    /\ Curated \cup Dataset \subseteq {CleanOf[n] : n \in Names}

VARIABLES
    printer,           \* the rows
    lastRow,           \* the id that was given last; none is given twice
    toolhead,          \* the printer of each toolhead, and its uuid
    profile,           \* printer and toolhead of each profile, and the name asked for
    ask,               \* the visitor's request
    work,              \* the job that runs
    torn               \* profiles that a clean-up left half moved or overtook

printerVars == <<printer, lastRow, toolhead, profile, ask, work, torn>>

Rows == 1..MaxRow
Tools == 1..MaxTool
NoRow == 0
NoTool == 0

NoPrinter == [name |-> NoName, uuid |-> <<"none", NoName>>, slug |-> NoName]
NoToolhead == [of |-> NoRow, uuid |-> <<"none", "none", NoName>>]
NoProfile == [printer |-> NoRow, tool |-> NoTool, asked |-> NoName]
NoAsk == [step |-> "idle", name |-> NoName, asked |-> NoName, row |-> NoRow,
          tool |-> NoTool,
          alone |-> FALSE,     \* no job has run beside the request
          overtaken |-> FALSE] \* the clean-up was emptying the row beside it
NoWork == [kind |-> "none", step |-> "idle", name |-> NoName, row |-> NoRow,
           clash |-> NoRow, todo |-> {}, names |-> [r \in Rows |-> NoName]]

Present == {r \in Rows : printer[r] # NoPrinter}
Named(n) == {r \in Present : printer[r].name = n}

\* Mutant of Alike: any model will do.
Alike_Any(n) == Present

Alike(n) == {r \in Present : KeyOf[printer[r].name] = KeyOf[n]}
ToolsOf(r) == {t \in Tools : toolhead[t].of = r}
-----------------------------------------------------------------------------
(* What the three ways to a printer share.  Each looks for a row, inserts  *)
(* one if there is none, and sees to its toolheads.                        *)

\* printer_models is unique by uuid, by slug, and by name.
MayInsert(n, uuid) ==
    \A r \in Present : printer[r].name # n /\ printer[r].uuid # uuid

\* A slug that is taken gets a number; the dataset's slugs name the technology.
SlugFor(n, kind) ==
    IF kind = "dataset" \/ \E r \in Present : printer[r].slug = KeyOf[n]
    THEN NoName ELSE KeyOf[n]

InsertPrinter(r, n, kind) ==
    /\ r = lastRow + 1 /\ lastRow' = r
    /\ MayInsert(n, <<kind, n>>)
    /\ printer' = [printer EXCEPT ![r] = [name |-> n, uuid |-> <<kind, n>>,
                                          slug |-> SlugFor(n, kind)]]

\* ensureToolheads computes the same uuid for the visitor and for the curated
\* list, the dataset's importer one of its own.
ToolUuid(r, kind) ==
    <<IF kind = "dataset" THEN "o3dp-tool" ELSE "toolhead">> \o printer[r].uuid

MayEquip(r, kind) ==
    /\ r \in Present
    /\ \/ ToolsOf(r) # {}
       \/ \A t \in Tools : toolhead[t].uuid # ToolUuid(r, kind)

EnsureToolheads(r, t, kind) ==
    /\ MayEquip(r, kind)
    /\ IF ToolsOf(r) # {} THEN t \in ToolsOf(r) /\ UNCHANGED toolhead
       ELSE /\ t = Cardinality({u \in Tools : toolhead[u] # NoToolhead}) + 1
            /\ toolhead' = [toolhead EXCEPT ![t] =
                               [of |-> r, uuid |-> ToolUuid(r, kind)]]
-----------------------------------------------------------------------------
(* The visitor's request.                                                  *)

\* The name is taken for one that is there or in the curated list.
AskPrinter(n) ==
    /\ ask.step = "idle"
    /\ LET curated == {c \in Curated : KeyOf[c] = KeyOf[n]}
       IN \E name \in IF curated = {} THEN {n} ELSE curated :
          \E r \in IF Alike(n) = {} THEN {NoRow} ELSE Alike(n) :
             ask' = [step |-> IF r = NoRow THEN "insert" ELSE "equip",
                     name |-> name, asked |-> n, row |-> r, tool |-> NoTool,
                     alone |-> work = NoWork, overtaken |-> FALSE]
    /\ UNCHANGED <<printer, lastRow, toolhead, profile, work, torn>>

AskInserts(r) ==
    /\ ask.step = "insert"
    /\ InsertPrinter(r, ask.name, "printer-user")
    /\ ask' = [ask EXCEPT !.step = "equip", !.row = r]
    /\ UNCHANGED <<toolhead, profile, work, torn>>

\* The insert failed: the row is read again, by its exact name.
AskReads(r) ==
    /\ ask.step = "insert" /\ ~MayInsert(ask.name, <<"printer-user", ask.name>>)
    /\ r \in Named(ask.name)
    /\ ask' = [ask EXCEPT !.step = "equip", !.row = r]
    /\ UNCHANGED <<printer, lastRow, toolhead, profile, work, torn>>

\* The clean-up has moved the row's toolheads and not yet its profiles.
BeingEmptied(r) == work.step = "profiles" /\ work.row = r

AskEquips(t) ==
    /\ ask.step = "equip" /\ EnsureToolheads(ask.row, t, "printer-user")
    /\ ask' = [ask EXCEPT !.step = "store", !.tool = t, !.overtaken = BeingEmptied(ask.row)]
    /\ UNCHANGED <<printer, lastRow, profile, work, torn>>

StoreProfile(p) ==
    /\ ask.step = "store" /\ ask.row \in Present /\ profile[p] = NoProfile
    /\ profile' = [profile EXCEPT ![p] = [printer |-> ask.row, tool |-> ask.tool,
                                          asked |-> ask.asked]]
    /\ torn' = IF ask.overtaken THEN torn \cup {p} ELSE torn
    /\ ask' = NoAsk
    /\ UNCHANGED <<printer, lastRow, toolhead, work>>

\* A row is not there, or a unique uuid is taken.
MustRefuse ==
    \/ /\ ask.step = "insert"
       /\ ~MayInsert(ask.name, <<"printer-user", ask.name>>)
       /\ Named(ask.name) = {}
    \/ ask.step = "equip" /\ ~MayEquip(ask.row, "printer-user")
    \/ ask.step = "store" /\ ask.row \notin Present

RefuseAsk ==
    /\ MustRefuse /\ ask' = NoAsk
    /\ UNCHANGED <<printer, lastRow, toolhead, profile, work, torn>>

\* Something else of the request is refused.
EndAsk ==
    /\ ask.step = "store" /\ ask' = NoAsk
    /\ UNCHANGED <<printer, lastRow, toolhead, profile, work, torn>>
-----------------------------------------------------------------------------
(* The jobs that bring printers.                                           *)

Work(changes) ==
    /\ work' = changes
    /\ ask' = [ask EXCEPT !.alone = FALSE]
    /\ UNCHANGED profile

NextOne == [work EXCEPT !.step = "next", !.name = NoName, !.row = NoRow,
                        !.clash = NoRow]

StartBringing(kind) ==
    /\ work = NoWork
    /\ Work([NoWork EXCEPT !.kind = kind, !.step = "next",
                !.todo = IF kind = "printer" THEN Curated ELSE Dataset])
    /\ UNCHANGED <<printer, lastRow, toolhead, torn>>

\* Both look for the exact name; then the curated list for the slug, the dataset
\* for its own uuid.
Found(n) ==
    IF Named(n) # {} THEN Named(n)
    ELSE IF work.kind = "printer" THEN {r \in Present : printer[r].slug = KeyOf[n]}
    ELSE {r \in Present : printer[r].uuid = <<"dataset", n>>}

Bringing == work.kind \in {"printer", "dataset"}

BringNext(n) ==
    /\ Bringing /\ work.step = "next" /\ n \in work.todo
    /\ \E r \in IF Found(n) = {} THEN {NoRow} ELSE Found(n) :
          Work([work EXCEPT !.name = n, !.row = r, !.todo = @ \ {n},
                   !.step = IF r = NoRow THEN "insert" ELSE "update"])
    /\ UNCHANGED <<printer, lastRow, toolhead, torn>>

BringInserts(r) ==
    /\ Bringing /\ work.step = "insert"
    /\ InsertPrinter(r, work.name, work.kind)
    /\ Work([work EXCEPT !.step = "equip", !.row = r])
    /\ UNCHANGED <<toolhead, torn>>

\* The dataset writes its name over the row's.
BringUpdates ==
    /\ Bringing /\ work.step = "update"
    /\ work.kind = "dataset" => Named(work.name) \subseteq {work.row}
    /\ printer' = IF work.kind = "dataset" /\ work.row \in Present
                  THEN [printer EXCEPT ![work.row].name = work.name] ELSE printer
    /\ Work([work EXCEPT !.step = "equip"])
    /\ UNCHANGED <<lastRow, toolhead, torn>>

BringEquips(t) ==
    /\ Bringing /\ work.step = "equip" /\ EnsureToolheads(work.row, t, work.kind)
    /\ Work(NextOne)
    /\ UNCHANGED <<printer, lastRow, torn>>
-----------------------------------------------------------------------------
(* The clean-up of names, row by row over the rows it read at first.       *)

StartCleaning ==
    /\ work = NoWork
    /\ Work([NoWork EXCEPT !.kind = "clean", !.step = "next",
                !.todo = {r \in Present : CleanOf[printer[r].name] # printer[r].name},
                !.names = [r \in Rows |-> printer[r].name]])
    /\ UNCHANGED <<printer, lastRow, toolhead, torn>>

CleanName == CleanOf[work.names[work.row]]

\* Another row of the clean name, or NoRow.
CleanNext(r) ==
    /\ work.kind = "clean" /\ work.step = "next" /\ r \in work.todo
    /\ LET others == Alike(CleanOf[work.names[r]]) \ {r}
       IN \E clash \in IF others = {} THEN {NoRow} ELSE others :
          Work([work EXCEPT !.row = r, !.clash = clash, !.todo = @ \ {r},
                   !.step = IF clash = NoRow THEN "rename" ELSE "toolheads"])
    /\ UNCHANGED <<printer, lastRow, toolhead, torn>>

Rename ==
    /\ work.step = "rename" /\ Named(CleanName) \subseteq {work.row}
    /\ printer' = IF work.row \in Present
                  THEN [printer EXCEPT ![work.row].name = CleanName] ELSE printer
    /\ Work(NextOne)
    /\ UNCHANGED <<lastRow, toolhead, torn>>

MoveToolheads ==
    /\ work.step = "toolheads" /\ work.clash \in Present
    /\ toolhead' = [t \in Tools |-> IF toolhead[t].of = work.row
                                    THEN [toolhead[t] EXCEPT !.of = work.clash]
                                    ELSE toolhead[t]]
    /\ work' = [work EXCEPT !.step = "profiles"]
    /\ ask' = [ask EXCEPT !.alone = FALSE,
                          !.overtaken = @ \/ (ask.step = "store" /\ ask.row = work.row)]
    /\ UNCHANGED <<printer, lastRow, profile, torn>>

\* Mutant of Moved: the profiles stay with the row that goes.
Moved_Stay(p) == profile[p]

\* A profile of the row that goes follows its toolhead.
Moved(p) == IF profile[p].printer = work.row
            THEN [profile[p] EXCEPT !.printer = work.clash] ELSE profile[p]

\* The toolhead has gone and the profile has not.
BeingMoved(p) == BeingEmptied(profile[p].printer)

MoveProfiles ==
    /\ work.step = "profiles" /\ work.clash \in Present
    /\ profile' = [p \in Profiles |-> Moved(p)]
    /\ work' = [work EXCEPT !.step = "delete"]
    /\ ask' = [ask EXCEPT !.alone = FALSE]
    /\ UNCHANGED <<printer, lastRow, toolhead, torn>>

MayDelete(r) ==
    /\ ToolsOf(r) = {}
    /\ \A p \in Profiles : profile[p].printer # r

DeletePrinter ==
    /\ work.step = "delete" /\ MayDelete(work.row)
    /\ printer' = [printer EXCEPT ![work.row] = NoPrinter]
    /\ Work(NextOne)
    /\ UNCHANGED <<lastRow, toolhead, torn>>

\* The job is through, or a statement failed, or the process just stops.
EndWork ==
    /\ work # NoWork
    /\ torn' = torn \cup {p \in Profiles : BeingMoved(p)}
    /\ Work(NoWork)
    /\ UNCHANGED <<printer, lastRow, toolhead>>
-----------------------------------------------------------------------------
PrintersInit ==
    /\ printer = [r \in Rows |-> NoPrinter] /\ lastRow = 0
    /\ toolhead = [t \in Tools |-> NoToolhead]
    /\ profile = [p \in Profiles |-> NoProfile]
    /\ ask = NoAsk /\ work = NoWork /\ torn = {}

PrintersNext ==
    \/ \E n \in Names : AskPrinter(n) \/ BringNext(n)
    \/ \E r \in Rows :
          AskInserts(r) \/ AskReads(r) \/ BringInserts(r) \/ CleanNext(r)
    \/ \E t \in Tools : AskEquips(t) \/ BringEquips(t)
    \/ \E p \in Profiles : StoreProfile(p)
    \/ RefuseAsk \/ EndAsk
    \/ \E kind \in {"printer", "dataset"} : StartBringing(kind)
    \/ BringUpdates \/ StartCleaning \/ Rename \/ MoveToolheads \/ MoveProfiles
    \/ DeletePrinter \/ EndWork

PrintersSpec == PrintersInit /\ [][PrintersNext]_printerVars
-----------------------------------------------------------------------------
(* What must hold.                                                         *)

\* Whatever job runs beside the requests and wherever it stops, a profile's toolhead
\* belongs to its printer, unless a clean-up stopped while it moved that very profile
\* or moved the toolheads of its printer while the profile was about to be stored.
ToolheadsFit ==
    \A p \in Profiles \ torn :
        (profile[p] # NoProfile /\ ~BeingMoved(p)) =>
            toolhead[profile[p].tool].of = profile[p].printer

\* The names of one machine, from one of them on: what matches a name, and what the
\* clean-up makes of it.
OneMachine(S) ==
    \A m \in S : CleanOf[m] \in S /\ {n \in Names : KeyOf[n] = KeyOf[m]} \subseteq S
SameMachine(n) ==
    {m \in Names : \A S \in SUBSET Names : n \in S /\ OneMachine(S) => m \in S}

\* A profile stays with the printer it was measured on, under that name or one that
\* matching and cleaning lead to, through renaming, merging and importing.
ProfilesStayPut ==
    \A p \in Profiles :
        profile[p] # NoProfile =>
            /\ profile[p].printer \in Present
            /\ printer[profile[p].printer].name \in SameMachine(profile[p].asked)

\* docs/PRINTERS.md: a printer that is missing is created, so a request that no
\* job disturbs is not refused.
MissingIsCreated == ask.alone => ~MustRefuse

\* Both: no job takes a profile off the machine it was measured on.
PrintersAreSound == ToolheadsFit /\ ProfilesStayPut
=============================================================================
