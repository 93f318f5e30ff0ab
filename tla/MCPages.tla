------------------------------ MODULE MCPages -------------------------------
(***************************************************************************)
(* The pages and what they send, for TLC: spools and their copies, the     *)
(* forms over the catalogue and what they send or save, the numbers of a   *)
(* profile and its printer.  Each behaviour runs one part and leaves the   *)
(* others where they start.                                                *)
(*                                                                         *)
(* A spool has two parts: two browsers that upload to one server and may   *)
(* give their copies up; or one tab that keeps its copy and does one thing *)
(* at a time, its edit form included.  What is left on it is a part of its *)
(* own.                                                                    *)
(***************************************************************************)
EXTENDS SpoolSync, SpoolAmounts, CatalogForms, ExportDesk, SubmitDesk, ProfileValues,
        PrinterCatalog

CONSTANTS m1, m2, k1, k2, f1, f2, f3, c1, c2, c3, n1, n2, n3

VARIABLE part      \* the part that runs

pageVars == <<part, vars, amountVars, formVars, exportVars, submitVars, valueVars, printerVars>>

\* A brand with one product of one colour, one with two and three.
MakerMap == f1 :> m1 @@ f2 :> m2 @@ f3 :> m2
KindMap == f1 :> k1 @@ f2 :> k2 @@ f3 :> k1
FilamentMap == c1 :> f1 @@ c2 :> f2 @@ c3 :> f2

\* A spool of two grams, weighed with or without one of the reel.
WeighingMap == "initial" :> {2} @@ "current" :> {1, 3} @@ "tare" :> {1}

\* Two spellings that match each other, and one that the clean-up makes the first.
KeyMap == n1 :> n1 @@ n2 :> n1 @@ n3 :> n3
CleanMap == n1 :> n1 @@ n2 :> n2 @@ n3 :> n1

\* Somebody sends one temperature, a few numbers, all of them, or none.
SomeBodies == {{f} : f \in Bed \cup {"nozzleTempFirstLayerC", "nozzleTempOtherLayersC"}}
              \cup {Common, SubmitColumns, {}}

TwoBrowsers ==
    /\ \A t \in Tasks : task'[t].at # "form" /\ task'[t].version < MaxVersion - 1
    /\ Cardinality(saved' \cup UNION {task'[t].edits : t \in Tasks}) <= 2

\* One spool, or two while no form and no file is about.
FewSpools ==
    /\ editing' # NoEditing => backup' = NoBackup
    /\ editing' # NoEditing \/ backup' # NoBackup =>
         Cardinality({r \in SpoolRows : shelved'[r] # Absent}) <= 1

OneTab ==
    /\ \A b \in Browsers : /\ local'[b] # None => local[b] # None
                           /\ ~request'[b].remove
    /\ \A t \in Tasks : task'[t].at # "idle" => /\ local[task'[t].browser] # None
                                             /\ \A u \in Tasks \ {t} : task'[u].at = "idle"

\* Of a form that went astray nothing is promised, nor of a hasty one but the one.
Promised == ~astray /\ (hasty => form = "submit")

PagesInit ==
    /\ part \in {"two browsers", "one tab", "amounts", "forms", "export", "submit", "values",
                "printers"}
    /\ Init /\ AmountsInit /\ FormsInit /\ ExportInit /\ SubmitInit /\ ValuesInit /\ PrintersInit
    /\ part # "forms" => form = "submit" /\ field = Blank
    /\ part # "export" => format = IniFormat /\ document = NoDocument
    /\ part # "submit" => \A p \in Visitors : sheet[p] = CHOOSE c \in Chosen : TRUE

PagesNext ==
    \/ /\ part \in {"two browsers", "one tab"} /\ Next
       /\ part = "two browsers" => TwoBrowsers
       /\ part = "one tab" => OneTab
       /\ UNCHANGED <<part, amountVars, formVars, exportVars, submitVars, valueVars,
                      printerVars>>
    \/ /\ part = "amounts" /\ AmountsNext /\ FewSpools
       /\ UNCHANGED <<part, vars, formVars, exportVars, submitVars, valueVars, printerVars>>
    \/ /\ part = "forms" /\ Promised /\ FormsNext
       /\ UNCHANGED <<part, vars, amountVars, exportVars, submitVars, valueVars, printerVars>>
    \/ /\ part = "export" /\ ExportNext
       /\ UNCHANGED <<part, vars, amountVars, formVars, submitVars, valueVars, printerVars>>
    \/ /\ part = "submit" /\ SubmitNext
       /\ UNCHANGED <<part, vars, amountVars, formVars, exportVars, valueVars, printerVars>>
    \/ /\ part = "values" /\ ValuesNext
       /\ UNCHANGED <<part, vars, amountVars, formVars, exportVars, submitVars, printerVars>>
    \/ /\ part = "printers" /\ PrintersNext
       /\ UNCHANGED <<part, vars, amountVars, formVars, exportVars, submitVars, valueVars>>

PagesSpec == PagesInit /\ [][PagesNext]_pageVars

\* In one tab, usage that was reported as logged stays in the local ledger.
LoggedInOneTabIsKept == part = "one tab" => LoggedUsageIsKept

\* What a browser keeps of its spools is what was logged, and fits together.
AmountsAreSound == LoggedInOneTabIsKept /\ PercentFits

\* What the forms show, send and save belongs together.
FormsAreSound == SelectionFits /\ FilesAreAsNamed /\ SubmissionsAreSound

\* Edits and browsers are interchangeable.
Interchangeable ==
    Permutations(Edits) \cup Permutations(Browsers) \cup Permutations(SpoolRows)
=============================================================================
