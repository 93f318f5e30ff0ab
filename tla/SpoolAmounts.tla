---------------------------- MODULE SpoolAmounts ----------------------------
(***************************************************************************)
(* How much is left on the spools of one browser: the weights and the      *)
(* percentage that the page of My Spools (web/app/my-spools/page.tsx) and  *)
(* its database (web/lib/spools/local-db.ts) keep of each.                 *)
(*                                                                         *)
(* A form holds the spool as it was when it was opened, and the list below *)
(* it works meanwhile.  Whatever is saved goes through saveLocalSpool,     *)
(* which takes what is there for what it is not given.  What else is known *)
(* of a spool goes through the same and is left out; writes that run into  *)
(* each other, and the ledger's entries, are SpoolSync's.                  *)
(***************************************************************************)
EXTENDS Integers, FiniteSets

CONSTANTS
    SpoolRows,         \* uuids of spools
    Weighings,         \* what one enters for each weight, in grams
    Doses,             \* what is logged as used or added
    Percents,          \* what percentages one enters
    Null, Absent, NewRow,
    NoEditing, NoBackup,
    MaxWritten,        \* bound: no write beyond this syncVersion
    MaxWeight          \* bound: no usage is logged that leaves more

ASSUME AmountParameters ==
    /\ Weighings \in [{"initial", "current", "tare"} -> SUBSET Nat]
    /\ Doses \subseteq Nat \ {0} /\ Percents \subseteq 0..100
    /\ Null \notin Int /\ NewRow \notin SpoolRows /\ {MaxWritten, MaxWeight} \subseteq Nat

VARIABLES
    shelved,           \* the spools in IndexedDB
    editing,           \* the form: whose it is, and what it shows
    backup             \* the exported file

amountVars == <<shelved, editing, backup>>

Weights == {"initial", "current", "tare"}

\* byHand: the percentage is not the weights' but typed, or of other weights.
ShelfRows == [weight : [Weights -> Int \cup {Null}], percent : 0..100 \cup {Null},
         version : Nat, byHand : BOOLEAN]

AmountsTypeOK ==
    /\ shelved \in [SpoolRows -> ShelfRows \cup {Absent}]
    /\ editing # NoEditing =>
         /\ editing.of \in SpoolRows \cup {NewRow} /\ editing.shown \in ShelfRows
    /\ backup # NoBackup => backup.of \in SpoolRows /\ backup.row \in ShelfRows
-----------------------------------------------------------------------------
\* The code's a ?? b.
Or(a, b) == IF a = Null THEN b ELSE a

Nothing == [weight |-> [k \in Weights |-> Null], percent |-> Null, version |-> 0,
            byHand |-> FALSE]

Before(r) == IF r \in SpoolRows /\ shelved[r] # Absent THEN shelved[r] ELSE Nothing

Larger(a, b) == IF a < b THEN b ELSE a
Smaller(a, b) == IF a < b THEN a ELSE b

\* deriveRemainingPercent: rounded, a half up.
Derived(w) ==
    IF w.initial = Null \/ w.current = Null THEN Null
    ELSE IF w.initial <= 0 THEN Null
    ELSE LET left == Larger(0, w.current - Or(w.tare, 0))
         IN Smaller(100, (200 * left + w.initial) \div (2 * w.initial))

\* saveLocalSpool: what it stores for input over before.
Stored(input, before) ==
    LET weight == [k \in Weights |-> Or(input.weight[k], before.weight[k])]
        kept == input.percent # Null /\ weight # input.weight
    IN [weight |-> weight,
        percent |-> Or(input.percent, Or(Derived(weight), before.percent)),
        version |-> before.version + 1,
        byHand |-> input.byHand \/ kept]

SaveRow(r, input) ==
    /\ Before(r).version < MaxWritten
    /\ shelved' = [shelved EXCEPT ![r] = Stored(input, Before(r))]
-----------------------------------------------------------------------------
(* The form.                                                               *)

EditRow(r) ==
    /\ r \in SpoolRows => shelved[r] # Absent
    /\ editing' = [of |-> r, shown |-> Before(r)]
    /\ UNCHANGED <<shelved, backup>>

CloseForm ==
    /\ editing # NoEditing /\ editing' = NoEditing
    /\ UNCHANGED <<shelved, backup>>

\* Mutant of Weighed: the percentage stays.
Weighed_Alone(shown, k, v) == [shown EXCEPT !.weight[k] = v]

\* setEditingAmount: the percentage follows where it can be computed.
Weighed(shown, k, v) ==
    LET weight == [shown.weight EXCEPT ![k] = v]
        percent == Derived(weight)
    IN [shown EXCEPT !.weight = weight, !.percent = Or(percent, @),
                     !.byHand = @ /\ percent = Null]

EnterWeight(k, v) ==
    /\ editing # NoEditing /\ v # editing.shown.weight[k]
    /\ editing' = [editing EXCEPT !.shown = Weighed(@, k, v)]
    /\ UNCHANGED <<shelved, backup>>

\* An emptied percentage is computed when the form is saved.
EnterPercent(p) ==
    /\ editing # NoEditing
    /\ editing' = [editing EXCEPT !.shown.percent = p, !.shown.byHand = p # Null]
    /\ UNCHANGED <<shelved, backup>>

\* onSave, with brand, material, product and colour chosen.
SaveForm ==
    /\ editing # NoEditing
    /\ \E r \in IF editing.of = NewRow THEN {s \in SpoolRows : shelved[s] = Absent}
                ELSE {editing.of} : SaveRow(r, editing.shown)
    /\ editing' = NoEditing
    /\ UNCHANGED backup
-----------------------------------------------------------------------------
(* The list.                                                               *)

\* applied by recordLocalSpoolUsage; offered where both weights are known.
LogUsage(r, dose) ==
    /\ shelved[r] # Absent
    /\ {shelved[r].weight.initial, shelved[r].weight.current} \cap {Null} = {}
    /\ LET old == shelved[r]
           weight == [old.weight EXCEPT !.current =
                         Larger(Or(old.weight.tare, 0), @ + dose)]
           percent == Derived(weight)
       IN weight.current <= MaxWeight /\ SaveRow(r, [old EXCEPT !.weight = weight, !.percent = percent,
                       !.byHand = @ /\ percent = Null])
    /\ UNCHANGED <<editing, backup>>

\* The archive button, and the same one as "restore", write the spool anew.
ToggleArchived(r) ==
    /\ shelved[r] # Absent
    /\ SaveRow(r, shelved[r])
    /\ UNCHANGED <<editing, backup>>

\* duplicateLocalSpool: a full spool, whose current weight leaves its tare out.
Duplicate(r) ==
    /\ shelved[r] # Absent
    /\ LET old == shelved[r]
           weight == [old.weight EXCEPT !.current = old.weight.initial]
       IN \E s \in {t \in SpoolRows : shelved[t] = Absent} :
             SaveRow(s, [weight |-> weight, percent |-> 100, version |-> 0,
                      byHand |-> Or(weight.tare, 0) # 0])
    /\ UNCHANGED <<editing, backup>>

\* One spool; to clear the page deletes them all.
Delete(r) ==
    /\ shelved[r] # Absent
    /\ shelved' = [shelved EXCEPT ![r] = Absent]
    /\ UNCHANGED <<editing, backup>>

\* One spool of the file is followed.
ExportRow(r) ==
    /\ shelved[r] # Absent
    /\ backup' = [of |-> r, row |-> shelved[r]]
    /\ UNCHANGED <<shelved, editing>>

\* importLocalSpoolsJson: what is not there, or newer in the file.
ImportBackup ==
    /\ backup # NoBackup /\ backup.row.version > Before(backup.of).version
    /\ SaveRow(backup.of, backup.row)
    /\ UNCHANGED <<editing, backup>>
-----------------------------------------------------------------------------
AmountsInit ==
    /\ shelved = [r \in SpoolRows |-> Absent]
    /\ editing = NoEditing /\ backup = NoBackup

AmountsNext ==
    \/ \E r \in SpoolRows \cup {NewRow} : EditRow(r)
    \/ CloseForm \/ SaveForm
    \/ \E k \in Weights : \E v \in Weighings[k] \cup {Null} : EnterWeight(k, v)
    \/ \E p \in Percents \cup {Null} : EnterPercent(p)
    \/ \E r \in SpoolRows, d \in Doses : LogUsage(r, d) \/ LogUsage(r, -d)
    \/ \E r \in SpoolRows : ToggleArchived(r) \/ Duplicate(r) \/ Delete(r) \/ ExportRow(r)
    \/ ImportBackup

AmountsSpec == AmountsInit /\ [][AmountsNext]_amountVars
-----------------------------------------------------------------------------
(* What must hold.                                                         *)

\* Through forms, logged usage, copies and imports, the percentage that is shown is
\* the one of the weights beside it, unless it was typed, or a form or file with a
\* weight left empty was saved over a known one, or a copy was made of a spool with
\* a tare; and logging usage puts that right.
PercentFits ==
    \A r \in SpoolRows :
        shelved[r] # Absent /\ ~shelved[r].byHand =>
            Derived(shelved[r].weight) \in {Null, shelved[r].percent}
=============================================================================
