---------------------------- MODULE ColourImport ----------------------------
(***************************************************************************)
(* One product of the catalogue and its colours, as two datasets and the   *)
(* visitors write them: import-ofd.ts, import-spoolmandb.ts and            *)
(* community-catalog.ts (packages/db).                                     *)
(*                                                                         *)
(* The Open Filament Database knows its rows again by uuid and writes all  *)
(* it knows of them.  SpoolmanDB has names only: it looks for a row of the *)
(* same name, fills what is missing there, and inserts what it does not    *)
(* find.  A job reads the tables once and then writes row by row, without  *)
(* a transaction; the API and another job may write in between, and a job  *)
(* may stop.  What both know of a colour (its hex, finish, weight, ...) is *)
(* one value; what it is made of (glitter, carbon, ...) one mark.  Brands, *)
(* the search index and the merging of brands are Catalog's.               *)
(***************************************************************************)
EXTENDS Naturals, FiniteSets

CONSTANTS
    Shades,             \* of colours, as normalizeNameKey leaves them
    Swatches, Null,
    OfdColours, SpoolColours,      \* the names in each dataset
    OfdValues,                     \* what its versions know of each, or Null
    SpoolValue,
    VisitorValue,
    MaxProducts, MaxColours,       \* the bounds on ids
    ShopLinks, MostLinks,
    ImportJobs

ASSUME ImportParameters ==
    /\ Null \notin Swatches /\ VisitorValue \in Swatches \cup {Null}
    /\ OfdColours \cup SpoolColours \subseteq Shades
    /\ OfdValues \in [Shades -> SUBSET (Swatches \cup {Null})]
    /\ SpoolValue \in [Shades -> Swatches \cup {Null}]
    /\ MaxProducts \in Nat /\ MaxColours \in Nat /\ MostLinks \in Nat

VARIABLES
    madeBy,            \* the source of each product row, "none" when there is none
    colour,            \* the rows of filament_variants
    importer,          \* what each job is about
    settled,           \* nothing was written since an undisturbed SpoolmanDB run
    lost               \* colours of which such a run took something

importVars == <<madeBy, colour, importer, settled, lost>>

NoColour == [product |-> 0, name |-> "none", source |-> "none", value |-> Null,
             mark |-> FALSE, links |-> {}]
NoImport == [kind |-> "none", step |-> "idle", product |-> 0, found |-> 0,
             empty |-> FALSE, had |-> [c \in 1..MaxColours |-> NoColour], todo |-> {},
             alone |-> TRUE, calm |-> FALSE, inserted |-> FALSE]

ProductRows == {p \in 1..MaxProducts : madeBy[p] # "none"}
ColourRows == {c \in 1..MaxColours : colour[c] # NoColour}
NextProduct == Cardinality(ProductRows) + 1
NextColour == Cardinality(ColourRows) + 1
LastOf(S) == IF S = {} THEN 0 ELSE CHOOSE n \in S : \A m \in S : m <= n

ImportTypeOK ==
    /\ madeBy \in [1..MaxProducts -> {"none", "ofd", "spoolman", "visitor"}]
    /\ \A c \in ColourRows :
          /\ colour[c].product \in ProductRows /\ colour[c].name \in Shades
          /\ colour[c].value \in Swatches \cup {Null} /\ colour[c].links \subseteq ShopLinks
    /\ \A j \in ImportJobs :
          /\ importer[j].kind \in {"none", "ofd", "spoolman"}
          /\ importer[j].step \in {"idle", "product", "colours", "failed"}
    /\ settled \in BOOLEAN /\ lost \subseteq ColourRows

\* Rows of a name, of one product, among some colours.
Named(rows, p, n) == {c \in DOMAIN rows : rows[c].product = p /\ rows[c].name = n}

\* Somebody wrote what the jobs have read, but for those of by, who did it.
Beheld(changed, by) ==
    [i \in ImportJobs |-> IF i \in by \/ changed[i].kind = "none" THEN changed[i]
                          ELSE [changed[i] EXCEPT !.alone = FALSE]]
-----------------------------------------------------------------------------
(* Visitors: a request runs in one go.                                     *)

\* resolveOrCreateFilamentProduct
VisitorProduct ==
    /\ ProductRows = {} /\ NextProduct <= MaxProducts
    /\ madeBy' = [madeBy EXCEPT ![NextProduct] = "visitor"]
    /\ importer' = Beheld(importer, {}) /\ settled' = FALSE
    /\ UNCHANGED <<colour, lost>>

\* resolveOrCreateFilamentVariant
VisitorColour(p, n) ==
    /\ p \in ProductRows /\ Named(colour, p, n) = {} /\ NextColour <= MaxColours
    /\ colour' = [colour EXCEPT ![NextColour] =
          [NoColour EXCEPT !.product = p, !.name = n, !.source = "visitor",
                           !.value = VisitorValue]]
    /\ importer' = Beheld(importer, {}) /\ settled' = FALSE
    /\ UNCHANGED <<madeBy, lost>>

\* addPurchaseLinkToVariant: once for a URL.
AddLink(c, l) ==
    /\ c \in ColourRows /\ l \notin colour[c].links
    /\ Cardinality(colour[c].links) < MostLinks
    /\ colour' = [colour EXCEPT ![c].links = @ \cup {l}]
    /\ UNCHANGED <<madeBy, importer, settled, lost>>
-----------------------------------------------------------------------------
(* Both jobs: the tables are read once.  Slugs are taken from that reading *)
(* too: a name that was free then gets the plain slug, and if somebody has *)
(* it by now, or the uuid, the insertion fails and the job with it.        *)

\* Whoever buys where is not of interest to a job.
Reading == [c \in 1..MaxColours |-> [colour[c] EXCEPT !.links = {}]]

Began(j, kind, found, todo) ==
    /\ importer[j].step = "idle"
    /\ importer' = [importer EXCEPT ![j] =
          [NoImport EXCEPT !.kind = kind, !.step = "product", !.found = found,
                           !.empty = ProductRows = {}, !.had = Reading, !.todo = todo,
                           !.calm = settled]]
    /\ UNCHANGED <<madeBy, colour, settled, lost>>

StopsOrFails(j) ==
    /\ importer' = [importer EXCEPT ![j] = [NoImport EXCEPT !.step = "failed"]]
    /\ UNCHANGED <<madeBy, colour, settled, lost>>

\* The job goes on to the colours of p.
Atop(j, p, inserts) ==
    Beheld([importer EXCEPT ![j].step = "colours", ![j].product = p,
                            ![j].inserted = @ \/ inserts], {j})

ProductClash(j, source) ==
    \/ importer[j].empty /\ ProductRows # {}
    \/ \E p \in ProductRows : madeBy[p] = source

WriteProduct(j, source) ==
    /\ importer[j].step = "product" /\ importer[j].kind = source
    /\ IF importer[j].found # 0
       THEN /\ importer' = Atop(j, importer[j].found, FALSE)
            /\ settled' = FALSE /\ UNCHANGED <<madeBy, colour, lost>>
       ELSE IF ProductClash(j, source) THEN StopsOrFails(j)
       ELSE /\ NextProduct <= MaxProducts
            /\ madeBy' = [madeBy EXCEPT ![NextProduct] = source]
            /\ importer' = Atop(j, NextProduct, TRUE)
            /\ settled' = FALSE /\ UNCHANGED <<colour, lost>>

ColourClash(j, n) ==
    /\ Named(importer[j].had, importer[j].product, n) = {}
    /\ Named(colour, importer[j].product, n) # {}

\* Colours of the dataset that the job writes next; the row it takes them for.
Ticked(j, n, inserts) ==
    importer' = Beheld([importer EXCEPT ![j].todo = @ \ {n},
                                        ![j].inserted = @ \/ inserts], {j})

InsertOfImport(j, n, row) ==
    IF ColourClash(j, n) THEN StopsOrFails(j)
    ELSE /\ NextColour <= MaxColours
         /\ colour' = [colour EXCEPT ![NextColour] = row]
         /\ Ticked(j, n, TRUE) /\ settled' = FALSE
         /\ UNCHANGED <<madeBy, lost>>

Finish(j) ==
    /\ importer[j].step = "colours" /\ importer[j].todo = {}
    /\ importer' = [importer EXCEPT ![j] = NoImport]
    /\ settled' = (settled \/ (importer[j].kind = "spoolman" /\ importer[j].alone))
    /\ UNCHANGED <<madeBy, colour, lost>>

Stop(j) == importer[j].step \in {"product", "colours"} /\ StopsOrFails(j)

\* Somebody starts it again by hand.
Again(j) ==
    /\ importer[j].step = "failed"
    /\ importer' = [importer EXCEPT ![j] = NoImport]
    /\ UNCHANGED <<madeBy, colour, settled, lost>>
-----------------------------------------------------------------------------
(* import-ofd.ts: by uuid, and everything.                                 *)

StartOfd(j) ==
    Began(j, "ofd", LastOf({p \in ProductRows : madeBy[p] = "ofd"}), OfdColours)

OfdColour(j, n, value) ==
    LET mine == {c \in DOMAIN colour : /\ importer[j].had[c].source = "ofd"
                                       /\ importer[j].had[c].name = n}
        base == [product |-> importer[j].product, name |-> n, source |-> "ofd",
                 value |-> value, mark |-> FALSE, links |-> {}]
    IN /\ importer[j].kind = "ofd" /\ importer[j].step = "colours"
       /\ n \in importer[j].todo /\ value \in OfdValues[n]
       /\ IF mine # {}
          THEN /\ colour' = [colour EXCEPT ![LastOf(mine)] = base]
               /\ Ticked(j, n, FALSE) /\ settled' = FALSE
               /\ UNCHANGED <<madeBy, lost>>
          ELSE IF \E c \in ColourRows : colour[c].source = "ofd" /\ colour[c].name = n
          THEN StopsOrFails(j)
          ELSE InsertOfImport(j, n, base)
-----------------------------------------------------------------------------
(* import-spoolmandb.ts: by name, and what is missing in the row as it was *)
(* when the job began.                                                     *)

\* productsByKey: of several rows of one name, the last.
StartSpoolman(j) == Began(j, "spoolman", LastOf(ProductRows), SpoolColours)

\* A mutant: the dataset knows better.
Fill_Newest(old, value) == IF value = Null THEN old ELSE value

Fill(old, value) == IF old = Null THEN value ELSE old

SpoolmanColour(j, n) ==
    LET c == LastOf(Named(importer[j].had, importer[j].product, n))
        was == importer[j].had[c]
        now == [colour[c] EXCEPT !.value = Fill(was.value, SpoolValue[n]),
                                 !.mark = TRUE]
        base == [product |-> importer[j].product, name |-> n, source |-> "spoolman",
                 value |-> SpoolValue[n], mark |-> TRUE, links |-> {}]
        taken == /\ colour[c].value # Null /\ now.value # colour[c].value
    IN /\ importer[j].kind = "spoolman" /\ importer[j].step = "colours"
       /\ n \in importer[j].todo
       /\ IF c = 0 THEN InsertOfImport(j, n, base)
          ELSE /\ colour' = [colour EXCEPT ![c] = now]
               /\ Ticked(j, n, FALSE) /\ settled' = FALSE
               /\ lost' = IF importer[j].alone /\ (taken \/ ~(colour[c].links \subseteq now.links))
                          THEN lost \cup {c} ELSE lost
               /\ UNCHANGED madeBy
-----------------------------------------------------------------------------
ImportInit ==
    /\ madeBy = [p \in 1..MaxProducts |-> "none"]
    /\ colour = [c \in 1..MaxColours |-> NoColour]
    /\ importer = [j \in ImportJobs |-> NoImport]
    /\ settled = FALSE /\ lost = {}

JobStep(j) ==
    \/ StartOfd(j) \/ StartSpoolman(j)
    \/ WriteProduct(j, "ofd") \/ WriteProduct(j, "spoolman")
    \/ \E n \in Shades : SpoolmanColour(j, n) \/ \E v \in OfdValues[n] : OfdColour(j, n, v)
    \/ Finish(j) \/ Stop(j) \/ Again(j)

ImportNext ==
    \/ VisitorProduct
    \/ \E p \in 1..MaxProducts, n \in Shades : VisitorColour(p, n)
    \/ \E c \in 1..MaxColours, l \in ShopLinks : AddLink(c, l)
    \/ \E j \in ImportJobs : JobStep(j)

ImportSpec == ImportInit /\ [][ImportNext]_importVars
-----------------------------------------------------------------------------
\* A SpoolmanDB run beside which nobody writes takes nothing that was known: no
\* value of a colour, whoever gave it, and no link to a shop.
NothingIsTaken == lost = {}

\* After such a run, a second one finds every row again: it inserts none.
AgainInsertsNothing ==
    \A j \in ImportJobs :
        importer[j].kind = "spoolman" /\ importer[j].calm /\ importer[j].alone
            => ~importer[j].inserted

\* What the Open Filament Database wrote stays one row for each of its colours.
OneRowForEach ==
    \A c, d \in {r \in ColourRows : colour[r].source = "ofd"} :
        colour[c].name = colour[d].name => c = d

\* All three: importing again neither loses nor doubles what is there.
ImportIsSound == NothingIsTaken /\ AgainInsertsNothing /\ OneRowForEach
=============================================================================
