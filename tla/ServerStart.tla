---------------------------- MODULE ServerStart -----------------------------
(***************************************************************************)
(* How the API comes up on its database: api/src/index.ts and db/seed.ts.  *)
(*                                                                         *)
(* An empty catalogue is seeded with fixtures first, then the printers are *)
(* ensured and the datasets that lie there imported; without a dataset at  *)
(* first, the import is made up for at a later start, once.  The fixtures  *)
(* are written one after the other, without a transaction.  The process    *)
(* may be stopped anywhere, its supervisor starts it again, and            *)
(* an operator may run the seed from the command line beside it.           *)
(*                                                                         *)
(* Migration runs in one transaction and is left out, and so is            *)
(* SpoolmanDB's dataset, which only the seed imports.  What an import does *)
(* to rows that are there is Catalog's, ColourImport's and PrinterCatalog's.*)
(***************************************************************************)
EXTENDS Naturals, FiniteSets

CONSTANTS
    Starters,          \* "api", and "cli" for the operator's seed
    MaxCuts            \* bound: how often a process is stopped

ASSUME StartParameters == "api" \in Starters /\ Starters \subseteq {"api", "cli"} /\ MaxCuts \in Nat

VARIABLES
    fixtures,          \* how far they are written, an element of Fixtures
    printers,          \* the printer catalogue is there
    imported,          \* products of the dataset: none, some, all
    dataset,           \* external: its file is there
    starter,           \* each process, by what it does next
    cuts,
    torn               \* a process ended in the midst of its seed or import

startVars == <<fixtures, printers, imported, dataset, starter, cuts, torn>>

\* Nothing; the administrator; the contributor as well; the first brand; products
\* and a printer; all.
Fixtures == 0..5
BrandThere == fixtures >= 3
Whole == fixtures = 5 /\ printers
Seeding == {"contributor", "brand", "goods", "profiles", "printers", "import", "products"}

Goes(p, step) == starter' = [starter EXCEPT ![p] = step]
\* main: an error ends the process; the operator's command ends anyway.
Ends(p) == Goes(p, "down") /\ torn' = (torn \/ starter[p] \in Seeding)
-----------------------------------------------------------------------------
Launch(p) ==
    /\ starter[p] = "down"
    /\ Goes(p, IF p = "api" THEN "decide" ELSE "seed")
    /\ UNCHANGED <<fixtures, printers, imported, dataset, cuts, torn>>

\* A mutant: fixtures are taken for absent.
EnsureCatalog_Always(p) ==
    /\ starter[p] = "decide" /\ Goes(p, "hash")
    /\ UNCHANGED <<fixtures, printers, imported, dataset, cuts, torn>>

\* ensureCatalog.
EnsureCatalog(p) ==
    /\ starter[p] = "decide"
    /\ Goes(p, IF ~BrandThere THEN "seed"
               ELSE IF imported = "none" /\ dataset THEN "products" ELSE "up")
    /\ UNCHANGED <<fixtures, printers, imported, dataset, cuts, torn>>

\* seed: the fixtures, when there is no brand; the passwords are hashed first.
Seed(p) ==
    /\ starter[p] = "seed"
    /\ Goes(p, IF BrandThere THEN "printers" ELSE "hash")
    /\ UNCHANGED <<fixtures, printers, imported, dataset, cuts, torn>>

HashPasswords(p) ==
    /\ starter[p] = "hash" /\ Goes(p, "users")
    /\ UNCHANGED <<fixtures, printers, imported, dataset, cuts, torn>>

\* The names of users are unique: where they are taken, the seed fails.
InsertAdmin(p) ==
    /\ starter[p] = "users"
    /\ IF fixtures = 0 THEN Goes(p, "contributor") /\ fixtures' = 1 /\ UNCHANGED torn
       ELSE Ends(p) /\ UNCHANGED fixtures
    /\ UNCHANGED <<printers, imported, dataset, cuts>>

InsertContributor(p) ==
    /\ starter[p] = "contributor" /\ Goes(p, "brand") /\ fixtures' = 2
    /\ UNCHANGED <<printers, imported, dataset, cuts, torn>>

InsertBrand(p) ==
    /\ starter[p] = "brand"
    /\ IF imported = "none" THEN Goes(p, "goods") /\ fixtures' = 3 /\ UNCHANGED torn
       ELSE Ends(p) /\ UNCHANGED fixtures
    /\ UNCHANGED <<printers, imported, dataset, cuts>>

\* Another brand, products and a printer: slugs are unique, and another process
\* may have written the brand or the printer by now.
InsertGoods(p) ==
    /\ starter[p] = "goods"
    /\ IF imported = "none" /\ ~printers
       THEN Goes(p, "profiles") /\ fixtures' = 4 /\ UNCHANGED torn
       ELSE Ends(p) /\ UNCHANGED fixtures
    /\ UNCHANGED <<printers, imported, dataset, cuts>>

\* Profiles with their revisions and tags, and the index.
InsertProfiles(p) ==
    /\ starter[p] = "profiles" /\ Goes(p, "printers") /\ fixtures' = 5
    /\ UNCHANGED <<printers, imported, dataset, cuts, torn>>

\* ensurePrinterCatalog: what is not there is added.
EnsurePrinters(p) ==
    /\ starter[p] = "printers" /\ printers' = TRUE /\ Goes(p, "import")
    /\ UNCHANGED <<fixtures, imported, dataset, cuts, torn>>

ImportIfThere(p) ==
    /\ starter[p] = "import"
    /\ Goes(p, IF dataset THEN "products" ELSE IF p = "api" THEN "up" ELSE "down")
    /\ UNCHANGED <<fixtures, printers, imported, dataset, cuts, torn>>

\* importOfdCatalog, in two steps; run again, it writes what is missing.
ImportDataset(p) ==
    /\ starter[p] = "products"
    /\ imported' = IF imported = "none" THEN "some" ELSE "all"
    /\ Goes(p, IF imported = "none" THEN "products" ELSE IF p = "api" THEN "up" ELSE "down")
    /\ UNCHANGED <<fixtures, printers, dataset, cuts, torn>>
-----------------------------------------------------------------------------
CutShort(p) ==
    /\ cuts < MaxCuts /\ starter[p] # "down"
    /\ cuts' = cuts + 1 /\ Ends(p)
    /\ UNCHANGED <<fixtures, printers, imported, dataset>>

DatasetAppears ==
    /\ ~dataset /\ dataset' = TRUE
    /\ UNCHANGED <<fixtures, printers, imported, starter, cuts, torn>>

StartInit ==
    /\ fixtures = 0 /\ printers = FALSE /\ imported = "none" /\ dataset \in BOOLEAN
    /\ starter = [p \in Starters |-> "down"] /\ cuts = 0 /\ torn = FALSE

StartStep(p) ==
    \/ Launch(p) \/ EnsureCatalog(p) \/ Seed(p) \/ HashPasswords(p)
    \/ InsertAdmin(p) \/ InsertContributor(p) \/ InsertBrand(p) \/ InsertGoods(p)
    \/ InsertProfiles(p) \/ EnsurePrinters(p) \/ ImportIfThere(p) \/ ImportDataset(p)

StartNext ==
    \/ \E p \in Starters : StartStep(p) \/ CutShort(p)
    \/ DatasetAppears

\* The supervisor (restart: unless-stopped) and the processes themselves go on; an
\* operator need not run the seed, but a seed that runs goes on.
StartFairness ==
    /\ WF_startVars(StartStep("api"))
    /\ WF_startVars(\E p \in Starters \ {"api"} : starter[p] # "down" /\ StartStep(p))

StartSpec == StartInit /\ [][StartNext]_startVars /\ StartFairness

StartTypeOK ==
    /\ fixtures \in Fixtures /\ imported \in {"none", "some", "all"}
    /\ printers \in BOOLEAN /\ dataset \in BOOLEAN /\ torn \in BOOLEAN
    /\ cuts \in 0..MaxCuts
-----------------------------------------------------------------------------
\* However often a start is cut short, and whatever the operator runs beside it,
\* the API listens in the end, unless a seed ended between its first user and its
\* first brand: then the catalogue counts as empty, and its users as taken, for
\* ever.  When no seed ended in the midst, it listens on a whole catalogue.
ServedInTheEnd ==
    /\ <>[](starter["api"] = "up") \/ <>[](fixtures \in {1, 2})
    /\ <>[](starter["api"] = "up" /\ Whole) \/ <>[]torn
=============================================================================
