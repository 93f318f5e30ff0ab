------------------------------ MODULE Catalog -------------------------------
(***************************************************************************)
(* Brands and products of the filament catalogue.  Visitors contribute     *)
(* them through the API (packages/db/src/community-catalog.ts); jobs run   *)
(* by hand beside it import a dataset (import-ofd.ts, import-spoolmandb.ts)*)
(* or merge brands that differ only in spelling (dedupe-brands.ts), and    *)
(* build the search index anew (search.ts).                                *)
(*                                                                         *)
(* The API and every job are processes of their own on one SQLite file.    *)
(* None of them opens a transaction: a job reads what it needs first and   *)
(* then writes row by row, and whatever others write comes in between.     *)
(* Foreign keys are on (client.ts): a statement that would leave a row     *)
(* without its brand fails, and the job with it.  A job may also just stop.*)
(*                                                                         *)
(* A key stands for every spelling of a name that normalizeNameKey maps to *)
(* it.  Slugs are left out: one that is taken is replaced, or the job      *)
(* stops.  Materials and colours are left out: nothing ever deletes them.  *)
(***************************************************************************)
EXTENDS Naturals, FiniteSets

CONSTANTS
    Keys, NoKey,
    Brands, NoBrand,   \* rows of manufacturers, by id; ids are not used twice
    Filaments, NoFilament,
    Jobs               \* job processes

ASSUME CatalogParameters ==
    NoKey \notin Keys /\ NoBrand \notin Brands /\ NoFilament \notin Filaments

VARIABLES
    brand,             \* the name of each row, NoKey when there is none (yet)
    spent,             \* ids that were used
    product,           \* the brand of each product, NoBrand when there is none
    given,             \* the name of the brand it was contributed under
    alias,             \* manufacturer_aliases, unique by name
    asking,            \* the visitor's request for a new brand, half done
    brandJob,          \* what each job is about
    indexed            \* the brands in search_documents

catalogVars == <<brand, spent, product, given, alias, asking, brandJob, indexed>>

NoJob == [kind |-> "none", step |-> "done", known |-> [k \in Keys |-> NoBrand],
          todo |-> {}, winner |-> [b \in Brands |-> NoBrand],
          loser |-> NoBrand, moving |-> {}, alone |-> TRUE]
NoAsk == [key |-> NoKey, row |-> NoBrand]

Live == {b \in Brands : brand[b] # NoKey}
ProductsOf(b) == {p \in Filaments : product[p] = b}
AliasesOf(b) == {k \in Keys : alias[k] = b}

CatalogTypeOK ==
    /\ brand \in [Brands -> Keys \cup {NoKey}] /\ spent \subseteq Brands
    /\ product \in [Filaments -> Brands \cup {NoBrand}]
    /\ given \in [Filaments -> Keys \cup {NoKey}]
    /\ alias \in [Keys -> Brands \cup {NoBrand}]
    /\ asking \in [key : Keys \cup {NoKey}, row : Brands \cup {NoBrand}]
    /\ brandJob \in [Jobs -> [kind : {"none", "import", "merge"},
                  step : {"work", "move", "fill", "done", "failed"},
                  known : [Keys -> Brands \cup {NoBrand}],
                  todo : SUBSET (Keys \cup Brands),
                  winner : [Brands -> Brands \cup {NoBrand}],
                  loser : Brands \cup {NoBrand}, moving : SUBSET Filaments, alone : BOOLEAN]]
    /\ indexed \subseteq Brands

\* Brands or index changed under the feet of other jobs.
Disturbed(changed, others) ==
    [i \in Jobs |-> IF i \in others THEN [changed[i] EXCEPT !.alone = FALSE]
                                    ELSE changed[i]]

Insert(b, k) ==
    /\ b \notin spent
    /\ brand' = [brand EXCEPT ![b] = k]
    /\ spent' = spent \cup {b}
-----------------------------------------------------------------------------
(* The visitors' requests.                                                 *)

\* resolveOrCreateManufacturer has read all brands, and found none.
AskForBrand(k) ==
    /\ asking = NoAsk /\ \A b \in Live : brand[b] # k
    /\ asking' = [key |-> k, row |-> NoBrand]
    /\ UNCHANGED <<brand, spent, product, given, alias, brandJob, indexed>>

InsertBrand(b) ==
    /\ asking.key # NoKey /\ asking.row = NoBrand
    /\ Insert(b, asking.key)
    /\ asking' = [asking EXCEPT !.row = b]
    /\ brandJob' = Disturbed(brandJob, Jobs)
    /\ UNCHANGED <<product, given, alias, indexed>>

\* The alias, unless the name is taken or the brand is gone: then the request
\* fails, and the brand stays.
InsertAlias ==
    /\ asking.row # NoBrand
    /\ alias' = IF alias[asking.key] = NoBrand /\ asking.row \in Live
                THEN [alias EXCEPT ![asking.key] = asking.row] ELSE alias
    /\ asking' = NoAsk
    /\ UNCHANGED <<brand, spent, product, given, brandJob, indexed>>

\* resolveOrCreateFilamentProduct: a brand that is gone is refused, by the
\* look-up or by the foreign key.
AddProduct(p, b) ==
    /\ product[p] = NoBrand /\ b \in Live
    /\ product' = [product EXCEPT ![p] = b]
    /\ given' = [given EXCEPT ![p] = brand[b]]
    /\ UNCHANGED <<brand, spent, alias, asking, brandJob, indexed>>

StopAsking ==
    /\ asking # NoAsk
    /\ asking' = NoAsk
    /\ UNCHANGED <<brand, spent, product, given, alias, brandJob, indexed>>
-----------------------------------------------------------------------------
(* Importing a dataset, of one product for each of its brands.             *)

\* The maps of brands by name, read once; of two rows with one name, one.
StartImport(j) ==
    /\ brandJob[j].step \in {"done", "failed"}
    /\ \E known \in [Keys -> Brands \cup {NoBrand}], todo \in SUBSET Keys :
          /\ \A k \in Keys :
                LET named == {b \in Live : brand[b] = k}
                IN IF named = {} THEN known[k] = NoBrand ELSE known[k] \in named
          /\ brandJob' = [brandJob EXCEPT ![j] = [NoJob EXCEPT !.kind = "import",
                        !.step = "work", !.known = known, !.todo = todo]]
    /\ UNCHANGED <<brand, spent, product, given, alias, asking, indexed>>

ImportBrand(j, k, b) ==
    /\ brandJob[j].kind = "import" /\ brandJob[j].step = "work" /\ k \in brandJob[j].todo
    /\ brandJob[j].known[k] = NoBrand
    /\ Insert(b, k)
    /\ brandJob' = Disturbed([brandJob EXCEPT ![j].known[k] = b], Jobs \ {j})
    /\ UNCHANGED <<product, given, alias, asking, indexed>>

\* A product of the dataset is known by its uuid: it is put under the brand
\* the map names, even when it was moved to another in the meantime.
ImportProduct(j, k, p) ==
    /\ brandJob[j].kind = "import" /\ brandJob[j].step = "work" /\ k \in brandJob[j].todo
    /\ given[p] \in {NoKey, k}
    /\ brandJob[j].known[k] \in Live
    /\ product' = [product EXCEPT ![p] = brandJob[j].known[k]]
    /\ given' = [given EXCEPT ![p] = k]
    /\ brandJob' = [brandJob EXCEPT ![j].todo = @ \ {k}]
    /\ UNCHANGED <<brand, spent, alias, asking, indexed>>
-----------------------------------------------------------------------------
(* Merging brands of one name.                                             *)

Losers(winner) == {l \in Live : winner[l] \notin {NoBrand, l}}

\* preferManufacturer: the row with most products; how ties end is left open.
StartMerge(j) ==
    /\ brandJob[j].step \in {"done", "failed"}
    /\ \E winner \in [Brands -> Brands \cup {NoBrand}] :
          /\ \A b \in Brands :
                LET group == {c \in Live : brand[c] = brand[b]}
                IN IF b \notin Live THEN winner[b] = NoBrand
                   ELSE /\ winner[b] \in group
                        /\ \A c \in group :
                              /\ winner[c] = winner[b]
                              /\ Cardinality(ProductsOf(c))
                                   <= Cardinality(ProductsOf(winner[b]))
          /\ brandJob' = [brandJob EXCEPT ![j] = [NoJob EXCEPT !.kind = "merge",
                        !.step = "work", !.winner = winner,
                        !.todo = Losers(winner)]]
    /\ UNCHANGED <<brand, spent, product, given, alias, asking, indexed>>

Moving(j) == brandJob[j].kind = "merge" /\ brandJob[j].step = "move"

\* The products of a loser are read, to be moved one by one.
TakeLoser(j, l) ==
    /\ brandJob[j].kind = "merge" /\ brandJob[j].step = "work" /\ l \in brandJob[j].todo
    /\ brandJob' = [brandJob EXCEPT ![j].step = "move", ![j].loser = l,
                          ![j].todo = @ \ {l}, ![j].moving = ProductsOf(l)]
    /\ UNCHANGED <<brand, spent, product, given, alias, asking, indexed>>

MoveProduct(j, p) ==
    /\ Moving(j) /\ p \in brandJob[j].moving
    /\ brandJob[j].winner[brandJob[j].loser] \in Live
    /\ product' = [product EXCEPT ![p] = brandJob[j].winner[brandJob[j].loser]]
    /\ brandJob' = [brandJob EXCEPT ![j].moving = @ \ {p}]
    /\ UNCHANGED <<brand, spent, given, alias, asking, indexed>>

\* The code looks for a row with the alias's own name, and finds the alias
\* itself: every alias of a loser is deleted, none is moved.
DropAlias(j, k) ==
    /\ Moving(j) /\ brandJob[j].moving = {} /\ alias[k] = brandJob[j].loser
    /\ alias' = [alias EXCEPT ![k] = NoBrand]
    /\ UNCHANGED <<brand, spent, product, given, asking, brandJob, indexed>>

\* Mutant of MayGo: rows are deleted whatever still refers to them.
MayGo_Always(l) == TRUE

\* The foreign keys of products and aliases.
MayGo(l) == ProductsOf(l) = {} /\ AliasesOf(l) = {}

DeleteLoser(j) ==
    /\ Moving(j) /\ brandJob[j].moving = {} /\ MayGo(brandJob[j].loser)
    /\ brand' = [brand EXCEPT ![brandJob[j].loser] = NoKey]
    /\ brandJob' = Disturbed([brandJob EXCEPT ![j].step = "work", ![j].loser = NoBrand],
                        Jobs \ {j})
    /\ UNCHANGED <<spent, product, given, alias, asking, indexed>>

\* A statement fails, or the process just stops: what is written is written.
StopJob(j) ==
    /\ brandJob[j].step \notin {"done", "failed"}
    /\ brandJob' = [brandJob EXCEPT ![j] = [NoJob EXCEPT !.step = "failed"]]
    /\ UNCHANGED <<brand, spent, product, given, alias, asking, indexed>>
-----------------------------------------------------------------------------
(* The end of every job: rebuildSearchIndex.                               *)

ClearIndex(j) ==
    /\ brandJob[j].step = "work" /\ brandJob[j].todo = {}
    /\ indexed' = {}
    /\ brandJob' = Disturbed([brandJob EXCEPT ![j].step = "fill"], Jobs \ {j})
    /\ UNCHANGED <<brand, spent, product, given, alias, asking>>

FillIndex(j) ==
    /\ brandJob[j].step = "fill"
    /\ indexed' = indexed \cup Live
    /\ brandJob' = Disturbed([brandJob EXCEPT ![j].step = "done"], Jobs \ {j})
    /\ UNCHANGED <<brand, spent, product, given, alias, asking>>
-----------------------------------------------------------------------------
CatalogInit ==
    /\ brand = [b \in Brands |-> NoKey] /\ spent = {}
    /\ product = [p \in Filaments |-> NoBrand]
    /\ given = [p \in Filaments |-> NoKey]
    /\ alias = [k \in Keys |-> NoBrand]
    /\ asking = NoAsk
    /\ brandJob = [j \in Jobs |-> NoJob]
    /\ indexed = {}

CatalogNext ==
    \/ \E k \in Keys : AskForBrand(k)
    \/ \E b \in Brands : InsertBrand(b)
    \/ InsertAlias
    \/ \E p \in Filaments, b \in Brands : AddProduct(p, b)
    \/ StopAsking
    \/ \E j \in Jobs :
          \/ StartImport(j)
          \/ \E k \in Keys, b \in Brands : ImportBrand(j, k, b)
          \/ \E k \in Keys, p \in Filaments : ImportProduct(j, k, p)
          \/ StartMerge(j)
          \/ \E l \in Brands : TakeLoser(j, l)
          \/ \E p \in Filaments : MoveProduct(j, p)
          \/ \E k \in Keys : DropAlias(j, k)
          \/ DeleteLoser(j) \/ ClearIndex(j) \/ FillIndex(j) \/ StopJob(j)

CatalogSpec == CatalogInit /\ [][CatalogNext]_catalogVars
-----------------------------------------------------------------------------
(* What must hold.                                                         *)

\* Whatever jobs run side by side and wherever they stop, a contributed product
\* stays, under a brand of the name it was given, and an alias names a brand
\* that is there.
ContributionsAreKept ==
    /\ \A p \in Filaments :
          given[p] # NoKey => /\ product[p] \in Live
                              /\ brand[product[p]] = given[p]
    /\ \A k \in Keys : alias[k] # NoBrand => alias[k] \in Live

\* A merge that ended, during which nobody else added or removed a brand, has
\* left one brand of each name, and the search index lists exactly the brands.
MergedIsMerged ==
    \A j \in Jobs :
        (brandJob[j].kind = "merge" /\ brandJob[j].step = "done" /\ brandJob[j].alone) =>
            /\ \A b, c \in Live : brand[b] = brand[c] => b = c
            /\ indexed = Live

\* Merging beside visitors and other jobs loses no contribution, and alone it
\* leaves nothing to merge.
MergingIsSound == ContributionsAreKept /\ MergedIsMerged
=============================================================================
