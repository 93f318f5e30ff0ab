----------------------------- MODULE MediaFiles -----------------------------
(***************************************************************************)
(* Files on disk and the rows that name them: the shop's pictures          *)
(* (apps/api/src/routes-shop.ts, packages/db/src/shop.ts) and the evidence *)
(* of revisions (apps/api/src/routes-extra.ts, packages/evidence).         *)
(*                                                                         *)
(* The disk and the database have no transaction in common, and the        *)
(* process may stop between the two.  The shop's handlers do not await, so *)
(* inHand is the only one at work; an evidence upload awaits the encoder   *)
(* and the disk, and storing holds those in progress.                      *)
(***************************************************************************)
EXTENDS FiniteSets

CONSTANTS
    NoProduct, NoFile,
    Products,
    Pictures,          \* names of shop files, each drawn at random once
    Evidence           \* names of evidence files, likewise

ASSUME MediaParameters ==
    /\ NoProduct \notin Products /\ NoFile \notin Pictures
    /\ Pictures \cap Evidence = {}

VARIABLES
    products,          \* shop_products
    pictureOf,         \* shop_product_images: the product of a file's row
    evidenceRow,       \* evidence_assets, by the file they name
    disk,              \* the files there are
    inHand,            \* the shop handler at work and how far it got
    storing            \* evidence uploads in progress, and how far they got

mediaVars == <<products, pictureOf, evidenceRow, disk, inHand, storing>>

NoHand == [doing |-> "nothing", file |-> NoFile, product |-> NoProduct]

MediaTypeOK ==
    /\ products \subseteq Products
    /\ pictureOf \in [Pictures -> Products \cup {NoProduct}]
    /\ evidenceRow \subseteq Evidence
    /\ disk \subseteq Pictures \cup Evidence
    /\ inHand \in [doing : {"nothing", "attach", "discard", "remove"},
                 file : Pictures \cup {NoFile},
                 product : Products \cup {NoProduct}]
    /\ storing \in [Evidence -> {"no", "encoding", "written"}]
-----------------------------------------------------------------------------
(* The shop's products and pictures.                                       *)

Free == inHand = NoHand

\* upsertShopProduct without a uuid.
InsertProduct(p) ==
    /\ Free /\ p \notin products
    /\ products' = products \cup {p}
    /\ UNCHANGED <<pictureOf, evidenceRow, disk, inHand, storing>>

\* Foreign keys are on, and the rows of a product's pictures cascade.
RowsAfterDelete(p) ==
    [f \in Pictures |-> IF pictureOf[f] = p THEN NoProduct ELSE pictureOf[f]]

\* deleteShopProduct: nobody removes the files of the rows that cascade.
DeleteProduct(p) ==
    /\ Free /\ p \in products
    /\ products' = products \ {p}
    /\ pictureOf' = RowsAfterDelete(p)
    /\ UNCHANGED <<evidenceRow, disk, inHand, storing>>

\* The upload of a picture for a product that may be gone: the file first.
WritePicture(f, p) ==
    /\ Free /\ f \notin disk /\ pictureOf[f] = NoProduct
    /\ disk' = disk \cup {f}
    /\ inHand' = [doing |-> "attach", file |-> f, product |-> p]
    /\ UNCHANGED <<products, pictureOf, evidenceRow, storing>>

\* attachShopImage: the row, or nothing when there is no such product.
AttachShopImage ==
    /\ inHand.doing = "attach"
    /\ IF inHand.product \in products
       THEN /\ pictureOf' = [pictureOf EXCEPT ![inHand.file] = inHand.product]
            /\ inHand' = NoHand
       ELSE /\ inHand' = [inHand EXCEPT !.doing = "discard"]
            /\ UNCHANGED pictureOf
    /\ UNCHANGED <<products, evidenceRow, disk, storing>>

\* Mutant of DeleteShopImage: the file is removed before the row.
DeleteShopImage_FileFirst(f) ==
    /\ Free /\ pictureOf[f] # NoProduct
    /\ disk' = disk \ {f}
    /\ inHand' = [doing |-> "remove", file |-> f, product |-> NoProduct]
    /\ UNCHANGED <<products, pictureOf, evidenceRow, storing>>

\* deleteShopImage: the row first.
DeleteShopImage(f) ==
    /\ Free /\ pictureOf[f] # NoProduct
    /\ pictureOf' = [pictureOf EXCEPT ![f] = NoProduct]
    /\ inHand' = [doing |-> "remove", file |-> f, product |-> NoProduct]
    /\ UNCHANGED <<products, evidenceRow, disk, storing>>

\* rmSync, after either.
RemovePicture ==
    /\ inHand.doing \in {"discard", "remove"}
    /\ disk' = disk \ {inHand.file}
    /\ inHand' = NoHand
    /\ UNCHANGED <<products, pictureOf, evidenceRow, storing>>
-----------------------------------------------------------------------------
(* Evidence.  Revisions and observations, once checked, are never deleted. *)

BeginEvidence(e) ==
    /\ Free /\ storing[e] = "no" /\ e \notin disk
    /\ storing' = [storing EXCEPT ![e] = "encoding"]
    /\ UNCHANGED <<products, pictureOf, evidenceRow, disk, inHand>>

\* storeEvidenceImage: the picture is encoded anew and written, or refused.
StoreEvidenceImage(e) ==
    /\ Free /\ storing[e] = "encoding"
    /\ \/ /\ disk' = disk \cup {e}
          /\ storing' = [storing EXCEPT ![e] = "written"]
       \/ /\ storing' = [storing EXCEPT ![e] = "no"]
          /\ UNCHANGED disk
    /\ UNCHANGED <<products, pictureOf, evidenceRow, inHand>>

InsertEvidence(e) ==
    /\ Free /\ storing[e] = "written"
    /\ evidenceRow' = evidenceRow \cup {e}
    /\ storing' = [storing EXCEPT ![e] = "no"]
    /\ UNCHANGED <<products, pictureOf, disk, inHand>>
-----------------------------------------------------------------------------
\* The process stops and starts again between any two steps.
StopMedia ==
    /\ inHand' = NoHand
    /\ storing' = [e \in Evidence |-> "no"]
    /\ UNCHANGED <<products, pictureOf, evidenceRow, disk>>

MediaInit ==
    /\ products = {}
    /\ pictureOf = [f \in Pictures |-> NoProduct]
    /\ evidenceRow = {} /\ disk = {}
    /\ inHand = NoHand
    /\ storing = [e \in Evidence |-> "no"]

MediaNext ==
    \/ \E p \in Products : InsertProduct(p) \/ DeleteProduct(p)
    \/ \E f \in Pictures, p \in Products : WritePicture(f, p)
    \/ AttachShopImage
    \/ \E f \in Pictures : DeleteShopImage(f)
    \/ RemovePicture
    \/ \E e \in Evidence :
          BeginEvidence(e) \/ StoreEvidenceImage(e) \/ InsertEvidence(e)
    \/ StopMedia

MediaSpec == MediaInit /\ [][MediaNext]_mediaVars
-----------------------------------------------------------------------------
(* What must hold.                                                         *)

\* Whatever is interrupted, a row never names a file that is not there nor a
\* product that is gone.  (Files without a row do remain: after a stop, and
\* after the deletion of a product with pictures.)
RowsAreWhole ==
    /\ \A f \in Pictures :
          pictureOf[f] # NoProduct => f \in disk /\ pictureOf[f] \in products
    /\ evidenceRow \subseteq disk
=============================================================================
