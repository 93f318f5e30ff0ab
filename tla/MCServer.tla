------------------------------ MODULE MCServer ------------------------------
(***************************************************************************)
(* Parts of the server that share no table, for TLC: files, revisions,     *)
(* votes, accounts, the shop's shelf and its carts, the catalogue's jobs,  *)
(* the imports of colours, the bridge's presets and folders, the fields of *)
(* both kinds of tags, the page that scans a code, and the spools of the   *)
(* Cloud.  Each behaviour runs one of them and leaves the others where     *)
(* they start.                                                             *)
(***************************************************************************)
EXTENDS MediaFiles, ProfileRevisions, ProfileVotes, AccountLifecycle,
        ShopShelf, ColourImport, Catalog, SlicerBridge,
        RfidForm, OpenPrintTag, QrScan, TLC

CONSTANTS n1, y1, y2, z1, z2, q1, q2, sp1, sp2, cl1, mk1, dr1

\* What the datasets know of the one colour: nothing, or a value.
OfdMap == n1 :> {Null, "white"}
SpoolMap == n1 :> "grey"
Nothing == Null

\* The first material's colour is mapped to one variant, all its other colours to
\* another.
MappingList == <<[material |-> y1, colour |-> "red", variant |-> z1],
                 [material |-> y1, colour |-> AnyColour, variant |-> z2]>>
ProfileMap == z1 :> <<q1>> @@ z2 :> <<q2, q1>>

\* Two new spools with one code or one client id; the same two again by uuid, with
\* a code twice, without codes, and brought back from the archive.
Body(id, client, version, archived, lists) ==
    [id |-> id, client |-> client, version |-> version, archived |-> archived, lists |-> lists]
BodySet ==
    {Body(NoId, cl1, 1, Unsaid, <<<<dr1>>, <<mk1>>, Unsaid>>),
     Body(sp1, NoClient, 1, Unsaid, <<Unsaid, <<mk1, mk1>>, <<>>>>),
     Body(sp2, cl1, 2, TRUE, <<<<dr1>>, <<>>, <<>>>>),
     Body(sp1, cl1, 2, FALSE, <<<<>>, Unsaid, Unsaid>>),
     Body(sp2, NoClient, 1, Unsaid, <<Unsaid, <<mk1>>, Unsaid>>)}

VARIABLE part      \* the part that runs

serverVars == <<part, mediaVars, profileVars, voteVars, accountVars,
                shelfVars, catalogVars, importVars, presetVars, folderVars,
                rfidVars, tagVars, scanVars, stockVars>>

\* The cart's part finds both goods on sale, until one is removed.
Stocked ==
    /\ shelf = [g \in Goods |-> [page |-> Prints, text |-> 1, active |-> TRUE]]
    /\ texts = 1 /\ admin = [page |-> Prints, list |-> NoList, draft |-> Blank]
    /\ saving = [i \in Clicks |-> NoSaving] /\ loads = {} /\ moved = {}
    /\ cart = EmptyCart /\ tab = [t \in CartTabs |-> NoTab] /\ paid = FALSE /\ wanted = {}

\* One article, whichever.
Plainly ==
    /\ article = [v \in Tagged |-> [brand |-> [length |-> 24, wide |-> 1],
                                   name |-> [length |-> 24, wide |-> 1],
                                   ofd |-> FALSE, hot |-> NoTag, thick |-> "3"]]
    /\ held = NoTag /\ encoding = NoTag /\ result = NoTag /\ requests = 0

\* The parts that do not run keep one of their initial states: no preset.
ServerInit ==
    /\ part \in {"files", "revisions", "votes", "accounts", "shelf",
                 "cart", "catalog", "imports", "presets", "folders",
                 "form", "opentag", "scan", "label", "spools"}
    /\ MediaInit /\ ProfilesInit /\ VotesInit /\ AccountsInit /\ CatalogInit
    /\ ImportInit /\ PresetsInit /\ RfidInit /\ FoldersInit /\ ScanInit /\ StockInit
    /\ IF part = "opentag" THEN OpenTagInit ELSE Plainly
    /\ IF part = "shelf" THEN ShelfInit ELSE Stocked
    /\ part # "presets" => \A p \in Presets : file[p] = Pair
    /\ part # "folders" => ~override
    /\ part # "scan" => ~onPhone /\ mode = "camera"

ServerNext ==
    \/ /\ part = "files" /\ MediaNext
       /\ UNCHANGED <<part, profileVars, voteVars, accountVars, shelfVars,
                      catalogVars, importVars, presetVars, folderVars,
                      rfidVars, tagVars, scanVars, stockVars>>
    \/ /\ part = "revisions" /\ ProfilesNext
       /\ UNCHANGED <<part, mediaVars, voteVars, accountVars, shelfVars,
                      catalogVars, importVars, presetVars, folderVars,
                      rfidVars, tagVars, scanVars, stockVars>>
    \/ /\ part = "votes" /\ VotesNext
       /\ UNCHANGED <<part, mediaVars, profileVars, accountVars, shelfVars,
                      catalogVars, importVars, presetVars, folderVars,
                      rfidVars, tagVars, scanVars, stockVars>>
    \/ /\ part = "accounts" /\ AccountsNext
       /\ UNCHANGED <<part, mediaVars, profileVars, voteVars, shelfVars,
                      catalogVars, importVars, presetVars, folderVars,
                      rfidVars, tagVars, scanVars, stockVars>>
    \/ /\ part = "shelf" /\ AdminNext
       /\ UNCHANGED <<part, mediaVars, profileVars, voteVars, accountVars,
                      catalogVars, importVars, presetVars, folderVars,
                      rfidVars, tagVars, scanVars, stockVars>>
    \/ /\ part = "cart" /\ (CartNext \/ \E g \in Goods : RemoveProduct(g))
       /\ UNCHANGED <<part, mediaVars, profileVars, voteVars, accountVars,
                      catalogVars, importVars, presetVars, folderVars,
                      rfidVars, tagVars, scanVars, stockVars>>
    \/ /\ part = "catalog" /\ CatalogNext
       /\ UNCHANGED <<part, mediaVars, profileVars, voteVars, accountVars,
                      shelfVars, importVars, presetVars, folderVars,
                      rfidVars, tagVars, scanVars, stockVars>>
    \/ /\ part = "imports" /\ ImportNext
       /\ UNCHANGED <<part, mediaVars, profileVars, voteVars, accountVars,
                      shelfVars, catalogVars, presetVars, folderVars,
                      rfidVars, tagVars, scanVars, stockVars>>
    \/ /\ part = "presets" /\ PresetsNext
       /\ UNCHANGED <<part, mediaVars, profileVars, voteVars, accountVars,
                      shelfVars, catalogVars, importVars, folderVars,
                      rfidVars, tagVars, scanVars, stockVars>>
    \/ /\ part = "folders" /\ FoldersNext
       /\ UNCHANGED <<part, mediaVars, profileVars, voteVars, accountVars,
                      shelfVars, catalogVars, importVars, presetVars,
                      rfidVars, tagVars, scanVars, stockVars>>
    \/ /\ part = "form" /\ RfidNext
       /\ UNCHANGED <<part, mediaVars, profileVars, voteVars, accountVars,
                      shelfVars, catalogVars, importVars, presetVars,
                      folderVars, tagVars, scanVars, stockVars>>
    \/ /\ part = "opentag" /\ OpenTagNext
       /\ UNCHANGED <<part, mediaVars, profileVars, voteVars, accountVars,
                      shelfVars, catalogVars, importVars, presetVars,
                      folderVars, rfidVars, scanVars, stockVars>>
    \/ /\ part = "scan" /\ CameraNext
       /\ UNCHANGED <<part, mediaVars, profileVars, voteVars, accountVars,
                      shelfVars, catalogVars, importVars, presetVars,
                      folderVars, rfidVars, tagVars, stockVars>>
    \/ /\ part = "label" /\ LabelNext
       /\ UNCHANGED <<part, mediaVars, profileVars, voteVars, accountVars,
                      shelfVars, catalogVars, importVars, presetVars,
                      folderVars, rfidVars, tagVars, stockVars>>
    \/ /\ part = "spools" /\ StockNext
       /\ UNCHANGED <<part, mediaVars, profileVars, voteVars, accountVars,
                      shelfVars, catalogVars, importVars, presetVars,
                      folderVars, rfidVars, tagVars, scanVars>>

ServerSpec == ServerInit /\ [][ServerNext]_serverVars

\* Nothing chooses among the jobs, the handlers or the clicks; as only one part runs,
\* the two of each are swapped at once.
Alike == {ImportJobs, Handlers, Clicks}
Interchangeable ==
    {f \in Permutations(UNION Alike) :
        \/ \A x \in UNION Alike : f[x] = x
        \/ \A S \in Alike : \A x \in S : f[x] \in S \ {x}}
-----------------------------------------------------------------------------
\* What is written on a tag, of either kind, is what the page shows.
BothTagsAreSound == TagsAreSound /\ OpenTagsAreSound
=============================================================================
