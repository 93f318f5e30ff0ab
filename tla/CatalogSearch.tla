--------------------------- MODULE CatalogSearch ---------------------------
(***************************************************************************)
(* Finding something in the catalogue: the search page and its pager       *)
(* (web/app/search/page.tsx over db/catalog-public.ts and color-search.ts),*)
(* the home page's preview, and the box that suggests while one types      *)
(* (components/search-autocomplete.tsx).                                   *)
(*                                                                         *)
(* Every page is a request of its own, answered from the rows of that      *)
(* moment: what visitors and imports add meanwhile shifts the rest.  Rows  *)
(* are products, or the colours a colour query looks among; the words of a *)
(* query and its brand choose among them just as a material does, and are  *)
(* left to it.  Of what is shown of a row only the row is kept.            *)
(***************************************************************************)
EXTENDS Naturals, Sequences, FiniteSets

CONSTANTS
    Rows, KeyOf,       \* brand and name as normalizeQuery leaves them
    MaterialOf, AnyMaterial,  \* materialFilter, and when it is empty
    Label, Nearness,   \* places among the labels; of a colour, its distance
    Popularity,        \* materialPopularityRank
    Fixtures, Imported,\* synthetic_fixture and open_filament_database
    Nearby,            \* colours within maxDistance of the one that is meant
    PageSize, Limit, Featured,
    Namesakes,         \* rows of one key may differ in label and material
    Texts, Short, NoText,
    MaxSent            \* requests of one text that may be under way

ASSUME SearchParameters ==
    /\ PageSize \in Nat \ {0} /\ MaxSent \in Nat \ {0} /\ Namesakes \in BOOLEAN
    /\ \A r \in Rows : {Label[r], Nearness[r], Popularity[MaterialOf[r]]} \subseteq Nat
    /\ Limit \in Nat /\ IsFiniteSet(Featured) /\ Cardinality(Featured) <= Limit
    /\ Fixtures \cup Imported \cup Nearby \subseteq Rows /\ Fixtures \cap Imported = {}
    /\ Short \subseteq Texts /\ NoText \notin Texts

VARIABLES
    rows,              \* the table, in the order of its ids
    colours,           \* how many colours each product has
    reader,            \* somebody on the search page
    box, sent          \* the box and its requests under way

searchVars == <<rows, colours, reader, box, sent>>

NoReader == [mode |-> "none", material |-> AnyMaterial, page |-> 1, pages |-> 1,
             seen |-> {}, there |-> {}, skipped |-> FALSE]
EmptyBox == [text |-> NoText, timer |-> FALSE, hits |-> NoText, open |-> FALSE,
             overtaken |-> FALSE]

Least(S) == CHOOSE n \in S : \A m \in S : n <= m
At(r) == CHOOSE i \in DOMAIN rows : rows[i] = r
Public == {rows[i] : i \in DOMAIN rows} \ Fixtures

SearchTypeOK ==
    /\ rows \in Seq(Rows) /\ colours \in [Rows -> Nat]
    /\ reader.mode \in {"none", "text", "colour"} /\ reader.page \in Nat \ {0}
    /\ reader.seen \cup reader.there \subseteq Rows
    /\ box.text \in Texts \cup {NoText} /\ box.hits \in Texts \cup {NoText}
    /\ sent \in [Texts -> 0..MaxSent]
-----------------------------------------------------------------------------
(* What a search finds, in which order, and what of it a page shows.       *)

Same(r) == {x \in Public : KeyOf[x] = KeyOf[r]}
FirstAt(S) == Least({At(x) : x \in S})

\* byKey: the first row of a key, or the first imported one.
Stands(r) ==
    r = rows[FirstAt(IF Same(r) \cap Imported = {} THEN Same(r)
                                                  ELSE Same(r) \cap Imported)]

ByText == {r \in Public : Stands(r)}
ByColour == Public \cap Nearby

Found(mode, material) ==
    {r \in IF mode = "colour" THEN ByColour ELSE ByText :
        material \in {AnyMaterial, MaterialOf[r]}}

\* Among equals the first comes first.  byKey is a Map: who replaces another row
\* of its key gets that one's place.
Turn(mode, r) == IF mode = "text" THEN FirstAt(Same(r)) ELSE At(r)

\* compareCatalogLabels; the more popular material, the nearer colour, the title.
Precedes(mode, a, b) ==
    LET byLabel == \/ Label[a] < Label[b]
                   \/ Label[a] = Label[b] /\ Turn(mode, a) < Turn(mode, b)
        rank(r) == Popularity[MaterialOf[r]]
    IN IF mode = "colour"
       THEN \/ rank(a) < rank(b)
            \/ rank(a) = rank(b) /\ Nearness[a] < Nearness[b]
            \/ rank(a) = rank(b) /\ Nearness[a] = Nearness[b] /\ byLabel
       ELSE byLabel

Place(mode, S, r) == Cardinality({x \in S : Precedes(mode, x, r)})

\* A mutant: the page begins one row late.
Slice_FromOne(mode, S, page) ==
    {r \in S : /\ Place(mode, S, r) > (page - 1) * PageSize
               /\ Place(mode, S, r) <= page * PageSize}

Slice(mode, S, page) ==
    {r \in S : /\ Place(mode, S, r) >= (page - 1) * PageSize
               /\ Place(mode, S, r) < page * PageSize}

Pages(S) == LET n == (Cardinality(S) + PageSize - 1) \div PageSize
            IN IF n = 0 THEN 1 ELSE n

\* The first n of a set, by an order on it.
Leading(S, n, Lt(_, _)) == {r \in S : Cardinality({x \in S : Lt(x, r)}) < n}

\* getCatalogPreview: a product of each featured material, then the newest, then
\* those with the most colours.
PreviewFeatured ==
    UNION {Leading({r \in Public : MaterialOf[r] = m}, 1,
                   LAMBDA a, b : Precedes("preview", a, b)) : m \in Featured}

PreviewRecent ==
    LET newest == Leading(Public, Limit - Cardinality(PreviewFeatured),
                          LAMBDA a, b : At(a) > At(b))
        most == (7 * Limit + 9) \div 10
    IN IF most <= Cardinality(PreviewFeatured) THEN {}
       ELSE Leading(newest \ PreviewFeatured, most - Cardinality(PreviewFeatured),
                    LAMBDA a, b : At(a) > At(b))

PreviewComplete ==
    Leading(Public \ (PreviewFeatured \cup PreviewRecent),
            Limit - Cardinality(PreviewFeatured \cup PreviewRecent),
            LAMBDA a, b : \/ colours[a] > colours[b]
                          \/ colours[a] = colours[b] /\ Precedes("preview", a, b))
-----------------------------------------------------------------------------
(* The catalogue grows: resolveOrCreateFilamentProduct, the imports.       *)

AddRow(r) ==
    /\ r \notin {rows[i] : i \in DOMAIN rows}
    /\ Namesakes \/ \A x \in Public : KeyOf[x] = KeyOf[r] =>
          Label[x] = Label[r] /\ MaterialOf[x] = MaterialOf[r]
    /\ rows' = Append(rows, r)
    /\ UNCHANGED <<colours, reader, box, sent>>

AddColour(r) ==
    /\ r \in Public /\ colours[r] = 0
    /\ colours' = [colours EXCEPT ![r] = 1]
    /\ UNCHANGED <<rows, reader, box, sent>>
-----------------------------------------------------------------------------
(* The search page.                                                        *)

Shown(mode, material, page, before) ==
    LET S == Found(mode, material)
    IN [mode |-> mode, material |-> material, page |-> page, pages |-> Pages(S),
        seen |-> before.seen \cup Slice(mode, S, page), there |-> before.there,
        skipped |-> before.skipped]

\* The form, or a material of the list above the colours: page one.
Search(mode, material) ==
    /\ reader' = Shown(mode, material, 1, [NoReader EXCEPT !.there = Found(mode, material)])
    /\ UNCHANGED <<rows, colours, box, sent>>

NextPage ==
    /\ reader.mode # "none" /\ reader.page < reader.pages
    /\ reader' = Shown(reader.mode, reader.material, reader.page + 1, reader)
    /\ UNCHANGED <<rows, colours, box, sent>>

PreviousPage ==
    /\ reader.mode # "none" /\ reader.page > 1
    /\ reader' = Shown(reader.mode, reader.material, reader.page - 1, reader)
    /\ UNCHANGED <<rows, colours, box, sent>>

\* A link to a page further on, kept from another day.
OpenPage(mode, page) ==
    /\ reader = NoReader /\ page > 1
    /\ reader' = Shown(mode, AnyMaterial, page, [NoReader EXCEPT !.skipped = TRUE])
    /\ UNCHANGED <<rows, colours, box, sent>>

Leave ==
    /\ reader # NoReader
    /\ reader' = NoReader
    /\ UNCHANGED <<rows, colours, box, sent>>
-----------------------------------------------------------------------------
(* The box.  A request is sent 180 ms after the last key; nothing tells    *)
(* the answer to an older text from the newest.                            *)

Type(t) ==
    /\ t # box.text
    /\ box' = [box EXCEPT !.text = t, !.timer = t \notin Short,
                          !.hits = IF t \in Short THEN NoText ELSE @]
    /\ UNCHANGED <<rows, colours, reader, sent>>

AskFor ==
    /\ box.timer /\ sent[box.text] < MaxSent
    /\ box' = [box EXCEPT !.timer = FALSE]
    /\ sent' = [sent EXCEPT ![box.text] = @ + 1]
    /\ UNCHANGED <<rows, colours, reader>>

Suggest(t) ==
    /\ sent[t] > 0
    /\ sent' = [sent EXCEPT ![t] = @ - 1]
    /\ box' = [box EXCEPT !.hits = t, !.open = TRUE,
                          !.overtaken = @ \/ t # box.text]
    /\ UNCHANGED <<rows, colours, reader>>

SuggestFails(t) ==
    /\ sent[t] > 0
    /\ sent' = [sent EXCEPT ![t] = @ - 1]
    /\ box' = [box EXCEPT !.hits = NoText]
    /\ UNCHANGED <<rows, colours, reader>>

\* Escape or a click beside it; the focus again.
ShowOrHide ==
    /\ box.hits # NoText
    /\ box' = [box EXCEPT !.open = ~@]
    /\ UNCHANGED <<rows, colours, reader, sent>>

\* Enter or a click: to the page of the suggestion.
Follow ==
    /\ box.open /\ box.hits # NoText
    /\ box' = EmptyBox /\ sent' = [t \in Texts |-> 0]
    /\ UNCHANGED <<rows, colours, reader>>
-----------------------------------------------------------------------------
SearchInit ==
    /\ rows = << >> /\ colours = [r \in Rows |-> 0] /\ reader = NoReader
    /\ box = EmptyBox /\ sent = [t \in Texts |-> 0]

SearchNext ==
    \/ \E r \in Rows : AddRow(r) \/ AddColour(r)
    \/ \E mode \in {"text", "colour"} :
          \/ \E m \in {AnyMaterial} \cup {MaterialOf[r] : r \in Rows} : Search(mode, m)
          \/ OpenPage(mode, 2)
    \/ NextPage \/ PreviousPage \/ Leave
    \/ \E t \in Texts : Type(t) \/ Suggest(t) \/ SuggestFails(t)
    \/ AskFor \/ ShowOrHide \/ Follow

SearchSpec == SearchInit /\ [][SearchNext]_searchVars
-----------------------------------------------------------------------------
\* Whoever pages to the end has seen all that was found when the search began,
\* whatever was added meanwhile, but for rows another of their name replaced.
WalkSeesAll ==
    (reader.mode # "none" /\ reader.page >= reader.pages /\ ~reader.skipped) =>
        \A r \in reader.there : \/ r \in reader.seen
                                \/ reader.mode = "text" /\ ~Stands(r)

\* The home page shows as many products as fit, none of them twice, and no fixture.
PreviewIsFull ==
    LET all == PreviewFeatured \cup PreviewRecent \cup PreviewComplete
        full == Cardinality(Public)
    IN /\ Cardinality(all) = IF full < Limit THEN full ELSE Limit
       /\ Cardinality(all) = Cardinality(PreviewFeatured) + Cardinality(PreviewRecent)
                             + Cardinality(PreviewComplete)
       /\ all \subseteq Public

\* Once everything is answered, what is suggested was found for the text in the
\* box, unless an answer came after the text had changed.
SuggestionsFit ==
    (box.open /\ box.hits # NoText /\ ~box.timer /\ ~box.overtaken
        /\ \A t \in Texts : sent[t] = 0) => box.hits = box.text

\* All three: the pager's promise, the home page's and the box's.
SearchIsSound == WalkSeesAll /\ PreviewIsFull /\ SuggestionsFit
=============================================================================
