----------------------------- MODULE ShopShelf ------------------------------
(***************************************************************************)
(* The shop's pages: the administrator who edits the products              *)
(* (web/app/shop/manage/manage-client.tsx over api/routes-shop.ts and      *)
(* db/shop.ts), and a customer's cart (shop-grid.tsx, cart-client.tsx,     *)
(* success-client.tsx).                                                    *)
(*                                                                         *)
(* The administrator sees one page of the shop at a time; its list is      *)
(* asked for again after every change, answers come in any order, and the  *)
(* old list stays until the new one comes.  The cart is kept in the        *)
(* browser; a cart page shows the copy it read when it was opened, and     *)
(* writes that copy back.  What is written of a product is one text; its   *)
(* pictures are MediaFiles', payment is ShopOrder's.                       *)
(***************************************************************************)
EXTENDS Naturals, FiniteSets

CONSTANTS
    Goods, NoGood,
    Pages, Prints,     \* the shop's pages; the one whose goods are sold here
    MaxText,           \* texts an administrator writes
    MaxLoads,          \* lists that may be under way
    Clicks,            \* on the save button, which is never disabled
    Waits,             \* one edits only what the page's own list shows
    CartTabs,
    Most, MaxLine,     \* a line's limit at the checkout; the bound on lines
    MaxPolls,          \* times the success page asks
    Revisits,          \* a paid order's success page may be opened again
    SideBySide         \* carts are used in several tabs

ASSUME ShelfParameters ==
    /\ NoGood \notin Goods /\ Prints \in Pages
    /\ {"none", "removed", "saved"} \cap Pages = {}
    /\ MaxText \in Nat /\ MaxLoads \in Nat /\ MaxPolls \in Nat
    /\ Most \in Nat \ {0} /\ MaxLine \in Nat /\ Most <= MaxLine
    /\ {Waits, Revisits, SideBySide} \subseteq BOOLEAN

VARIABLES
    shelf,             \* shop_products
    texts,             \* texts written so far
    admin,             \* the administrator's page
    saving,            \* of each click: the save, from when it is made
    loads,             \* lists under way: the page, and the rows once they are read
    moved,             \* products that changed their page of the shop
    cart,              \* of_shop_cart_v1: the quantity of each line
    tab,               \* the customer's tabs
    paid,              \* the customer's order was paid
    wanted             \* what was put in, and neither taken out, passed over nor
                       \* paid for

shelfVars == <<shelf, texts, admin, saving, loads, moved, cart, tab, paid, wanted>>
editVars == <<shelf, texts, admin, saving, loads, moved>>
cartVars == <<cart, tab, paid, wanted>>

NoGoods == [page |-> "none", text |-> 0, active |-> FALSE]
Removed == [NoGoods EXCEPT !.page = "removed"]      \* its uuid is not used again
Blank == [good |-> NoGood, row |-> NoGoods]
NoList == [page |-> "none", rows |-> [g \in Goods |-> NoGoods]]
NoSaving == [good |-> NoGood, row |-> NoGoods, page |-> "none", sent |-> FALSE]
Saved == [NoSaving EXCEPT !.page = "saved"]         \* answered, or failed
EmptyCart == [g \in Goods |-> 0]
NoTab == [at |-> "elsewhere", lines |-> EmptyCart, polls |-> 0]

OnShelf == {g \in Goods : shelf[g].page \in Pages}
OnSale == {g \in OnShelf : shelf[g].page = Prints /\ shelf[g].active}
RowsOf(page) == [g \in Goods |-> IF shelf[g].page = page THEN shelf[g] ELSE NoGoods]

ShelfTypeOK ==
    /\ \A g \in OnShelf : shelf[g].page \in Pages /\ shelf[g].text \in 1..MaxText
    /\ texts \in 0..MaxText /\ admin.page \in Pages
    /\ admin.draft.good \in Goods \cup {NoGood}
    /\ \A i \in Clicks : saving[i].good \in Goods \cup {NoGood} /\ saving[i].sent \in BOOLEAN
    /\ Cardinality(loads) <= MaxLoads /\ moved \subseteq Goods
    /\ cart \in [Goods -> 0..MaxLine]
    /\ tab \in [CartTabs -> [at : {"elsewhere", "cart", "stripe", "success", "done"},
                             lines : [Goods -> 0..MaxLine], polls : 0..MaxPolls]]
    /\ paid \in BOOLEAN /\ wanted \subseteq Goods
-----------------------------------------------------------------------------
(* The administrator.                                                      *)

Load(page) == loads \cup {[page |-> page, read |-> FALSE, rows |-> NoList.rows]}

\* A mutant: the draft goes along.
OpenPageOfShop_WithDraft(page) ==
    /\ page # admin.page /\ Cardinality(Load(page)) <= MaxLoads
    /\ admin' = [admin EXCEPT !.page = page]
    /\ loads' = Load(page)
    /\ UNCHANGED <<shelf, texts, saving, moved, cartVars>>

\* setPage: the draft is cleared and the page's list asked for.
OpenPageOfShop(page) ==
    /\ page # admin.page /\ Cardinality(Load(page)) <= MaxLoads
    /\ admin' = [admin EXCEPT !.page = page, !.draft = Blank]
    /\ loads' = Load(page)
    /\ UNCHANGED <<shelf, texts, saving, moved, cartVars>>

\* listShopProducts
ReadList(l) ==
    /\ l \in loads /\ ~l.read
    /\ loads' = (loads \ {l}) \cup {[l EXCEPT !.read = TRUE, !.rows = RowsOf(l.page)]}
    /\ UNCHANGED <<shelf, texts, admin, saving, moved, cartVars>>

ListArrives(l) ==
    /\ l \in loads /\ l.read
    /\ loads' = loads \ {l}
    /\ admin' = [admin EXCEPT !.list = [page |-> l.page, rows |-> l.rows]]
    /\ UNCHANGED <<shelf, texts, saving, moved, cartVars>>

\* editProduct: the row as it was listed.
Edit(g) ==
    /\ admin.list.rows[g] # NoGoods
    /\ Waits => admin.list.page = admin.page
    /\ admin' = [admin EXCEPT !.draft = [good |-> g, row |-> admin.list.rows[g]]]
    /\ UNCHANGED <<shelf, texts, saving, loads, moved, cartVars>>

Write ==
    /\ texts < MaxText /\ texts' = texts + 1
    /\ \E on \in BOOLEAN :
          admin' = [admin EXCEPT !.draft.row =
              [page |-> "none", text |-> texts', active |-> on]]
    /\ UNCHANGED <<shelf, saving, loads, moved, cartVars>>

\* save: the draft, under the page that is open now.  assertProductRules wants
\* a text.
Save(i) ==
    /\ saving[i] = NoSaving /\ admin.draft.row.text # 0
    /\ saving' = [saving EXCEPT ![i] = [good |-> admin.draft.good, row |-> admin.draft.row,
                                       page |-> admin.page, sent |-> TRUE]]
    /\ UNCHANGED <<shelf, texts, admin, loads, moved, cartVars>>

\* upsertShopProduct: a uuid that is gone is answered like any other.
UpsertProduct(i) ==
    /\ saving[i].sent
    /\ LET good == saving[i].good
           new == [saving[i].row EXCEPT !.page = saving[i].page]
       IN \/ /\ good = NoGood
             /\ \E g \in Goods : shelf[g] = NoGoods /\ shelf' = [shelf EXCEPT ![g] = new]
             /\ UNCHANGED moved
          \/ /\ good \in OnShelf
             /\ shelf' = [shelf EXCEPT ![good] = new]
             /\ moved' = IF shelf[good].page = new.page THEN moved ELSE moved \cup {good}
          \/ good \in Goods \ OnShelf /\ UNCHANGED <<shelf, moved>>
    /\ saving' = [saving EXCEPT ![i].sent = FALSE]
    /\ UNCHANGED <<texts, admin, loads, cartVars>>

\* Whatever the draft is by now; the list of the page that was saved to.
SaveAnswered(i) ==
    /\ saving[i].page \in Pages /\ ~saving[i].sent
    /\ Cardinality(Load(saving[i].page)) <= MaxLoads
    /\ saving' = [saving EXCEPT ![i] = Saved]
    /\ admin' = [admin EXCEPT !.draft = Blank]
    /\ loads' = Load(saving[i].page)
    /\ UNCHANGED <<shelf, texts, moved, cartVars>>

SaveFails(i) ==
    /\ saving[i].sent
    /\ saving' = [saving EXCEPT ![i] = Saved]
    /\ UNCHANGED <<shelf, texts, admin, loads, moved, cartVars>>

\* remove, in this tab or in another.
RemoveProduct(g) ==
    /\ g \in OnShelf /\ Cardinality(Load(admin.page)) <= MaxLoads
    /\ shelf' = [shelf EXCEPT ![g] = Removed]
    /\ loads' = Load(admin.page)
    /\ UNCHANGED <<texts, admin, saving, moved, cartVars>>
-----------------------------------------------------------------------------
(* The customer.                                                           *)

\* Whether the cart page, or a checkout of it, is open in another tab.
OnlyHere(t) == SideBySide \/ \A u \in CartTabs \ {t} : tab[u].at = "elsewhere"

\* addShopCartLine, on a page of the shop: read, and written back at once.
AddToCart(t, g) ==
    /\ tab[t].at = "elsewhere" /\ OnlyHere(t) /\ g \in OnSale /\ cart[g] < MaxLine
    /\ cart' = [cart EXCEPT ![g] = @ + 1]
    /\ wanted' = wanted \cup {g}
    /\ UNCHANGED <<editVars, tab, paid>>

Show(t, at) == tab' = [tab EXCEPT ![t] = [NoTab EXCEPT !.at = at, !.lines = cart]]

OpenCart(t) ==
    /\ tab[t].at = "elsewhere" /\ OnlyHere(t)
    /\ Show(t, "cart")
    /\ UNCHANGED <<editVars, cart, paid, wanted>>

CloseTab(t) ==
    /\ tab[t] # NoTab
    /\ tab' = [tab EXCEPT ![t] = NoTab]
    /\ UNCHANGED <<editVars, cart, paid, wanted>>

\* update: the copy with one line changed.
Update(t, lines) ==
    /\ tab[t].at = "cart"
    /\ cart' = lines
    /\ tab' = [tab EXCEPT ![t].lines = lines]
    /\ UNCHANGED <<editVars, paid>>

\* The field allows more than the checkout does.
SetQuantity(t, g, n) ==
    /\ tab[t].lines[g] \notin {0, n}
    /\ Update(t, [tab[t].lines EXCEPT ![g] = n])
    /\ UNCHANGED wanted

RemoveLine(t, g) ==
    /\ tab[t].lines[g] # 0
    /\ Update(t, [tab[t].lines EXCEPT ![g] = 0])
    /\ wanted' = wanted \ {g}

\* createPendingShopOrder: what is not on sale any more is passed over, without a
\* word to the customer, and goes with the rest when the rest is paid; one line
\* too many, or nothing left, and the request is refused.
CheckOut(t) ==
    /\ tab[t].at = "cart"
    /\ \A g \in Goods : tab[t].lines[g] <= Most
    /\ \E g \in OnSale : tab[t].lines[g] > 0
    /\ tab' = [tab EXCEPT ![t].at = "stripe",
                          ![t].lines = [g \in Goods |-> IF g \in OnSale THEN @[g] ELSE 0]]
    /\ paid' = FALSE
    /\ wanted' = wanted \cap OnSale
    /\ UNCHANGED <<editVars, cart>>

\* Cancelled at Stripe: the cart page, read anew.
Cancel(t) ==
    /\ tab[t].at = "stripe"
    /\ Show(t, "cart")
    /\ UNCHANGED <<editVars, cart, paid, wanted>>

\* Stripe sends the customer to the success page; the paid event may be late.
Return(t) ==
    /\ tab[t].at = "stripe"
    /\ tab' = [tab EXCEPT ![t].at = "success"]
    /\ UNCHANGED <<editVars, cart, paid, wanted>>

PaidEvent(t) ==
    /\ tab[t].at \in {"stripe", "success"} /\ ~paid
    /\ paid' = TRUE
    /\ wanted' = wanted \ {g \in Goods : tab[t].lines[g] > 0}
    /\ UNCHANGED <<editVars, cart, tab>>

\* tick: a paid order empties the cart, whatever is in it.
Poll(t) ==
    /\ tab[t].at = "success" /\ tab[t].polls < MaxPolls
    /\ IF paid THEN /\ cart' = EmptyCart
                    /\ tab' = [tab EXCEPT ![t].at = "done"]
       ELSE /\ tab' = [tab EXCEPT ![t].polls = @ + 1]
            /\ UNCHANGED cart
    /\ UNCHANGED <<editVars, paid, wanted>>

\* From the history, or by reloading the page.
Revisit(t) ==
    /\ paid /\ tab[t].at = "elsewhere" /\ OnlyHere(t)
    /\ Revisits \/ wanted = {}
    /\ tab' = [tab EXCEPT ![t] = [NoTab EXCEPT !.at = "success"]]
    /\ UNCHANGED <<editVars, cart, paid, wanted>>
-----------------------------------------------------------------------------
ShelfInit ==
    /\ shelf = [g \in Goods |-> NoGoods] /\ texts = 0
    /\ \E page \in Pages : admin = [page |-> page, list |-> NoList, draft |-> Blank]
    /\ saving = [i \in Clicks |-> NoSaving] /\ loads = {} /\ moved = {}
    /\ cart = EmptyCart /\ tab = [t \in CartTabs |-> NoTab] /\ paid = FALSE /\ wanted = {}

AdminNext ==
    \/ \E page \in Pages : OpenPageOfShop(page)
    \/ \E l \in loads : ReadList(l) \/ ListArrives(l)
    \/ \E g \in Goods : Edit(g) \/ RemoveProduct(g)
    \/ \E i \in Clicks : Save(i) \/ UpsertProduct(i) \/ SaveAnswered(i) \/ SaveFails(i)
    \/ Write

CartNext == \E t \in CartTabs :
    \/ OpenCart(t) \/ CloseTab(t) \/ CheckOut(t) \/ Cancel(t) \/ Return(t)
    \/ PaidEvent(t) \/ Poll(t) \/ Revisit(t)
    \/ \E g \in Goods : \/ AddToCart(t, g) \/ RemoveLine(t, g)
                        \/ \E n \in 1..MaxLine : SetQuantity(t, g, n)

ShelfNext == AdminNext \/ CartNext

ShelfSpec == ShelfInit /\ [][ShelfNext]_shelfVars
-----------------------------------------------------------------------------
\* Editing a product never moves it to another page of the shop, however the lists
\* and the answers to saves come in, provided it is edited where it belongs.
ProductsStayOnTheirPage == Waits => moved = {}

\* What a customer put into the cart, and neither took out nor paid for, is there,
\* through checkouts, cancellations and late payments, in one tab; unless it was
\* withdrawn from sale when its checkout began.
CartIsKept ==
    (~SideBySide /\ ~Revisits) => \A g \in wanted : cart[g] > 0

\* Both: no page of the shop loses what was put into it.
ShelfIsSound == ProductsStayOnTheirPage /\ CartIsKept
=============================================================================
