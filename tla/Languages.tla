----------------------------- MODULE Languages ------------------------------
(***************************************************************************)
(* In which language a page is shown: the middleware (web/middleware.ts)   *)
(* with its addresses (web/lib/i18n/routing.ts), the cookie that keeps the *)
(* choice, and the links and the switcher of the pages.                    *)
(*                                                                         *)
(* English has no prefix.  A document without one goes to the language of  *)
(* the cookie, or of the browser at first; but when Next fetches the data  *)
(* of a page for a link, it is English whatever the cookie says, and the   *)
(* frame around the page stays.  One tab is followed; others of the same   *)
(* browser change the cookie.  The rest of an address is left out.         *)
(***************************************************************************)
EXTENDS Naturals, Sequences, FiniteSets

CONSTANTS
    Tongues, English,  \* the languages of the catalogue of messages
    Foreign,           \* one that browsers ask for and nobody translated
    Weights,           \* of a language in Accept-Language
    Bare,              \* no prefix
    NoTongue, NoPage, NoTravel,
    MaxHops            \* of redirects, before a browser gives up

Prefixed == Tongues \ {English}
Addresses == {Bare} \cup Tongues

\* What is on the screen, and a navigation under way.
Views == [prefix : Addresses, frame : Tongues, own : Tongues]
Travels == [to : Addresses, document : BOOLEAN, left : BOOLEAN,
            cookie : Tongues \cup {NoTongue}, hops : 0..MaxHops]

ASSUME LanguageParameters ==
    /\ English \in Tongues /\ Foreign \notin Tongues /\ {Bare, NoTongue} \cap Tongues = {}
    /\ Weights \subseteq Nat /\ MaxHops \in Nat
    /\ NoPage \notin Views /\ NoTravel \notin Travels

VARIABLES
    prefers,           \* what the browser asks for at first
    jar,               \* the cookie of_locale
    shown,             \* the page: its prefix, the language of its frame and its own
    travel,            \* the navigation under way
    fetched,           \* languages of prefetches without an answer
    wish,              \* what was last chosen in this tab, by switcher or prefix
    crossed            \* since then an answer or another tab set another cookie

languageVars == <<prefers, jar, shown, travel, fetched, wish, crossed>>

\* localizedPath.
PrefixOf(l) == IF l = English THEN Bare ELSE l
\* isLocale, isPrefixedLocale: what the address stands for.
TongueOf(p) == IF p = Bare THEN English ELSE p

\* preferredLocaleFromAcceptLanguage: the first of the heaviest that there is.
Preferred(header) ==
    LET Fit == {i \in DOMAIN header : header[i].tongue \in Tongues /\ header[i].weight > 0}
        Best == {i \in Fit : \A j \in Fit : header[j].weight <= header[i].weight}
    IN IF Fit = {} THEN English
       ELSE header[CHOOSE i \in Best : \A j \in Best : i <= j].tongue

Headers == UNION {[1..n -> [tongue : Tongues \cup {Foreign}, weight : Weights]] : n \in 0..2}

LanguageTypeOK ==
    /\ prefers \in Tongues /\ jar \in Tongues \cup {NoTongue}
    /\ shown \in Views \cup {NoPage} /\ travel \in Travels \cup {NoTravel}
    /\ fetched \subseteq Prefixed /\ wish \in Tongues \cup {NoTongue} /\ crossed \in BOOLEAN
-----------------------------------------------------------------------------
(* The middleware.                                                         *)

Page(l) == [page |-> l, to |-> Bare, sets |-> NoTongue]
Redirect(p, c) == [page |-> NoTongue, to |-> p, sets |-> c]

\* Mutant of AtBare: the locale stamped on the request is forgotten.
AtBare_Forgetful(stamped, r) ==
    IF r.reads /\ r.cookie \in Prefixed THEN Redirect(PrefixOf(r.cookie), NoTongue)
    ELSE IF r.reads /\ r.cookie = NoTongue /\ r.asks \in Prefixed
    THEN Redirect(PrefixOf(r.asks), r.asks)
    ELSE Page(English)

\* r.reads: a document that is asked for by no crawler.
AtBare(stamped, r) ==
    IF stamped \in Prefixed THEN Page(stamped)
    ELSE IF r.reads /\ r.cookie \in Prefixed THEN Redirect(PrefixOf(r.cookie), NoTongue)
    ELSE IF r.reads /\ r.cookie = NoTongue /\ r.asks \in Prefixed
    THEN Redirect(PrefixOf(r.asks), r.asks)
    ELSE Page(English)

\* Next may call the middleware again for the address it was rewritten to.
Replies(p, r) ==
    IF p = English THEN {Redirect(Bare, NoTongue)}
    ELSE IF p \in Prefixed
    THEN {[reply EXCEPT !.sets = p] : reply \in {Page(p), AtBare(p, r)}}
    ELSE {AtBare(NoTongue, r)}
-----------------------------------------------------------------------------
(* The tab.                                                                *)

Go(p, document) ==
    travel' = [to |-> p, document |-> document, left |-> FALSE, cookie |-> NoTongue,
               hops |-> 0]

\* What is under way is given up, and with it what was chosen.
Renounced == IF travel = NoTravel THEN wish ELSE NoTongue

\* An address is entered, or followed from elsewhere.
Visit(p) ==
    /\ Go(p, TRUE)
    /\ IF p \in Prefixed THEN wish' = p /\ crossed' = FALSE
       ELSE wish' = Renounced /\ UNCHANGED crossed
    /\ UNCHANGED <<prefers, jar, shown, fetched>>

\* LocaleLink: by Next, or in a new document.
FollowLocaleLink(document) ==
    /\ shown # NoPage
    /\ Go(PrefixOf(shown.frame), document)
    /\ wish' = Renounced
    /\ UNCHANGED <<prefers, jar, shown, fetched, crossed>>

\* Most pages link without a language.
FollowPlainLink(document) ==
    /\ shown # NoPage
    /\ Go(Bare, document)
    /\ wish' = Renounced
    /\ UNCHANGED <<prefers, jar, shown, fetched, crossed>>

\* Mutant of Choose: the choice is not kept.
Choose_Unkept(l) ==
    /\ shown # NoPage
    /\ Go(PrefixOf(l), TRUE)
    /\ wish' = l /\ crossed' = FALSE
    /\ UNCHANGED <<prefers, jar, shown, fetched>>

\* onChange of the switcher: the cookie, then the address.
Choose(l) ==
    /\ shown # NoPage
    /\ jar' = l
    /\ Go(PrefixOf(l), TRUE)
    /\ wish' = l /\ crossed' = FALSE
    /\ UNCHANGED <<prefers, shown, fetched>>

\* The request leaves with the cookie of that moment.
Depart ==
    /\ travel # NoTravel /\ ~travel.left
    /\ travel' = [travel EXCEPT !.left = TRUE, !.cookie = jar]
    /\ UNCHANGED <<prefers, jar, shown, fetched, wish, crossed>>

\* A document is all new; what Next fetched is put into the frame there is.
Arrive ==
    /\ travel # NoTravel /\ travel.left
    /\ \E reply \in Replies(travel.to, [reads |-> travel.document, cookie |-> travel.cookie,
                                        asks |-> prefers]) :
         /\ jar' = IF reply.sets = NoTongue THEN jar ELSE reply.sets
         /\ IF reply.page = NoTongue
            THEN /\ travel.hops < MaxHops
                 /\ travel' = [travel EXCEPT !.to = reply.to, !.left = FALSE, !.hops = @ + 1]
                 /\ UNCHANGED shown
            ELSE /\ travel' = NoTravel
                 /\ shown' = [prefix |-> travel.to, own |-> reply.page,
                              frame |-> IF travel.document THEN reply.page ELSE shown.frame]
    /\ UNCHANGED <<prefers, fetched, wish, crossed>>

\* Next fetches what the links in view lead to; without a prefix it sets no cookie.
Prefetch ==
    /\ shown # NoPage /\ shown.frame \in Prefixed
    /\ fetched' = fetched \cup {shown.frame}
    /\ UNCHANGED <<prefers, jar, shown, travel, wish, crossed>>

SetAside(l) ==
    /\ jar' = l
    /\ crossed' = (crossed \/ l # wish)
    /\ UNCHANGED <<prefers, shown, travel, wish>>

Prefetched(l) ==
    /\ l \in fetched /\ fetched' = fetched \ {l}
    /\ SetAside(l)

\* Another tab is sent to l, or chooses it.
Elsewhere(l) == SetAside(l) /\ UNCHANGED fetched
-----------------------------------------------------------------------------
LanguagesInit ==
    /\ prefers \in {Preferred(h) : h \in Headers}
    /\ jar = NoTongue /\ shown = NoPage /\ travel = NoTravel
    /\ fetched = {} /\ wish = NoTongue /\ crossed = FALSE

LanguagesNext ==
    \/ \E p \in Addresses : Visit(p)
    \/ \E document \in BOOLEAN : FollowLocaleLink(document) \/ FollowPlainLink(document)
    \/ \E l \in Tongues : Choose(l) \/ Prefetched(l) \/ Elsewhere(l)
    \/ Depart \/ Arrive \/ Prefetch

LanguagesSpec == LanguagesInit /\ [][LanguagesNext]_languageVars
-----------------------------------------------------------------------------
(* What must hold.                                                         *)

\* Whatever another tab does to the cookie meanwhile, no address is redirected more
\* than twice: /en to no prefix, and that to another language.
RedirectsEnd == travel # NoTravel => travel.hops <= 2

\* A page is in the language of its address, for documents and for what Next fetches,
\* also when the middleware is called twice.
AddressTells == shown # NoPage => shown.own = TongueOf(shown.prefix)

\* The frame has another language only around a page without a prefix.
FrameFits == shown # NoPage => shown.frame = shown.own \/ shown.prefix = Bare

\* What was chosen in a tab, with the switcher or by an address, stays its language
\* through links, reloads and addresses without a language, until another tab or a
\* late answer sets another cookie.
ChoiceHolds ==
    shown # NoPage /\ travel = NoTravel /\ wish # NoTongue /\ ~crossed =>
        shown.frame = wish

\* Every address a page names as its own or as that of a translation leads crawlers,
\* and visitors who chose that language, there without a redirect.
AlternatesServe ==
    \A l \in Tongues :
        /\ Replies(PrefixOf(l), [reads |-> FALSE, cookie |-> NoTongue, asks |-> prefers])
             \subseteq {[Page(l) EXCEPT !.sets = c] : c \in {l, NoTongue}}
        /\ \A r \in Replies(PrefixOf(l), [reads |-> TRUE, cookie |-> l, asks |-> prefers]) :
             r.page = l

LanguagesAreSound ==
    RedirectsEnd /\ AddressTells /\ FrameFits /\ ChoiceHolds /\ AlternatesServe
=============================================================================
