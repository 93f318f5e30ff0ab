----------------------------- MODULE DeskProofs -----------------------------
(***************************************************************************)
(* What holds of the parts of MCDesk for every value of their constants:   *)
(* tags that are written and read back, the consent to be measured, the    *)
(* language of the pages, what a search finds, and what is recommended.    *)
(***************************************************************************)
EXTENDS MCDesk, FiniteSetTheorems, WellFoundedInduction, TLAPS

-----------------------------------------------------------------------------
(* TagWrite.                                                               *)

\* An attempt that shows its result is over, in the form and in the steps.
AttemptIsOver == result # "busy" => way = "none" /\ step = "end"

TagIInv == AttemptIsOver /\ OkMeansReadBack

LEMMA TagInitIsSound == TagInit => TagIInv
  BY DEF TagInit, TagIInv, AttemptIsOver, OkMeansReadBack

LEMMA TagStepIsSound == TagIInv /\ [TagNext]_tagVars => TagIInv'
  <1> SUFFICES ASSUME TagIInv, [TagNext]_tagVars PROVE TagIInv'
      OBVIOUS
  <1> USE DEF TagIInv, AttemptIsOver, OkMeansReadBack, Finish, OnLine, InBrowser
  <1>1. ASSUME NEW w \in Ways, NEW c \in Payloads, BeginWrite(w, c) PROVE TagIInv'
    BY <1>1 DEF BeginWrite
  <1>2. CASE EncodePayload
    BY <1>2 DEF EncodePayload
  <1>3. CASE WriteMemory
    BY <1>3 DEF WriteMemory
  <1>4. CASE ReadLine
    BY <1>4 DEF ReadLine
  <1>5. CASE TimeOut
    BY <1>5 DEF TimeOut
  <1>6. CASE VerifyReadBack
    BY <1>6 DEF VerifyReadBack, ReadBackMatches, Whole
  <1>7. CASE WriteBlocks
    BY <1>7 DEF WriteBlocks
  <1>8. CASE ReadBlocksBack
    BY <1>8 DEF ReadBlocksBack, Verified
  <1>9. CASE CarryOut
    BY <1>9 DEF CarryOut
  <1>10. ASSUME NEW c \in Contents, SwapTag(c) PROVE TagIInv'
    BY <1>10 DEF SwapTag
  <1>11. CASE EndTransfer
    BY <1>11 DEF EndTransfer
  <1>12. CASE UNCHANGED tagVars
    BY <1>12 DEF tagVars
  <1> QED
    BY <1>1, <1>2, <1>3, <1>4, <1>5, <1>6, <1>7, <1>8, <1>9, <1>10, <1>11, <1>12
    DEF TagNext, PageStep, BridgeStep

\* However adapters and tags answer, success is shown only of what was read back.
THEOREM OkIsReadBack == TagSpec => []OkMeansReadBack
  <1>1. TagIInv => OkMeansReadBack
    BY DEF TagIInv
  <1> QED
    BY <1>1, TagInitIsSound, TagStepIsSound, PTL DEF TagSpec
-----------------------------------------------------------------------------
(* Consent.                                                                *)

\* A page schedules nothing before it is open, and one whose visitor refused when
\* nothing was scheduled has nothing scheduled.
RefusalIsFinal ==
    \A t \in Tabs :
        /\ tab[t].at # "open" => tab[t].timers = {}
        /\ tab[t].at = "open" /\ Refuses(tab[t].heard) /\ Current(tab[t].heard)
              /\ ~tab[t].overrun => tab[t].timers = {} /\ ~tab[t].on

ConsentIInv == ConsentTypeOK /\ RefusalIsFinal

LEMMA ConsentInitIsSound == ConsentInit => ConsentIInv
  BY ConsentParameters
  DEF ConsentInit, ConsentIInv, ConsentTypeOK, RefusalIsFinal, TabStates, Closed, Record

\* One tab changes, to a state that keeps what is said of it.
LEMMA OneTabChanges ==
  ASSUME ConsentIInv, NEW t \in Tabs, NEW w \in TabStates,
         tab' = [tab EXCEPT ![t] = w],
         stored' \in Record \cup {NoRecord}, cookie' \in Record \cup {NoRecord},
         w.at # "open" => w.timers = {},
         w.at = "open" /\ Refuses(w.heard) /\ Current(w.heard) /\ ~w.overrun
             => w.timers = {} /\ ~w.on
  PROVE  ConsentIInv'
  BY DEF ConsentIInv, ConsentTypeOK, RefusalIsFinal

LEMMA ConsentStepIsSound == ConsentIInv /\ [ConsentNext]_consentVars => ConsentIInv'
  <1> SUFFICES ASSUME ConsentIInv, [ConsentNext]_consentVars PROVE ConsentIInv'
      OBVIOUS
  <1>t. ConsentTypeOK
    BY DEF ConsentIInv
  <1>r. ReadConsent \in Record \cup {NoRecord}
    BY <1>t DEF ReadConsent, ConsentTypeOK
  <1>n. NoRecord \notin Record
    BY ConsentParameters
  <1>1. ASSUME NEW t \in Tabs, Load(t) PROVE ConsentIInv'
    <2> DEFINE w == InitIfAllowed([Closed EXCEPT !.at = "head"], cookie)
    <2>1. w \in TabStates /\ w.at = "head" /\ w.timers = {}
      BY <1>t DEF InitIfAllowed, Closed, TabStates, ConsentTypeOK
    <2>2. tab' = [tab EXCEPT ![t] = w] /\ UNCHANGED <<stored, cookie>>
      BY <1>1 DEF Load
    <2> HIDE DEF w
    <2> QED
      BY <2>1, <2>2, <1>t, OneTabChanges DEF ConsentTypeOK
  <1>2. ASSUME NEW t \in Tabs, Mount(t) PROVE ConsentIInv'
    <2> DEFINE r == ReadConsent
               w == Mounted(tab[t], r)
    <2>0. tab[t] \in TabStates /\ tab[t].at = "head"
      BY <1>2, <1>t DEF Mount, ConsentTypeOK
    <2>1. w \in TabStates /\ w.at = "open" /\ w.heard = r
      BY <2>0, <1>r DEF Mounted, Disabled, TabStates
    <2>2. Refuses(r) /\ Current(r) => w.timers = {} /\ ~w.on
      BY <2>0, <1>2 DEF Mounted, Disabled, TabStates, Refuses, ConsentIInv, RefusalIsFinal
    <2>3. tab' = [tab EXCEPT ![t] = w] /\ UNCHANGED <<stored, cookie>>
      BY <1>2 DEF Mount
    <2> HIDE DEF w
    <2> QED
      BY <2>1, <2>2, <2>3, <1>t, OneTabChanges DEF ConsentTypeOK
  <1>3. ASSUME NEW t \in Tabs, NEW r \in Record \cup {NoRecord}, Fire(t, r)
        PROVE ConsentIInv'
    <2> DEFINE w == InitIfAllowed([tab[t] EXCEPT !.timers = @ \ {r}], r)
    <2>0. tab[t] \in TabStates /\ tab[t].timers # {}
      BY <1>3, <1>t DEF Fire, ConsentTypeOK
    <2>1. /\ w \in TabStates /\ w.at = tab[t].at /\ w.heard = tab[t].heard
          /\ w.overrun = tab[t].overrun
      BY <2>0 DEF InitIfAllowed, TabStates
    <2>2. tab' = [tab EXCEPT ![t] = w] /\ UNCHANGED <<stored, cookie>>
      BY <1>3 DEF Fire
    <2> HIDE DEF w
    <2> QED
      BY <2>0, <2>1, <2>2, <1>t, OneTabChanges DEF ConsentTypeOK, ConsentIInv, RefusalIsFinal
  <1>4. ASSUME NEW t \in Tabs, NEW analytics \in BOOLEAN, Decide(t, analytics)
        PROVE ConsentIInv'
    <2> DEFINE r == [analytics |-> analytics, current |-> TRUE]
               v == [tab[t] EXCEPT !.overrun = tab[t].timers # {}]
               w == AfterDecision(v, r)
    <2>0. tab[t] \in TabStates /\ tab[t].at = "open"
      BY <1>4, <1>t DEF Decide, ConsentTypeOK
    <2>1. r \in Record
      BY DEF Record
    <2>2. w \in TabStates /\ w.at = "open" /\ w.heard = r
      BY <2>0, <2>1 DEF AfterDecision, Disabled, TabStates
    <2>3. Refuses(r) /\ ~w.overrun => w.timers = {} /\ ~w.on
      BY <2>0 DEF AfterDecision, Disabled, TabStates, Refuses
    <2>4. tab' = [tab EXCEPT ![t] = w] /\ stored' = r /\ cookie' = r
      BY <1>4 DEF Decide
    <2> HIDE DEF w, v, r
    <2> QED
      BY <2>1, <2>2, <2>3, <2>4, OneTabChanges
  <1>5. ASSUME NEW t \in Tabs, TrackEvent(t) PROVE ConsentIInv'
    <2> DEFINE w == InitIfAllowed([tab[t] EXCEPT !.heard = ReadConsent], ReadConsent)
    <2>0. tab[t] \in TabStates /\ tab[t].at = "open" /\ AnalyticsAllowed(ReadConsent)
      BY <1>5, <1>t DEF TrackEvent, ConsentTypeOK
    <2>1. w \in TabStates /\ w.at = "open" /\ w.heard = ReadConsent
      BY <2>0, <1>r DEF InitIfAllowed, TabStates
    <2>2. tab' = [tab EXCEPT ![t] = w] /\ UNCHANGED <<stored, cookie>>
      BY <1>5 DEF TrackEvent
    <2> HIDE DEF w
    <2> QED
      BY <2>0, <2>1, <2>2, <1>t, OneTabChanges DEF ConsentTypeOK, Refuses
  <1>6. ASSUME NEW t \in Tabs, ScriptFails(t) PROVE ConsentIInv'
    <2> DEFINE w == [tab[t] EXCEPT !.loaded = FALSE]
    <2>0. tab[t] \in TabStates
      BY <1>t DEF ConsentTypeOK
    <2>1. /\ w \in TabStates /\ w.at = tab[t].at /\ w.heard = tab[t].heard
          /\ w.timers = tab[t].timers /\ w.on = tab[t].on /\ w.overrun = tab[t].overrun
      BY <2>0 DEF TabStates
    <2>2. tab' = [tab EXCEPT ![t] = w] /\ UNCHANGED <<stored, cookie>>
      BY <1>6, <1>t DEF ScriptFails, ConsentTypeOK
    <2> HIDE DEF w
    <2> QED
      BY <2>1, <2>2, <1>t, OneTabChanges DEF ConsentTypeOK, ConsentIInv, RefusalIsFinal
  <1>7. ASSUME NEW t \in Tabs, CloseTab(t) PROVE ConsentIInv'
    <2>1. Closed \in TabStates /\ Closed.at = "closed" /\ Closed.timers = {}
      BY DEF Closed, TabStates
    <2>2. tab' = [tab EXCEPT ![t] = Closed] /\ UNCHANGED <<stored, cookie>>
      BY <1>7 DEF CloseTab
    <2> QED
      BY <2>1, <2>2, <1>t, OneTabChanges DEF ConsentTypeOK
  <1>8. CASE LoseCookie \/ LoseStorage
    BY <1>8 DEF LoseCookie, LoseStorage, ConsentIInv, ConsentTypeOK, RefusalIsFinal
  <1>9. CASE NewVersion
    <2>1. stored' \in Record \cup {NoRecord} /\ cookie' \in Record \cup {NoRecord}
      BY <1>9, <1>t DEF NewVersion, ConsentTypeOK, Record
    <2> QED
      BY <1>9, <2>1 DEF NewVersion, ConsentIInv, ConsentTypeOK, RefusalIsFinal
  <1>10. CASE UNCHANGED consentVars
    BY <1>10 DEF consentVars, ConsentIInv, ConsentTypeOK, RefusalIsFinal, Refuses,
                 AnalyticsAllowed, Current
  <1> QED
    BY <1>1, <1>2, <1>3, <1>4, <1>5, <1>6, <1>7, <1>8, <1>9, <1>10 DEF ConsentNext

\* For any number of tabs: one that has heard a refusal under the texts of now, clicked
\* there when no start was scheduled or made before it was loaded, does not measure.
THEOREM RefusalAlwaysHolds == ConsentSpec => []RefusalHolds
  <1>1. ConsentIInv => RefusalHolds
    BY DEF ConsentIInv, RefusalIsFinal, RefusalHolds, Settled
  <1> QED
    BY <1>1, ConsentInitIsSound, ConsentStepIsSound, PTL DEF ConsentSpec

\* What tabs keep and schedule stays of its type.
THEOREM ConsentTypeCorrect == ConsentSpec => []ConsentTypeOK
  <1>1. ConsentIInv => ConsentTypeOK
    BY DEF ConsentIInv
  <1> QED
    BY <1>1, ConsentInitIsSound, ConsentStepIsSound, PTL DEF ConsentSpec
-----------------------------------------------------------------------------
(* Languages.                                                              *)

\* How many redirects an address can still cost.
RedirectsLeft(p) == IF p = English THEN 2 ELSE IF p = Bare THEN 1 ELSE 0

\* What Next fetches is for the frame that is there: English, or the frame's language.
FetchFitsFrame ==
    travel # NoTravel =>
        /\ travel.hops + RedirectsLeft(travel.to) <= 2
        /\ ~travel.document =>
              /\ shown # NoPage
              /\ travel.to = Bare \/ (travel.to \in Prefixed /\ travel.to = shown.frame)

\* What was chosen is in the cookie, or in the address under way, and in the frame
\* unless a document is to replace it.
ChoiceIsKept ==
    wish # NoTongue /\ ~crossed =>
        /\ \/ jar = wish /\ (travel # NoTravel /\ travel.left => travel.cookie = wish)
           \/ travel # NoTravel /\ travel.document /\ travel.to = wish /\ wish \in Prefixed
        /\ travel # NoTravel /\ travel.document =>
              travel.to = wish \/ travel.to \in {Bare, English}
        /\ shown # NoPage /\ (travel = NoTravel \/ ~travel.document) => shown.frame = wish

LanguageIsTyped ==
    /\ shown \in Views \cup {NoPage} /\ travel \in Travels \cup {NoTravel}
    /\ jar \in Tongues \cup {NoTongue} /\ wish \in Tongues \cup {NoTongue}
    /\ fetched \subseteq Prefixed /\ crossed \in BOOLEAN

LanguageIInv ==
    LanguageIsTyped /\ FetchFitsFrame /\ ChoiceIsKept /\ AddressTells /\ FrameFits

LEMMA LanguagesInitIsSound == LanguagesInit => LanguageIInv
  BY LanguageParameters
  DEF LanguagesInit, LanguageIInv, LanguageIsTyped, FetchFitsFrame, ChoiceIsKept,
      AddressTells, FrameFits

\* What the middleware answers, for each kind of address.
LEMMA RepliesAre ==
  ASSUME NEW p \in Addresses, NEW r, r.reads \in BOOLEAN, NEW reply \in Replies(p, r)
  PROVE  /\ p = English => reply = [page |-> NoTongue, to |-> Bare, sets |-> NoTongue]
         /\ p \in Prefixed => reply = [page |-> p, to |-> Bare, sets |-> p]
         /\ p = Bare =>
              \/ /\ r.reads /\ r.cookie \in Prefixed
                 /\ reply = [page |-> NoTongue, to |-> r.cookie, sets |-> NoTongue]
              \/ /\ r.reads /\ r.cookie = NoTongue /\ r.asks \in Prefixed
                 /\ reply = [page |-> NoTongue, to |-> r.asks, sets |-> r.asks]
              \/ /\ reply = [page |-> English, to |-> Bare, sets |-> NoTongue]
                 /\ r.reads => r.cookie \notin Prefixed
  <1>1. CASE p = English
    BY <1>1, LanguageParameters DEF Replies, Redirect, Prefixed
  <1>2. CASE p \in Prefixed
    <2>1. AtBare(p, r) = Page(p)
      BY <1>2 DEF AtBare
    <2>2. reply = [Page(p) EXCEPT !.sets = p]
      BY <1>2, <2>1 DEF Replies, Prefixed
    <2> QED
      BY <1>2, <2>2, LanguageParameters DEF Page, Prefixed
  <1>3. CASE p = Bare
    <2>1. NoTongue \notin Prefixed /\ Bare \notin Prefixed /\ Bare # English
      BY LanguageParameters DEF Prefixed
    <2>2. reply = AtBare(NoTongue, r)
      BY <1>3, <2>1 DEF Replies
    <2> QED
      BY <1>3, <2>1, <2>2 DEF AtBare, Page, Redirect, PrefixOf, Prefixed
  <1> QED
    BY <1>1, <1>2, <1>3 DEF Addresses, Prefixed

\* The addresses a page names as its own and as its translations are served.
LEMMA AlternatesAreServed == AlternatesServe
  <1> SUFFICES ASSUME NEW l \in Tongues
               PROVE  /\ Replies(PrefixOf(l), [reads |-> FALSE, cookie |-> NoTongue,
                                               asks |-> prefers])
                           \subseteq {[Page(l) EXCEPT !.sets = c] : c \in {l, NoTongue}}
                      /\ \A r \in Replies(PrefixOf(l), [reads |-> TRUE, cookie |-> l,
                                                        asks |-> prefers]) : r.page = l
      BY DEF AlternatesServe
  <1>1. CASE l = English
    <2>1. PrefixOf(l) = Bare /\ Bare # English /\ Bare \notin Prefixed /\ NoTongue \notin Prefixed
      BY <1>1, LanguageParameters DEF PrefixOf, Prefixed
    <2>2. \A c : Replies(Bare, [reads |-> FALSE, cookie |-> c, asks |-> prefers]) = {Page(l)}
      BY <1>1, <2>1 DEF Replies, AtBare
    <2>3. Replies(Bare, [reads |-> TRUE, cookie |-> l, asks |-> prefers]) = {Page(l)}
      BY <1>1, <2>1, LanguageParameters DEF Replies, AtBare, Prefixed
    <2>4. [Page(l) EXCEPT !.sets = NoTongue] = Page(l) /\ Page(l).page = l
      BY DEF Page
    <2> QED
      BY <2>1, <2>2, <2>3, <2>4
  <1>2. CASE l # English
    <2>1. PrefixOf(l) = l /\ l \in Prefixed
      BY <1>2 DEF PrefixOf, Prefixed
    <2>2. \A r : Replies(l, r) = {[Page(l) EXCEPT !.sets = l]}
      BY <1>2, <2>1 DEF Replies, AtBare
    <2>3. [Page(l) EXCEPT !.sets = l].page = l
      BY DEF Page
    <2> QED
      BY <2>1, <2>2, <2>3
  <1> QED
    BY <1>1, <1>2

\* A navigation begins: a document, or a fetch for a frame there is.
LEMMA GoingIsSound ==
  ASSUME LanguageIInv, NEW p \in Addresses, NEW d \in BOOLEAN, Go(p, d),
         ~d => shown # NoPage /\ (p = Bare \/ (p \in Prefixed /\ p = shown.frame)),
         UNCHANGED shown, jar' \in Tongues \cup {NoTongue}, fetched' \subseteq Prefixed,
         wish' \in Tongues \cup {NoTongue}, crossed' \in BOOLEAN,
         wish' # NoTongue /\ ~crossed' =>
           /\ jar' = wish' \/ (d /\ p = wish' /\ wish' \in Prefixed)
           /\ d => p = wish' \/ p \in {Bare, English}
           /\ ~d => shown.frame = wish'
  PROVE  LanguageIInv'
  <1>1. travel' \in Travels
    BY LanguageParameters DEF Go, Travels
  <1>2. /\ travel' # NoTravel /\ travel'.to = p /\ travel'.document = d
        /\ ~travel'.left /\ travel'.hops = 0
    BY <1>1, LanguageParameters DEF Go
  <1>3. RedirectsLeft(p) \in 0..2
    BY DEF RedirectsLeft
  <1>4. LanguageIsTyped' /\ AddressTells' /\ FrameFits'
    BY <1>1 DEF LanguageIInv, LanguageIsTyped, AddressTells, FrameFits
  <1>5. FetchFitsFrame'
    BY <1>2, <1>3 DEF FetchFitsFrame, LanguageIInv
  <1>6. ChoiceIsKept'
    BY <1>2 DEF ChoiceIsKept
  <1> QED
    BY <1>4, <1>5, <1>6 DEF LanguageIInv

\* An answer arrives: a page, or a redirect to where the page is.
LEMMA ArrivingIsSound == LanguageIInv /\ Arrive => LanguageIInv'
  <1> SUFFICES ASSUME LanguageIInv, Arrive PROVE LanguageIInv'
      OBVIOUS
  <1> DEFINE r == [reads |-> travel.document, cookie |-> travel.cookie, asks |-> prefers]
  <1>t. /\ travel \in Travels /\ travel # NoTravel /\ travel.left
        /\ travel.to \in Addresses /\ travel.document \in BOOLEAN
        /\ travel.hops \in 0..MaxHops /\ shown \in Views \cup {NoPage}
        /\ UNCHANGED <<prefers, fetched, wish, crossed>>
    BY DEF Arrive, LanguageIInv, LanguageIsTyped, Travels
  <1>p. /\ English \in Tongues /\ Bare \notin Tongues /\ NoTongue \notin Tongues /\ MaxHops \in Nat
        /\ NoPage \notin Views /\ NoTravel \notin Travels
    BY LanguageParameters
  <1>f. FetchFitsFrame /\ ChoiceIsKept /\ AddressTells /\ FrameFits /\ LanguageIsTyped
    BY DEF LanguageIInv
  <1>1. PICK reply \in Replies(travel.to, r) :
          /\ jar' = IF reply.sets = NoTongue THEN jar ELSE reply.sets
          /\ IF reply.page = NoTongue
             THEN /\ travel.hops < MaxHops
                  /\ travel' = [travel EXCEPT !.to = reply.to, !.left = FALSE, !.hops = @ + 1]
                  /\ UNCHANGED shown
             ELSE /\ travel' = NoTravel
                  /\ shown' = [prefix |-> travel.to, own |-> reply.page,
                               frame |-> IF travel.document THEN reply.page ELSE shown.frame]
    BY DEF Arrive
  <1>2. /\ travel.to = English => reply = [page |-> NoTongue, to |-> Bare, sets |-> NoTongue]
        /\ travel.to \in Prefixed => reply = [page |-> travel.to, to |-> Bare, sets |-> travel.to]
        /\ travel.to = Bare =>
              \/ /\ travel.document /\ travel.cookie \in Prefixed
                 /\ reply = [page |-> NoTongue, to |-> travel.cookie, sets |-> NoTongue]
              \/ /\ travel.document /\ travel.cookie = NoTongue /\ prefers \in Prefixed
                 /\ reply = [page |-> NoTongue, to |-> prefers, sets |-> prefers]
              \/ /\ reply = [page |-> English, to |-> Bare, sets |-> NoTongue]
                 /\ travel.document => travel.cookie \notin Prefixed
    <2>1. /\ r.reads = travel.document /\ r.cookie = travel.cookie /\ r.asks = prefers
          /\ r.reads \in BOOLEAN
      BY <1>t
    <2> HIDE DEF r
    <2> QED
      BY <1>t, <2>1, RepliesAre
  <1>3. travel.to \in {Bare, English} \cup Prefixed
    BY <1>t DEF Addresses, Prefixed
  <1>4. CASE reply.page = NoTongue
    <2>1. /\ travel.hops < MaxHops /\ shown' = shown
          /\ travel' = [travel EXCEPT !.to = reply.to, !.left = FALSE, !.hops = @ + 1]
      BY <1>1, <1>4
    <2>2. \/ travel.to = English /\ reply.to = Bare /\ jar' = jar
          \/ /\ travel.to = Bare /\ travel.document /\ travel.cookie \in Prefixed
             /\ reply.to = travel.cookie /\ jar' = jar
          \/ /\ travel.to = Bare /\ travel.document /\ travel.cookie = NoTongue
             /\ reply.to \in Prefixed /\ jar' = reply.to
      BY <1>1, <1>2, <1>3, <1>4, <1>p DEF Prefixed
    <2>3. /\ travel'.to = reply.to /\ ~travel'.left /\ travel'.hops = travel.hops + 1
          /\ travel'.document = travel.document /\ travel' \in Travels
      <3>1. reply.to \in Addresses
        BY <2>2 DEF Addresses, Prefixed
      <3>2. travel.hops + 1 \in 0..MaxHops
        BY <1>t, <1>p, <2>1
      <3> QED
        BY <1>t, <2>1, <3>1, <3>2 DEF Travels
    <2>4. LanguageIsTyped' /\ AddressTells' /\ FrameFits'
      BY <1>t, <1>p, <1>f, <2>1, <2>2, <2>3
      DEF LanguageIsTyped, AddressTells, FrameFits, Prefixed
    <2>5. FetchFitsFrame'
      BY <1>t, <1>p, <1>f, <2>1, <2>2, <2>3 DEF FetchFitsFrame, RedirectsLeft, Prefixed, Travels
    <2>6. ChoiceIsKept'
      BY <1>t, <1>p, <1>f, <2>1, <2>2, <2>3 DEF ChoiceIsKept, Prefixed, LanguageIsTyped
    <2> QED
      BY <2>4, <2>5, <2>6 DEF LanguageIInv
  <1>5. CASE reply.page # NoTongue
    <2>1. /\ travel' = NoTravel
          /\ shown' = [prefix |-> travel.to, own |-> reply.page,
                       frame |-> IF travel.document THEN reply.page ELSE shown.frame]
      BY <1>1, <1>5
    <2>2. \/ travel.to \in Prefixed /\ reply.page = travel.to /\ jar' = travel.to
          \/ /\ travel.to = Bare /\ reply.page = English /\ jar' = jar
             /\ travel.document => travel.cookie \notin Prefixed
      BY <1>1, <1>2, <1>3, <1>5, <1>p DEF Prefixed
    <2>3. ~travel.document => /\ shown \in Views /\ shown.frame \in Tongues
                              /\ travel.to = Bare \/ travel.to = shown.frame
      BY <1>t, <1>f DEF FetchFitsFrame, Views
    <2>4. reply.page \in Tongues /\ shown' \in Views /\ jar' \in Tongues \cup {NoTongue}
      BY <1>t, <1>p, <1>f, <2>1, <2>2, <2>3 DEF Views, Prefixed, LanguageIsTyped
    <2>5. LanguageIsTyped' /\ FetchFitsFrame'
      BY <1>t, <1>f, <2>1, <2>4 DEF LanguageIsTyped, FetchFitsFrame
    <2>6. AddressTells' /\ FrameFits'
      BY <1>p, <2>1, <2>2, <2>3 DEF AddressTells, FrameFits, TongueOf, Prefixed
    <2>7. ChoiceIsKept'
      BY <1>t, <1>p, <1>f, <2>1, <2>2, <2>3 DEF ChoiceIsKept, Prefixed, LanguageIsTyped
    <2> QED
      BY <2>5, <2>6, <2>7 DEF LanguageIInv
  <1> QED
    BY <1>4, <1>5

LEMMA LanguagesStepIsSound == LanguageIInv /\ [LanguagesNext]_languageVars => LanguageIInv'
  <1> SUFFICES ASSUME LanguageIInv, [LanguagesNext]_languageVars PROVE LanguageIInv'
      OBVIOUS
  <1>p. /\ English \in Tongues /\ Bare \notin Tongues /\ NoTongue \notin Tongues
        /\ NoPage \notin Views /\ NoTravel \notin Travels
    BY LanguageParameters
  <1>f. FetchFitsFrame /\ ChoiceIsKept /\ AddressTells /\ FrameFits /\ LanguageIsTyped
    BY DEF LanguageIInv
  <1>a. /\ Bare \in Addresses /\ Prefixed \subseteq Tongues /\ English \notin Prefixed
        /\ \A l \in Tongues : /\ PrefixOf(l) \in Addresses
                              /\ PrefixOf(l) = Bare \/ (PrefixOf(l) = l /\ l \in Prefixed)
                              /\ l = English => PrefixOf(l) = Bare
    BY DEF Addresses, Prefixed, PrefixOf
  <1>s. shown # NoPage => shown.frame \in Tongues
    BY <1>f DEF LanguageIsTyped, Views
  <1>w. Renounced \in Tongues \cup {NoTongue}
        /\ (Renounced # NoTongue => travel = NoTravel /\ Renounced = wish)
    BY <1>f DEF Renounced, LanguageIsTyped
  <1>1. ASSUME NEW p \in Addresses, Visit(p) PROVE LanguageIInv'
    <2>1. Go(p, TRUE) /\ UNCHANGED <<jar, shown, fetched>>
      BY <1>1 DEF Visit
    <2>2. CASE p \in Prefixed
      <3>1. wish' = p /\ crossed' = FALSE
        BY <1>1, <2>2 DEF Visit
      <3> QED
        BY <1>a, <1>f, <2>1, <2>2, <3>1, GoingIsSound DEF LanguageIsTyped
    <2>3. CASE p \notin Prefixed
      <3>1. wish' = Renounced /\ crossed' = crossed
        BY <1>1, <2>3 DEF Visit
      <3>2. p \in {Bare, English}
        BY <2>3 DEF Addresses, Prefixed
      <3>3. wish' # NoTongue /\ ~crossed' => jar' = wish'
        BY <1>f, <1>w, <2>1, <3>1 DEF ChoiceIsKept
      <3> QED
        BY <1>f, <1>w, <2>1, <3>1, <3>2, <3>3, GoingIsSound DEF LanguageIsTyped
    <2> QED
      BY <2>2, <2>3
  <1>2. ASSUME NEW d \in BOOLEAN, FollowLocaleLink(d) PROVE LanguageIInv'
    <2> DEFINE p == PrefixOf(shown.frame)
    <2>1. /\ Go(p, d) /\ shown # NoPage /\ wish' = Renounced
          /\ UNCHANGED <<jar, shown, fetched, crossed>>
      BY <1>2 DEF FollowLocaleLink
    <2>2. p \in Addresses /\ (p = Bare \/ (p \in Prefixed /\ p = shown.frame))
      BY <1>a, <1>s, <2>1
    <2>3. wish' # NoTongue /\ ~crossed' => jar' = wish' /\ shown.frame = wish'
      BY <1>f, <1>w, <2>1 DEF ChoiceIsKept
    <2> HIDE DEF p
    <2> QED
      BY <1>f, <1>w, <2>1, <2>2, <2>3, GoingIsSound DEF LanguageIsTyped
  <1>3. ASSUME NEW d \in BOOLEAN, FollowPlainLink(d) PROVE LanguageIInv'
    <2>1. /\ Go(Bare, d) /\ shown # NoPage /\ wish' = Renounced
          /\ UNCHANGED <<jar, shown, fetched, crossed>>
      BY <1>3 DEF FollowPlainLink
    <2>2. wish' # NoTongue /\ ~crossed' => jar' = wish' /\ shown.frame = wish'
      BY <1>f, <1>w, <2>1 DEF ChoiceIsKept
    <2> QED
      BY <1>a, <1>f, <1>w, <2>1, <2>2, GoingIsSound DEF LanguageIsTyped
  <1>4. ASSUME NEW l \in Tongues, Choose(l) PROVE LanguageIInv'
    <2>1. /\ Go(PrefixOf(l), TRUE) /\ jar' = l /\ wish' = l /\ crossed' = FALSE
          /\ UNCHANGED <<shown, fetched>>
      BY <1>4 DEF Choose
    <2>2. PrefixOf(l) \in Addresses /\ PrefixOf(l) \in {l, Bare}
      BY <1>a
    <2> QED
      BY <1>a, <1>f, <2>1, <2>2, GoingIsSound DEF LanguageIsTyped
  <1>5. ASSUME NEW l \in Tongues, SetAside(l), fetched' \subseteq fetched PROVE LanguageIInv'
    <2>1. /\ jar' = l /\ crossed' = (crossed \/ l # wish)
          /\ UNCHANGED <<shown, travel, wish>>
      BY <1>5 DEF SetAside
    <2>2. LanguageIsTyped' /\ FetchFitsFrame' /\ AddressTells' /\ FrameFits'
      BY <1>f, <1>5, <2>1 DEF LanguageIsTyped, FetchFitsFrame, AddressTells, FrameFits
    <2>3. ChoiceIsKept'
      BY <1>f, <2>1 DEF ChoiceIsKept, LanguageIsTyped
    <2> QED
      BY <2>2, <2>3 DEF LanguageIInv
  <1>6. CASE Depart
    <2>1. /\ travel \in Travels /\ travel # NoTravel /\ ~travel.left
          /\ travel' = [travel EXCEPT !.left = TRUE, !.cookie = jar]
          /\ UNCHANGED <<jar, shown, fetched, wish, crossed>>
      BY <1>6, <1>f DEF Depart, LanguageIsTyped
    <2>2. /\ travel' \in Travels /\ travel' # NoTravel /\ travel'.left /\ travel'.cookie = jar
          /\ travel'.to = travel.to /\ travel'.document = travel.document
          /\ travel'.hops = travel.hops
      BY <1>p, <1>f, <2>1 DEF Travels, LanguageIsTyped
    <2>3. LanguageIsTyped' /\ FetchFitsFrame' /\ AddressTells' /\ FrameFits'
      BY <1>f, <2>1, <2>2 DEF LanguageIsTyped, FetchFitsFrame, AddressTells, FrameFits
    <2>4. ChoiceIsKept'
      BY <1>f, <2>1, <2>2 DEF ChoiceIsKept
    <2> QED
      BY <2>3, <2>4 DEF LanguageIInv
  <1>7. CASE Prefetch
    BY <1>7, <1>f, <1>s DEF Prefetch, LanguageIInv, LanguageIsTyped, FetchFitsFrame, ChoiceIsKept,
                            AddressTells, FrameFits
  <1>8. CASE UNCHANGED languageVars
    BY <1>8, <1>f DEF languageVars, LanguageIInv, LanguageIsTyped, FetchFitsFrame,
                      ChoiceIsKept, AddressTells, FrameFits
  <1>9. ASSUME NEW l \in Tongues, Prefetched(l) \/ Elsewhere(l) PROVE LanguageIInv'
    <2>1. SetAside(l) /\ fetched' \subseteq fetched
      BY <1>9 DEF Prefetched, Elsewhere
    <2> QED
      BY <1>5, <2>1
  <1> QED
    BY <1>1, <1>2, <1>3, <1>4, <1>6, <1>7, <1>8, <1>9, ArrivingIsSound DEF LanguagesNext

\* For any languages and any interleaving with other tabs: redirects end, a page is in
\* the language of its address, the frame fits it, and a chosen language lasts.
THEOREM LanguagesAreAlwaysSound == LanguagesSpec => []LanguagesAreSound
  <1>1. LanguageIInv => LanguagesAreSound
    <2> SUFFICES ASSUME LanguageIInv PROVE LanguagesAreSound
        OBVIOUS
    <2>1. RedirectsEnd
      <3> SUFFICES ASSUME travel # NoTravel PROVE travel.hops <= 2
          BY DEF RedirectsEnd
      <3>1. travel.hops \in Nat /\ travel.hops + RedirectsLeft(travel.to) <= 2
        BY LanguageParameters DEF LanguageIInv, LanguageIsTyped, FetchFitsFrame, Travels
      <3> QED
        BY <3>1 DEF RedirectsLeft
    <2>2. ChoiceHolds
      BY DEF LanguageIInv, ChoiceIsKept, ChoiceHolds
    <2> QED
      BY <2>1, <2>2, AlternatesAreServed DEF LanguageIInv, LanguagesAreSound
  <1> QED
    BY <1>1, LanguagesInitIsSound, LanguagesStepIsSound, PTL DEF LanguagesSpec

\* Both choices of a visitor hold, however the two go on beside each other.
THEOREM ChoicesAlwaysHold == ConsentSpec /\ LanguagesSpec => []ChoicesHold
  <1>1. RefusalHolds /\ LanguagesAreSound => ChoicesHold
    BY DEF ChoicesHold
  <1> QED
    BY <1>1, RefusalAlwaysHolds, LanguagesAreAlwaysSound, PTL

-----------------------------------------------------------------------------
(* Sets in an order.                                                       *)

StrictOrder(R, S) ==
    /\ \A a \in S : <<a, a>> \notin R
    /\ \A a, b, c \in S : <<a, b>> \in R /\ <<b, c>> \in R => <<a, c>> \in R
    /\ \A a, b \in S : a = b \/ <<a, b>> \in R \/ <<b, a>> \in R
Rank(R, S, r) == Cardinality({x \in S : <<x, r>> \in R})

\* The ranks of a finite set in a strict order are the numbers below its size.
LEMMA RanksAreNumbers ==
  ASSUME NEW S, IsFiniteSet(S), NEW R, StrictOrder(R, S)
  PROVE  [r \in S |-> Rank(R, S, r)] \in Bijection(S, 0..(Cardinality(S) - 1))
  <1> DEFINE f == [r \in S |-> Rank(R, S, r)]
             T == 0..(Cardinality(S) - 1)
             Below(r) == {x \in S : <<x, r>> \in R}
  <1>1. Cardinality(S) \in Nat
    BY FS_CardinalityType
  <1>2. ASSUME NEW r \in S
        PROVE IsFiniteSet(Below(r)) /\ Cardinality(Below(r)) \in Nat /\ Cardinality(Below(r)) < Cardinality(S)
    <2>1. Below(r) \in SUBSET S /\ r \notin Below(r)
      BY DEF StrictOrder
    <2>2. /\ IsFiniteSet(Below(r)) /\ Cardinality(Below(r)) <= Cardinality(S)
          /\ Cardinality(Below(r)) # Cardinality(S)
      BY <2>1, FS_Subset
    <2>3. Cardinality(Below(r)) \in Nat
      BY <2>2, FS_CardinalityType
    <2> QED
      BY <1>1, <2>2, <2>3
  <1>3. f \in [S -> T]
    <2>1. ASSUME NEW r \in S PROVE f[r] \in T
      BY <1>1, <1>2 DEF Rank
    <2> QED
      BY <2>1
  <1>4. ASSUME NEW a \in S, NEW b \in S, <<a, b>> \in R PROVE f[a] # f[b]
    <2>1. Below(a) \in SUBSET Below(b)
      BY <1>4 DEF StrictOrder
    <2>2. a \in Below(b) /\ a \notin Below(a)
      BY <1>4 DEF StrictOrder
    <2>3. Cardinality(Below(a)) # Cardinality(Below(b))
      BY <1>2, <2>1, <2>2, FS_Subset
    <2> QED
      BY <2>3 DEF Rank
  <1>5. f \in Injection(S, T)
    <2>1. ASSUME NEW a \in S, NEW b \in S, a # b PROVE f[a] # f[b]
      <3>1. <<a, b>> \in R \/ <<b, a>> \in R
        BY <2>1 DEF StrictOrder
      <3>2. CASE <<a, b>> \in R
        BY <1>4, <3>2
      <3>3. CASE <<b, a>> \in R
        BY <1>4, <3>3
      <3> QED
        BY <3>1, <3>2, <3>3
    <2> QED
      BY <1>3, <2>1 DEF Injection, IsInjective
  <1>6. IsFiniteSet(T) /\ Cardinality(T) = Cardinality(S)
    BY <1>1, FS_Interval
  <1>7. f \in Surjection(S, T)
    BY <1>5, <1>6, FS_Injection
  <1> QED
    BY <1>5, <1>7 DEF Bijection

\* The first n of a finite set are n, or all there are.
LEMMA LeadingAreMany ==
  ASSUME NEW S, IsFiniteSet(S), NEW R, StrictOrder(R, S), NEW n \in Nat
  PROVE  Cardinality({r \in S : Rank(R, S, r) < n}) =
             IF n < Cardinality(S) THEN n ELSE Cardinality(S)
  <1> DEFINE f == [r \in S |-> Rank(R, S, r)]
             L == {r \in S : Rank(R, S, r) < n}
             m == IF n < Cardinality(S) THEN n ELSE Cardinality(S)
             g == [r \in L |-> Rank(R, S, r)]
  <1>1. Cardinality(S) \in Nat
    BY FS_CardinalityType
  <1>2. f \in Bijection(S, 0..(Cardinality(S) - 1))
    BY RanksAreNumbers
  <1>3. \A r \in S : Rank(R, S, r) \in 0..(Cardinality(S) - 1)
    BY <1>2 DEF Bijection, Injection
  <1>4. \A r, s \in S : Rank(R, S, r) = Rank(R, S, s) => r = s
    BY <1>2 DEF Bijection, Injection, IsInjective
  <1>5. \A k \in 0..(Cardinality(S) - 1) : \E r \in S : Rank(R, S, r) = k
    BY <1>2 DEF Bijection, Surjection
  <1>6. m \in Nat /\ m - 1 \in Int
    BY <1>1
  <1>7. g \in Injection(L, 0..(m - 1))
    <2>1. g \in [L -> 0..(m - 1)]
      BY <1>1, <1>3
    <2>2. \A a, b \in L : g[a] = g[b] => a = b
      BY <1>4
    <2> QED
      BY <2>1, <2>2 DEF Injection, IsInjective
  <1>8. g \in Surjection(L, 0..(m - 1))
    <2>1. ASSUME NEW k \in 0..(m - 1) PROVE \E r \in L : g[r] = k
      BY <1>1, <1>5
    <2> QED
      BY <1>7, <2>1 DEF Surjection, Injection
  <1>9. IsFiniteSet(0..(m - 1)) /\ Cardinality(0..(m - 1)) = m
    <2> HIDE DEF m
    <2>1. /\ IsFiniteSet(0..(m - 1))
          /\ Cardinality(0..(m - 1)) = IF 0 > m - 1 THEN 0 ELSE m - 1 - 0 + 1
      BY <1>6, FS_Interval
    <2> QED
      BY <1>6, <2>1
  <1> QED
    BY <1>7, <1>8, <1>9, FS_Injection

-----------------------------------------------------------------------------
(* CatalogSearch.  What a search finds is told of any table s of rows, so  *)
(* that two tables, before and after a row is added, can be compared.      *)

PlaceIn(s, r) == CHOOSE i \in DOMAIN s : s[i] = r
PublicIn(s) == {s[i] : i \in DOMAIN s} \ Fixtures
SameIn(s, r) == {x \in PublicIn(s) : KeyOf[x] = KeyOf[r]}
FirstIn(s, S) == Least({PlaceIn(s, x) : x \in S})
ByKeyIn(s, r) == IF SameIn(s, r) \cap Imported = {} THEN SameIn(s, r)
                                                   ELSE SameIn(s, r) \cap Imported
StandsIn(s, r) == r = s[FirstIn(s, ByKeyIn(s, r))]
TurnIn(s, mode, r) == IF mode = "text" THEN FirstIn(s, SameIn(s, r)) ELSE PlaceIn(s, r)
ByLabelIn(s, mode, a, b) ==
    \/ Label[a] < Label[b]
    \/ Label[a] = Label[b] /\ TurnIn(s, mode, a) < TurnIn(s, mode, b)
PrecedesIn(s, mode, a, b) ==
    IF mode = "colour"
    THEN \/ Popularity[MaterialOf[a]] < Popularity[MaterialOf[b]]
         \/ /\ Popularity[MaterialOf[a]] = Popularity[MaterialOf[b]]
            /\ Nearness[a] < Nearness[b]
         \/ /\ Popularity[MaterialOf[a]] = Popularity[MaterialOf[b]]
            /\ Nearness[a] = Nearness[b] /\ ByLabelIn(s, mode, a, b)
    ELSE ByLabelIn(s, mode, a, b)
FoundIn(s, mode, material) ==
    {r \in PublicIn(s) : /\ IF mode = "colour" THEN r \in Nearby ELSE StandsIn(s, r)
                         /\ material \in {AnyMaterial, MaterialOf[r]}}
BeforeIn(s, mode, material, r) ==
    {x \in FoundIn(s, mode, material) : PrecedesIn(s, mode, x, r)}

\* No row twice, and rows of one name are of one label and material.
TableIsSound(s) ==
    /\ s \in Seq(Rows)
    /\ \A i, j \in DOMAIN s : s[i] = s[j] => i = j
    /\ \A x, y \in PublicIn(s) :
           KeyOf[x] = KeyOf[y] => Label[x] = Label[y] /\ MaterialOf[x] = MaterialOf[y]

\* The naturals are well-founded, as the library proves.
LEMMA LeastIsLeast ==
  ASSUME NEW T \in SUBSET Nat, T # {}
  PROVE  Least(T) \in T /\ \A n \in T : Least(T) <= n
  <1>1. PICK m \in T : \A n \in T : ~(<<n, m>> \in OpToRel(<, Nat))
    BY NatLessThanWellFounded, WFMin
  <1>2. \A n \in T : m <= n
    <2>1. ASSUME NEW n \in T PROVE m <= n
      <3>1. ~(n < m)
        BY <1>1 DEF OpToRel
      <3> QED
        BY <3>1
    <2> QED
      BY <2>1
  <1> QED
    BY <1>2 DEF Least

\* Every row is at its place.
LEMMA RowsHavePlaces ==
  ASSUME NEW s, TableIsSound(s)
  PROVE  /\ \A i \in DOMAIN s : PlaceIn(s, s[i]) = i
         /\ \A r \in PublicIn(s) : r \in Rows /\ PlaceIn(s, r) \in Nat /\ PlaceIn(s, r) \in 1..Len(s)
                                   /\ PlaceIn(s, r) \in DOMAIN s /\ s[PlaceIn(s, r)] = r
  <1>1. DOMAIN s = 1..Len(s) /\ Len(s) \in Nat /\ \A i \in DOMAIN s : s[i] \in Rows
    BY DEF TableIsSound
  <1>2. \A i \in DOMAIN s : PlaceIn(s, s[i]) = i
    BY DEF TableIsSound, PlaceIn
  <1>3. ASSUME NEW r \in PublicIn(s)
        PROVE /\ r \in Rows /\ PlaceIn(s, r) \in Nat /\ PlaceIn(s, r) \in 1..Len(s)
              /\ PlaceIn(s, r) \in DOMAIN s /\ s[PlaceIn(s, r)] = r
    <2>1. PICK i \in DOMAIN s : s[i] = r
      BY DEF PublicIn
    <2> QED
      BY <1>1, <1>2, <2>1
  <1> QED
    BY <1>2, <1>3

\* There are finitely many.
LEMMA PublicIsFinite ==
  ASSUME NEW s, TableIsSound(s)
  PROVE  IsFiniteSet(PublicIn(s))
  <1> DEFINE f == [r \in PublicIn(s) |-> PlaceIn(s, r)]
  <1>1. Len(s) \in Nat
    BY DEF TableIsSound
  <1>2. f \in Injection(PublicIn(s), 1..Len(s))
    <2>1. f \in [PublicIn(s) -> 1..Len(s)]
      BY RowsHavePlaces
    <2>2. \A a, b \in PublicIn(s) : f[a] = f[b] => a = b
      BY RowsHavePlaces
    <2> QED
      BY <2>1, <2>2 DEF Injection, IsInjective
  <1>3. IsFiniteSet(1..Len(s))
    BY <1>1, FS_Interval
  <1> QED
    BY <1>2, <1>3, FS_Injection

\* The first place of some rows is that of one of them.
LEMMA FirstIsOfOne ==
  ASSUME NEW s, TableIsSound(s), NEW S \in SUBSET PublicIn(s), S # {}
  PROVE  \E x \in S : /\ FirstIn(s, S) = PlaceIn(s, x)
                      /\ \A y \in S : PlaceIn(s, x) <= PlaceIn(s, y)
  <1> DEFINE T == {PlaceIn(s, x) : x \in S}
  <1>1. T \in SUBSET Nat /\ T # {}
    BY RowsHavePlaces
  <1>2. Least(T) \in T /\ \A n \in T : Least(T) <= n
    BY <1>1, LeastIsLeast
  <1> QED
    BY <1>2 DEF FirstIn

\* What stands for a name is the first of its rows, or of the imported ones.
LEMMA StandingIsFirst ==
  ASSUME NEW s, TableIsSound(s), NEW r \in PublicIn(s)
  PROVE  /\ ByKeyIn(s, r) \subseteq SameIn(s, r) /\ ByKeyIn(s, r) # {}
         /\ StandsIn(s, r) <=> /\ r \in ByKeyIn(s, r)
                               /\ \A x \in ByKeyIn(s, r) : PlaceIn(s, r) <= PlaceIn(s, x)
  <1>1. ByKeyIn(s, r) \subseteq SameIn(s, r) /\ ByKeyIn(s, r) # {}
    BY DEF ByKeyIn, SameIn
  <1>2. ByKeyIn(s, r) \in SUBSET PublicIn(s)
    BY <1>1 DEF SameIn
  <1>3. PICK y \in ByKeyIn(s, r) : /\ FirstIn(s, ByKeyIn(s, r)) = PlaceIn(s, y)
                                   /\ \A x \in ByKeyIn(s, r) : PlaceIn(s, y) <= PlaceIn(s, x)
    BY <1>1, <1>2, FirstIsOfOne
  <1>4. StandsIn(s, r) <=> r = y
    BY <1>2, <1>3, RowsHavePlaces DEF StandsIn
  <1>5. ASSUME r \in ByKeyIn(s, r), \A x \in ByKeyIn(s, r) : PlaceIn(s, r) <= PlaceIn(s, x)
        PROVE r = y
    <2>1. PlaceIn(s, r) = PlaceIn(s, y)
      BY <1>2, <1>3, <1>5, RowsHavePlaces
    <2> QED
      BY <1>2, <2>1, RowsHavePlaces
  <1> QED
    BY <1>1, <1>3, <1>4, <1>5

\* One row stands for each name.
LEMMA OneStands ==
  ASSUME NEW s, TableIsSound(s), NEW x \in PublicIn(s), NEW y \in PublicIn(s),
         KeyOf[x] = KeyOf[y], StandsIn(s, x), StandsIn(s, y)
  PROVE  x = y
  <1>1. ByKeyIn(s, x) = ByKeyIn(s, y)
    BY DEF ByKeyIn, SameIn
  <1> QED
    BY <1>1 DEF StandsIn

\* Nothing precedes itself.
LEMMA NothingPrecedesItself ==
  ASSUME NEW s, TableIsSound(s), NEW r \in PublicIn(s), NEW mode
  PROVE  ~PrecedesIn(s, mode, r, r)
  <1>1. r \in Rows /\ PlaceIn(s, r) \in Nat
    BY RowsHavePlaces
  <1>2. TurnIn(s, mode, r) \in Nat
    <2>1. SameIn(s, r) \in SUBSET PublicIn(s) /\ r \in SameIn(s, r)
      BY DEF SameIn
    <2>2. FirstIn(s, SameIn(s, r)) \in Nat
      BY <2>1, FirstIsOfOne, RowsHavePlaces
    <2> QED
      BY <1>1, <2>2 DEF TurnIn
  <1>3. Label[r] \in Nat /\ Nearness[r] \in Nat /\ Popularity[MaterialOf[r]] \in Nat
    BY <1>1, SearchParameters
  <1> QED
    BY <1>2, <1>3 DEF PrecedesIn, ByLabelIn

\* Fewer rows precede one that is found than are found.
LEMMA FewerComeBefore ==
  ASSUME NEW s, TableIsSound(s), NEW mode, NEW material, NEW r \in FoundIn(s, mode, material)
  PROVE  /\ IsFiniteSet(FoundIn(s, mode, material)) /\ IsFiniteSet(BeforeIn(s, mode, material, r))
         /\ Cardinality(FoundIn(s, mode, material)) \in Nat
         /\ Cardinality(BeforeIn(s, mode, material, r)) \in Nat
         /\ Cardinality(BeforeIn(s, mode, material, r)) < Cardinality(FoundIn(s, mode, material))
  <1> DEFINE S == FoundIn(s, mode, material)
             B == BeforeIn(s, mode, material, r)
  <1>1. S \in SUBSET PublicIn(s) /\ B \in SUBSET S
    BY DEF FoundIn, BeforeIn
  <1>2. IsFiniteSet(S) /\ Cardinality(S) \in Nat
    BY <1>1, PublicIsFinite, FS_Subset, FS_CardinalityType
  <1>3. r \notin B
    BY <1>1, NothingPrecedesItself DEF BeforeIn
  <1>4. IsFiniteSet(B) /\ Cardinality(B) <= Cardinality(S) /\ Cardinality(B) # Cardinality(S)
    BY <1>1, <1>2, <1>3, FS_Subset
  <1>5. Cardinality(B) \in Nat
    BY <1>4, FS_CardinalityType
  <1> QED
    BY <1>2, <1>4, <1>5

\* The order of the labels, and with the number of colours before it.
LabelOrder(s) == {p \in Rows \X Rows : PrecedesIn(s, "preview", p[1], p[2])}

\* Products come one after another by their labels.
LEMMA LabelsAreAnOrder ==
  ASSUME NEW s, TableIsSound(s), NEW S \in SUBSET PublicIn(s)
  PROVE  StrictOrder(LabelOrder(s), S)
  <1>1. \A r \in S : r \in Rows /\ PlaceIn(s, r) \in Nat /\ Label[r] \in Nat
                     /\ TurnIn(s, "preview", r) = PlaceIn(s, r)
    BY RowsHavePlaces, SearchParameters DEF TurnIn
  <1>2. \A a, b \in S : PlaceIn(s, a) = PlaceIn(s, b) => a = b
    BY RowsHavePlaces
  <1>3. \A a, b \in S : <<a, b>> \in LabelOrder(s) <=>
            \/ Label[a] < Label[b]
            \/ Label[a] = Label[b] /\ PlaceIn(s, a) < PlaceIn(s, b)
    BY <1>1 DEF LabelOrder, PrecedesIn, ByLabelIn
  <1> QED
    BY <1>1, <1>2, <1>3 DEF StrictOrder

-----------------------------------------------------------------------------
(* A row is added.                                                         *)

\* t is the table s with the row n, of its own or of the label of its name.
Adds(s, n, t) ==
    /\ TableIsSound(s) /\ n \in Rows /\ n \notin {s[i] : i \in DOMAIN s}
    /\ \A x \in PublicIn(s) : KeyOf[x] = KeyOf[n] =>
           Label[x] = Label[n] /\ MaterialOf[x] = MaterialOf[n]
    /\ t = Append(s, n)

\* It comes last, and the others stay where they are.
LEMMA AddedIsLast ==
  ASSUME NEW s, NEW n, NEW t, Adds(s, n, t)
  PROVE  /\ TableIsSound(t)
         /\ PublicIn(t) = PublicIn(s) \cup ({n} \ Fixtures) /\ n \notin PublicIn(s)
         /\ \A r \in PublicIn(s) : PlaceIn(t, r) = PlaceIn(s, r) /\ PlaceIn(t, r) < PlaceIn(t, n)
  <1>1. /\ DOMAIN s = 1..Len(s) /\ Len(s) \in Nat /\ \A i \in DOMAIN s : s[i] \in Rows
        /\ t \in Seq(Rows) /\ DOMAIN t = 1..(Len(s) + 1)
        /\ \A i \in DOMAIN s : t[i] = s[i]
        /\ t[Len(s) + 1] = n
    BY DEF Adds, TableIsSound
  <1>2. \A i, j \in DOMAIN t : t[i] = t[j] => i = j
    <2>1. \A i \in DOMAIN s : s[i] # n
      BY DEF Adds
    <2>2. \A i, j \in DOMAIN s : s[i] = s[j] => i = j
      BY DEF Adds, TableIsSound
    <2>3. \A i \in DOMAIN t : i \in DOMAIN s \/ i = Len(s) + 1
      BY <1>1
    <2> QED
      BY <1>1, <2>1, <2>2, <2>3
  <1>3. {t[i] : i \in DOMAIN t} = {s[i] : i \in DOMAIN s} \cup {n}
    <2>1. \A i \in DOMAIN t : i \in DOMAIN s \/ i = Len(s) + 1
      BY <1>1
    <2>2. \A i \in DOMAIN s : i \in DOMAIN t
      BY <1>1
    <2>3. Len(s) + 1 \in DOMAIN t
      BY <1>1
    <2> QED
      BY <1>1, <2>1, <2>2, <2>3
  <1>4. PublicIn(t) = PublicIn(s) \cup ({n} \ Fixtures) /\ n \notin PublicIn(s)
    BY <1>3 DEF PublicIn, Adds
  <1>5. TableIsSound(t)
    BY <1>1, <1>2, <1>4 DEF TableIsSound, Adds
  <1>6. PlaceIn(t, n) = Len(s) + 1
    <2>1. Len(s) + 1 \in DOMAIN t
      BY <1>1
    <2> QED
      BY <1>1, <1>5, <2>1, RowsHavePlaces
  <1>7. ASSUME NEW r \in PublicIn(s)
        PROVE PlaceIn(t, r) = PlaceIn(s, r) /\ PlaceIn(t, r) < PlaceIn(t, n)
    <2>1. TableIsSound(s)
      BY DEF Adds
    <2>2. /\ PlaceIn(s, r) \in DOMAIN s /\ s[PlaceIn(s, r)] = r /\ PlaceIn(s, r) \in 1..Len(s)
      BY <2>1, RowsHavePlaces
    <2>3. PlaceIn(s, r) \in DOMAIN t /\ t[PlaceIn(s, r)] = r
      BY <1>1, <2>2
    <2>4. PlaceIn(t, r) = PlaceIn(s, r)
      BY <1>5, <2>3, RowsHavePlaces
    <2> QED
      BY <1>1, <1>6, <2>2, <2>4
  <1> QED
    BY <1>4, <1>5, <1>7

\* The first of some rows stays the first.
LEMMA FirstStays ==
  ASSUME NEW s, NEW n, NEW t, Adds(s, n, t), NEW S \in SUBSET PublicIn(s), S # {},
         NEW T \in SUBSET PublicIn(t), S \subseteq T, T \subseteq S \cup {n}
  PROVE  FirstIn(t, T) = FirstIn(s, S)
  <1>1. TableIsSound(s) /\ TableIsSound(t)
    BY AddedIsLast DEF Adds
  <1>2. PICK x \in S : /\ FirstIn(s, S) = PlaceIn(s, x)
                       /\ \A y \in S : PlaceIn(s, x) <= PlaceIn(s, y)
    BY <1>1, FirstIsOfOne
  <1>3. PICK z \in T : /\ FirstIn(t, T) = PlaceIn(t, z)
                       /\ \A y \in T : PlaceIn(t, z) <= PlaceIn(t, y)
    BY <1>1, FirstIsOfOne
  <1>4. \A r \in S : PlaceIn(t, r) = PlaceIn(s, r) /\ PlaceIn(t, r) < PlaceIn(t, n)
                     /\ PlaceIn(s, r) \in Nat
    BY <1>1, AddedIsLast, RowsHavePlaces
  <1>5. PlaceIn(t, z) \in Nat
    BY <1>1, RowsHavePlaces
  <1>6. z \in S
    BY <1>3, <1>4, <1>5
  <1> QED
    BY <1>2, <1>3, <1>4, <1>6

\* A name keeps its turn, also when the new row is of that name.
LEMMA NamesKeepTheirTurn ==
  ASSUME NEW s, NEW n, NEW t, Adds(s, n, t), NEW r \in PublicIn(s)
  PROVE  /\ TurnIn(t, "text", r) = TurnIn(s, "text", r)
         /\ n \in PublicIn(t) /\ KeyOf[n] = KeyOf[r] => TurnIn(t, "text", n) = TurnIn(s, "text", r)
  <1>1. PublicIn(t) = PublicIn(s) \cup ({n} \ Fixtures)
    BY AddedIsLast
  <1>2. /\ SameIn(s, r) \in SUBSET PublicIn(s) /\ r \in SameIn(s, r)
        /\ SameIn(t, r) \in SUBSET PublicIn(t)
        /\ SameIn(s, r) \subseteq SameIn(t, r) /\ SameIn(t, r) \subseteq SameIn(s, r) \cup {n}
    BY <1>1 DEF SameIn
  <1>3. FirstIn(t, SameIn(t, r)) = FirstIn(s, SameIn(s, r))
    BY <1>2, FirstStays
  <1>4. KeyOf[n] = KeyOf[r] => SameIn(t, n) = SameIn(t, r)
    BY DEF SameIn
  <1> QED
    BY <1>3, <1>4 DEF TurnIn

\* Who did not stand for its name never will, and who does is only replaced by
\* an imported row of its name.
LEMMA StandingIsTaken ==
  ASSUME NEW s, NEW n, NEW t, Adds(s, n, t), NEW r \in PublicIn(s)
  PROVE  /\ StandsIn(t, r) => StandsIn(s, r)
         /\ StandsIn(s, r) /\ ~StandsIn(t, r) =>
               n \in PublicIn(t) /\ KeyOf[n] = KeyOf[r] /\ StandsIn(t, n)
  <1>1. TableIsSound(s)
    BY DEF Adds
  <1>2. /\ TableIsSound(s) /\ TableIsSound(t)
        /\ PublicIn(t) = PublicIn(s) \cup ({n} \ Fixtures) /\ n \notin PublicIn(s)
        /\ \A x \in PublicIn(s) : PlaceIn(t, x) = PlaceIn(s, x) /\ PlaceIn(t, x) < PlaceIn(t, n)
    BY <1>1, AddedIsLast
  <1>3. SameIn(t, r) = SameIn(s, r) \cup {x \in {n} \ Fixtures : KeyOf[x] = KeyOf[r]}
    BY <1>2 DEF SameIn
  <1>4. CASE /\ n \notin Fixtures /\ KeyOf[n] = KeyOf[r] /\ n \in Imported
             /\ SameIn(s, r) \cap Imported = {}
    <2>1. ByKeyIn(t, r) = {n}
      BY <1>3, <1>4 DEF ByKeyIn
    <2>2. ByKeyIn(t, n) = ByKeyIn(t, r)
      BY <1>4 DEF ByKeyIn, SameIn
    <2>3. n \in PublicIn(t) /\ r \in PublicIn(t) /\ r # n
      BY <1>2, <1>4
    <2>4. PlaceIn(t, n) \in Nat
      BY <1>2, <2>3, RowsHavePlaces
    <2>5. StandsIn(t, n)
      BY <1>2, <2>1, <2>2, <2>3, <2>4, StandingIsFirst
    <2>6. ~StandsIn(t, r)
      BY <1>2, <2>1, <2>3, StandingIsFirst
    <2> QED
      BY <1>4, <2>3, <2>5, <2>6
  <1>5. CASE ~(/\ n \notin Fixtures /\ KeyOf[n] = KeyOf[r] /\ n \in Imported
               /\ SameIn(s, r) \cap Imported = {})
    <2>1. /\ ByKeyIn(s, r) \subseteq ByKeyIn(t, r) /\ ByKeyIn(t, r) \subseteq ByKeyIn(s, r) \cup {n}
      BY <1>3, <1>5 DEF ByKeyIn
    <2>2. ByKeyIn(s, r) # {} /\ ByKeyIn(s, r) \in SUBSET PublicIn(s)
      BY <1>2, StandingIsFirst DEF SameIn
    <2>3. ByKeyIn(t, r) \in SUBSET PublicIn(t)
      <3>1. r \in PublicIn(t)
        BY <1>2
      <3> QED
        BY <1>2, <3>1, StandingIsFirst DEF SameIn
    <2>4. FirstIn(t, ByKeyIn(t, r)) = FirstIn(s, ByKeyIn(s, r))
      BY <2>1, <2>2, <2>3, FirstStays
    <2>5. PICK x \in ByKeyIn(s, r) : FirstIn(s, ByKeyIn(s, r)) = PlaceIn(s, x)
      BY <1>2, <2>2, FirstIsOfOne
    <2>6. x \in PublicIn(s) /\ x \in PublicIn(t)
      BY <1>2, <2>2
    <2>7. s[PlaceIn(s, x)] = x /\ t[PlaceIn(t, x)] = x /\ PlaceIn(t, x) = PlaceIn(s, x)
      BY <1>2, <2>6, RowsHavePlaces
    <2>8. StandsIn(t, r) <=> StandsIn(s, r)
      BY <2>4, <2>5, <2>7 DEF StandsIn
    <2> QED
      BY <2>8
  <1> QED
    BY <1>4, <1>5

\* Found again, a row has as many before it as it had, or more.
LEMMA PlacesGrow ==
  ASSUME NEW s, NEW n, NEW t, Adds(s, n, t), NEW mode \in {"text", "colour"}, NEW material,
         NEW r \in FoundIn(s, mode, material), r \in FoundIn(t, mode, material)
  PROVE  Cardinality(BeforeIn(s, mode, material, r)) <= Cardinality(BeforeIn(t, mode, material, r))
  <1> DEFINE B == BeforeIn(s, mode, material, r)
             C == BeforeIn(t, mode, material, r)
             f == [x \in B |-> IF mode = "colour" \/ StandsIn(t, x) THEN x ELSE n]
  <1>1. TableIsSound(s)
    BY DEF Adds
  <1>2. /\ TableIsSound(s) /\ TableIsSound(t)
        /\ PublicIn(t) = PublicIn(s) \cup ({n} \ Fixtures) /\ n \notin PublicIn(s)
        /\ \A x \in PublicIn(s) : PlaceIn(t, x) = PlaceIn(s, x)
    BY <1>1, AddedIsLast
  <1>3. r \in PublicIn(s)
    BY DEF FoundIn
  <1>4. ASSUME NEW x \in B PROVE f[x] \in C
    <2>1. x \in PublicIn(s) /\ x \in FoundIn(s, mode, material) /\ PrecedesIn(s, mode, x, r)
      BY DEF BeforeIn, FoundIn
    <2>2. CASE mode = "colour"
      <3>1. PrecedesIn(t, mode, x, r)
        BY <1>2, <1>3, <2>1, <2>2 DEF PrecedesIn, ByLabelIn, TurnIn
      <3> QED
        BY <1>2, <2>1, <2>2, <3>1 DEF BeforeIn, FoundIn
    <2>3. CASE mode = "text" /\ StandsIn(t, x)
      <3>1. PrecedesIn(t, mode, x, r)
        BY <1>3, <2>1, <2>3, NamesKeepTheirTurn DEF PrecedesIn, ByLabelIn
      <3> QED
        BY <1>2, <2>1, <2>3, <3>1 DEF BeforeIn, FoundIn
    <2>4. CASE mode = "text" /\ ~StandsIn(t, x)
      <3>1. StandsIn(s, x)
        BY <2>1, <2>4 DEF FoundIn
      <3>2. n \in PublicIn(t) /\ KeyOf[n] = KeyOf[x] /\ StandsIn(t, n)
        BY <2>1, <2>4, <3>1, StandingIsTaken
      <3>3. Label[n] = Label[x] /\ MaterialOf[n] = MaterialOf[x]
        BY <2>1, <3>2 DEF Adds
      <3>4. TurnIn(t, "text", n) = TurnIn(s, "text", x) /\ TurnIn(t, "text", r) = TurnIn(s, "text", r)
        BY <1>3, <2>1, <3>2, NamesKeepTheirTurn
      <3>5. PrecedesIn(t, mode, n, r)
        BY <2>1, <2>4, <3>3, <3>4 DEF PrecedesIn, ByLabelIn
      <3> QED
        BY <2>1, <2>4, <3>2, <3>3, <3>5 DEF BeforeIn, FoundIn
    <2> QED
      BY <2>2, <2>3, <2>4
  <1>5. ASSUME NEW x \in B, NEW y \in B, f[x] = f[y] PROVE x = y
    <2>1. /\ x \in PublicIn(s) /\ y \in PublicIn(s)
          /\ mode = "text" => StandsIn(s, x) /\ StandsIn(s, y)
      BY DEF BeforeIn, FoundIn
    <2>2. x # n /\ y # n
      BY <1>2, <2>1
    <2>3. CASE mode = "text" /\ ~StandsIn(t, x) /\ ~StandsIn(t, y)
      <3>1. KeyOf[x] = KeyOf[y]
        BY <2>1, <2>3, StandingIsTaken
      <3> QED
        BY <1>2, <2>1, <2>3, <3>1, OneStands
    <2> QED
      BY <1>5, <2>2, <2>3
  <1>6. f \in Injection(B, C)
    <2>1. f \in [B -> C]
      BY <1>4
    <2> QED
      BY <1>5, <2>1 DEF Injection, IsInjective
  <1>7. IsFiniteSet(C)
    BY <1>2, FewerComeBefore
  <1> QED
    BY <1>6, <1>7, FS_Injection

-----------------------------------------------------------------------------
(* A reader turns the pages.                                               *)

\* What the module says of the table at hand is what is said here of rows.
LEMMA SearchReadsRows ==
  /\ Public = PublicIn(rows)
  /\ \A r : Stands(r) <=> StandsIn(rows, r)
  /\ \A mode, material : Found(mode, material) = FoundIn(rows, mode, material)
  /\ \A mode, a, b : Precedes(mode, a, b) <=> PrecedesIn(rows, mode, a, b)
  <1>1. Public = PublicIn(rows)
    BY DEF Public, PublicIn
  <1>2. \A r : At(r) = PlaceIn(rows, r)
    BY DEF At, PlaceIn
  <1>3. \A S : FirstAt(S) = FirstIn(rows, S)
    BY <1>2 DEF FirstAt, FirstIn
  <1>4. \A r : Same(r) = SameIn(rows, r)
    BY <1>1 DEF Same, SameIn
  <1>5. \A r : Stands(r) <=> StandsIn(rows, r)
    BY <1>3, <1>4 DEF Stands, StandsIn, ByKeyIn
  <1>6. \A mode, r : Turn(mode, r) = TurnIn(rows, mode, r)
    BY <1>2, <1>3, <1>4 DEF Turn, TurnIn
  <1>7. \A mode, a, b : Precedes(mode, a, b) <=> PrecedesIn(rows, mode, a, b)
    BY <1>6 DEF Precedes, PrecedesIn, ByLabelIn
  <1>8. \A mode, material : Found(mode, material) = FoundIn(rows, mode, material)
    BY <1>1, <1>5 DEF Found, FoundIn, ByColour, ByText
  <1> QED
    BY <1>1, <1>5, <1>7, <1>8

\* Behind a page there is another while a row is left.
LEMMA AnotherPageFollows ==
  ASSUME NEW n \in Nat, NEW size \in Nat \ {0}, NEW page \in Nat, page * size < n
  PROVE  /\ (n + size - 1) \div size \in Nat
         /\ page < (n + size - 1) \div size
  <1> DEFINE d == (n + size - 1) \div size
  <1>1. n + size - 1 \in Nat
    OBVIOUS
  <1>2. d \in Nat /\ d * size <= n + size - 1 /\ n + size - 1 < (d + 1) * size
    BY <1>1
  <1> HIDE DEF d
  <1>3. ASSUME d <= page PROVE FALSE
    <2>1. PICK c \in Nat : page = d + c
      BY <1>2, <1>3
    <2>2. page * size = d * size + c * size /\ c * size >= 0 /\ d * size \in Int /\ c * size \in Int
      BY <1>2, <2>1
    <2>3. (d + 1) * size = d * size + size
      BY <1>2
    <2> QED
      BY <1>2, <2>2, <2>3
  <1> QED
    BY <1>2, <1>3 DEF d

\* A row found by a search is of its table, near the colour, of the material.
IsFor(s, k, r) ==
    /\ r \in PublicIn(s)
    /\ k.mode = "colour" => r \in Nearby
    /\ k.material \in {AnyMaterial, MaterialOf[r]}

\* What the reader k has not seen of what was there, and what is not replaced, is
\* on a page to come.
IsDue(s, k, r) ==
    \/ r \in k.seen
    \/ k.mode = "text" /\ ~StandsIn(s, r)
    \/ /\ k.page < k.pages
       /\ k.page * PageSize <= Cardinality(BeforeIn(s, k.mode, k.material, r))

GoesOn(s, k) ==
    /\ k.page \in Nat \ {0} /\ k.pages \in Nat /\ k.mode \in {"none", "text", "colour"}
    /\ k.mode # "none" /\ ~k.skipped => \A r \in k.there : IsFor(s, k, r) /\ IsDue(s, k, r)

\* A page shows the rows of its places.
LEMMA PageShowsItsRows ==
  ASSUME TableIsSound(rows), NEW mode \in {"text", "colour"}, NEW material,
         NEW page \in Nat \ {0}, NEW before, NEW r \in FoundIn(rows, mode, material),
         \/ r \in before.seen
         \/ (page - 1) * PageSize <= Cardinality(BeforeIn(rows, mode, material, r))
  PROVE  IsDue(rows, Shown(mode, material, page, before), r)
  <1> DEFINE S == FoundIn(rows, mode, material)
             c == Cardinality(BeforeIn(rows, mode, material, r))
             k == Shown(mode, material, page, before)
  <1>1. /\ IsFiniteSet(S) /\ Cardinality(S) \in Nat /\ c \in Nat /\ c < Cardinality(S)
    BY FewerComeBefore
  <1>2. S = Found(mode, material) /\ Place(mode, S, r) = c
    BY SearchReadsRows DEF Place, BeforeIn
  <1>3. /\ k.mode = mode /\ k.material = material /\ k.page = page /\ k.pages = Pages(S)
        /\ k.seen = before.seen \cup Slice(mode, S, page)
    BY <1>2 DEF Shown
  <1>4. CASE r \in before.seen \/ c < page * PageSize
    <2>1. r \in before.seen \/ r \in Slice(mode, S, page)
      BY <1>1, <1>2, <1>4 DEF Slice
    <2> QED
      BY <1>3, <2>1 DEF IsDue
  <1>5. CASE ~(c < page * PageSize)
    <2>1. PageSize \in Nat \ {0} /\ page * PageSize \in Nat
      BY SearchParameters
    <2>2. page * PageSize <= c /\ page * PageSize < Cardinality(S)
      BY <1>1, <1>5, <2>1
    <2>3. page < (Cardinality(S) + PageSize - 1) \div PageSize
      BY <1>1, <2>1, <2>2, AnotherPageFollows
    <2>4. page < Pages(S)
      BY <2>3 DEF Pages
    <2> QED
      BY <1>3, <2>2, <2>4 DEF IsDue
  <1> QED
    BY <1>4, <1>5

\* A reader who goes one page on or back, or begins, is shown the page.
LEMMA ShownGoesOn ==
  ASSUME TableIsSound(rows), NEW mode \in {"text", "colour"}, NEW material,
         NEW page \in Nat \ {0}, NEW before,
         ~before.skipped => \A r \in before.there :
             /\ r \in PublicIn(rows) /\ (mode = "colour" => r \in Nearby)
             /\ material \in {AnyMaterial, MaterialOf[r]}
             /\ \/ r \in before.seen
                \/ mode = "text" /\ ~StandsIn(rows, r)
                \/ (page - 1) * PageSize <= Cardinality(BeforeIn(rows, mode, material, r))
  PROVE  GoesOn(rows, Shown(mode, material, page, before))
  <1> DEFINE k == Shown(mode, material, page, before)
  <1>1. /\ k.mode = mode /\ k.material = material /\ k.page = page
        /\ k.there = before.there /\ k.skipped = before.skipped
        /\ k.pages = Pages(FoundIn(rows, mode, material))
    BY SearchReadsRows DEF Shown
  <1>2. k.pages \in Nat
    <2> DEFINE n == Cardinality(FoundIn(rows, mode, material))
    <2>1. FoundIn(rows, mode, material) \in SUBSET PublicIn(rows)
      BY DEF FoundIn
    <2>2. n \in Nat
      BY <2>1, PublicIsFinite, FS_Subset, FS_CardinalityType
    <2>3. n + PageSize - 1 \in Nat /\ PageSize \in Nat \ {0}
      BY <2>2, SearchParameters
    <2>4. (n + PageSize - 1) \div PageSize \in Nat
      <3> HIDE DEF n
      <3> QED
        BY <2>3
    <2> QED
      BY <1>1, <2>4 DEF Pages
  <1>3. ASSUME NEW r \in before.there, ~before.skipped PROVE IsFor(rows, k, r) /\ IsDue(rows, k, r)
    <2>1. IsFor(rows, k, r)
      BY <1>1, <1>3 DEF IsFor
    <2>2. CASE mode = "text" /\ ~StandsIn(rows, r)
      BY <1>1, <2>1, <2>2 DEF IsDue
    <2>3. CASE ~(mode = "text" /\ ~StandsIn(rows, r))
      <3>1. r \in FoundIn(rows, mode, material)
        BY <1>3, <2>3 DEF FoundIn
      <3> QED
        BY <1>3, <2>1, <2>3, <3>1, PageShowsItsRows
    <2> QED
      BY <2>2, <2>3
  <1> QED
    BY <1>2, <1>1, <1>3 DEF GoesOn

\* A row more takes nobody's page away.
LEMMA AddedLeavesReader ==
  ASSUME NEW s, NEW n, NEW t, Adds(s, n, t), NEW k, GoesOn(s, k)
  PROVE  GoesOn(t, k)
  <1>1. ASSUME NEW r \in k.there, k.mode # "none", ~k.skipped PROVE IsFor(t, k, r) /\ IsDue(t, k, r)
    <2>1. IsFor(s, k, r) /\ IsDue(s, k, r) /\ k.page \in Nat /\ k.mode \in {"text", "colour"}
      BY <1>1 DEF GoesOn
    <2>2. PublicIn(t) = PublicIn(s) \cup ({n} \ Fixtures) /\ TableIsSound(t)
      BY AddedIsLast
    <2>3. IsFor(t, k, r) /\ r \in PublicIn(s)
      BY <2>1, <2>2 DEF IsFor
    <2>4. CASE r \in k.seen \/ (k.mode = "text" /\ ~StandsIn(t, r))
      BY <2>3, <2>4 DEF IsDue
    <2>5. CASE ~(r \in k.seen \/ (k.mode = "text" /\ ~StandsIn(t, r)))
      <3>1. k.mode = "text" => StandsIn(s, r)
        BY <2>1, <2>3, <2>5, StandingIsTaken
      <3>2. r \in FoundIn(s, k.mode, k.material) /\ r \in FoundIn(t, k.mode, k.material)
        BY <2>1, <2>3, <2>5, <3>1 DEF FoundIn, IsFor
      <3>3. /\ k.page < k.pages
            /\ k.page * PageSize <= Cardinality(BeforeIn(s, k.mode, k.material, r))
        BY <2>1, <2>5, <3>1 DEF IsDue
      <3>4. Cardinality(BeforeIn(s, k.mode, k.material, r))
                <= Cardinality(BeforeIn(t, k.mode, k.material, r))
        BY <2>1, <3>2, PlacesGrow
      <3>5. TableIsSound(s)
        BY DEF Adds
      <3>6. /\ Cardinality(BeforeIn(s, k.mode, k.material, r)) \in Nat
            /\ Cardinality(BeforeIn(t, k.mode, k.material, r)) \in Nat
        BY <2>2, <3>2, <3>5, FewerComeBefore
      <3>7. k.page * PageSize \in Nat
        BY <2>1, SearchParameters
      <3> QED
        BY <2>3, <3>3, <3>4, <3>6, <3>7 DEF IsDue
    <2> QED
      BY <2>4, <2>5
  <1> QED
    BY <1>1 DEF GoesOn

-----------------------------------------------------------------------------
(* The box.                                                                *)

\* What an orderly answer has not brought for the text is still to come; an empty
\* box has nothing on the way.
BoxIsOrderly ==
    /\ sent \in [Texts -> 0..MaxSent]
    /\ box.text \in Texts \cup {NoText}
    /\ box.text = NoText => box.hits = NoText /\ ~box.timer /\ \A t \in Texts : sent[t] = 0
    /\ ~box.overtaken /\ ~box.timer /\ box.hits \notin {NoText, box.text} => sent[box.text] > 0
    /\ box = [text |-> box.text, timer |-> box.timer, hits |-> box.hits, open |-> box.open,
              overtaken |-> box.overtaken]

BoxSteps == (\E t \in Texts : Type(t) \/ Suggest(t) \/ SuggestFails(t)) \/ AskFor \/ ShowOrHide \/ Follow

\* Keys, answers, the list and a click keep it so.
LEMMA BoxStaysOrderly ==
  ASSUME BoxIsOrderly, BoxSteps
  PROVE  BoxIsOrderly' /\ UNCHANGED <<rows, colours, reader>>
  <1> USE SearchParameters DEF BoxIsOrderly
  <1>1. ASSUME NEW t \in Texts, Type(t) PROVE BoxIsOrderly' /\ UNCHANGED <<rows, colours, reader>>
    BY <1>1 DEF Type
  <1>2. ASSUME NEW t \in Texts, Suggest(t) PROVE BoxIsOrderly' /\ UNCHANGED <<rows, colours, reader>>
    <2>1. /\ sent' = [sent EXCEPT ![t] = @ - 1] /\ sent[t] > 0 /\ sent[t] \in 0..MaxSent
          /\ UNCHANGED <<rows, colours, reader>>
      BY <1>2 DEF Suggest
    <2>2. /\ box'.text = box.text /\ box'.timer = box.timer /\ box'.hits = t /\ box'.open = TRUE
          /\ box'.overtaken = (box.overtaken \/ t # box.text)
          /\ box' = [text |-> box'.text, timer |-> box'.timer, hits |-> box'.hits,
                     open |-> box'.open, overtaken |-> box'.overtaken]
      BY <1>2 DEF Suggest
    <2>3. box.text # NoText
      BY <2>1
    <2>4. sent' \in [Texts -> 0..MaxSent]
      BY <2>1
    <2> QED
      BY <2>1, <2>2, <2>3, <2>4
  <1>3. ASSUME NEW t \in Texts, SuggestFails(t)
        PROVE BoxIsOrderly' /\ UNCHANGED <<rows, colours, reader>>
    BY <1>3 DEF SuggestFails
  <1>4. CASE AskFor
    <2>1. /\ box.timer /\ box.text \in Texts /\ sent[box.text] \in 0..MaxSent
          /\ sent[box.text] < MaxSent /\ sent' = [sent EXCEPT ![box.text] = @ + 1]
          /\ UNCHANGED <<rows, colours, reader>>
      BY <1>4 DEF AskFor
    <2>2. /\ box'.text = box.text /\ box'.timer = FALSE /\ box'.hits = box.hits
          /\ box'.open = box.open /\ box'.overtaken = box.overtaken
          /\ box' = [text |-> box'.text, timer |-> box'.timer, hits |-> box'.hits,
                     open |-> box'.open, overtaken |-> box'.overtaken]
      BY <1>4 DEF AskFor
    <2>3. sent' \in [Texts -> 0..MaxSent] /\ sent'[box.text] > 0
      BY <2>1
    <2> QED
      BY <2>1, <2>2, <2>3
  <1>5. CASE ShowOrHide
    BY <1>5 DEF ShowOrHide
  <1>6. CASE Follow
    BY <1>6 DEF Follow, EmptyBox
  <1> QED
    BY <1>1, <1>2, <1>3, <1>4, <1>5, <1>6 DEF BoxSteps

\* An orderly box suggests for its text.
LEMMA OrderlyBoxFits == BoxIsOrderly => SuggestionsFit
  BY DEF BoxIsOrderly, SuggestionsFit

-----------------------------------------------------------------------------
(* The home page.                                                          *)

Newest(s) == {p \in Rows \X Rows : PlaceIn(s, p[1]) > PlaceIn(s, p[2])}
MostColours(s) ==
    {p \in Rows \X Rows : \/ colours[p[1]] > colours[p[2]]
                          \/ colours[p[1]] = colours[p[2]] /\ p \in LabelOrder(s)}

\* Newer rows and those of more colours are in an order, too.
LEMMA PreviewOrders ==
  ASSUME NEW s, TableIsSound(s), colours \in [Rows -> Nat], NEW S \in SUBSET PublicIn(s)
  PROVE  StrictOrder(Newest(s), S) /\ StrictOrder(MostColours(s), S)
  <1>1. \A r \in S : r \in Rows /\ PlaceIn(s, r) \in Nat /\ colours[r] \in Nat
    BY RowsHavePlaces
  <1>2. \A a, b \in S : PlaceIn(s, a) = PlaceIn(s, b) => a = b
    BY RowsHavePlaces
  <1>3. StrictOrder(Newest(s), S)
    <2>1. \A a, b \in S : <<a, b>> \in Newest(s) <=> PlaceIn(s, a) > PlaceIn(s, b)
      BY <1>1 DEF Newest
    <2> QED
      BY <1>1, <1>2, <2>1 DEF StrictOrder
  <1>4. StrictOrder(LabelOrder(s), S)
    BY LabelsAreAnOrder
  <1>5. \A a, b \in S : <<a, b>> \in MostColours(s) <=>
            \/ colours[a] > colours[b]
            \/ colours[a] = colours[b] /\ <<a, b>> \in LabelOrder(s)
    BY <1>1 DEF MostColours
  <1>6. StrictOrder(MostColours(s), S)
    BY <1>1, <1>4, <1>5 DEF StrictOrder
  <1> QED
    BY <1>3, <1>6

First(R, S, n) == {r \in S : Rank(R, S, r) < n}

\* The three sections in these words.
LEMMA SectionsAre ==
  ASSUME TableIsSound(rows)
  PROVE  LET P == PublicIn(rows)
             most == (7 * Limit + 9) \div 10
             recent == First(Newest(rows), P, Limit - Cardinality(PreviewFeatured))
         IN /\ PreviewFeatured =
                   UNION {First(LabelOrder(rows), {r \in P : MaterialOf[r] = m}, 1) : m \in Featured}
            /\ PreviewRecent =
                   IF most <= Cardinality(PreviewFeatured) THEN {}
                   ELSE First(Newest(rows), recent \ PreviewFeatured,
                              most - Cardinality(PreviewFeatured))
            /\ PreviewComplete =
                   First(MostColours(rows), P \ (PreviewFeatured \cup PreviewRecent),
                         Limit - Cardinality(PreviewFeatured \cup PreviewRecent))
  <1>1. PublicIn(rows) = Public
    BY SearchReadsRows
  <1>2. \A r \in Public : r \in Rows
    BY <1>1, RowsHavePlaces
  <1>3. \A a, b \in Public : Precedes("preview", a, b) <=> <<a, b>> \in LabelOrder(rows)
    BY <1>2, SearchReadsRows DEF LabelOrder
  <1>4. \A a, b \in Public : At(a) > At(b) <=> <<a, b>> \in Newest(rows)
    BY <1>2 DEF Newest, At, PlaceIn
  <1>5. \A a, b \in Public :
            (\/ colours[a] > colours[b]
             \/ colours[a] = colours[b] /\ Precedes("preview", a, b)) <=> <<a, b>> \in MostColours(rows)
    BY <1>2, <1>3 DEF MostColours
  <1>6. ASSUME NEW S \in SUBSET Public, NEW n
        PROVE /\ Leading(S, n, LAMBDA a, b : Precedes("preview", a, b)) = First(LabelOrder(rows), S, n)
              /\ Leading(S, n, LAMBDA a, b : At(a) > At(b)) = First(Newest(rows), S, n)
              /\ Leading(S, n, LAMBDA a, b : \/ colours[a] > colours[b]
                                             \/ colours[a] = colours[b] /\ Precedes("preview", a, b))
                    = First(MostColours(rows), S, n)
    <2>1. \A r \in S : /\ {x \in S : Precedes("preview", x, r)} = {x \in S : <<x, r>> \in LabelOrder(rows)}
                       /\ {x \in S : At(x) > At(r)} = {x \in S : <<x, r>> \in Newest(rows)}
                       /\ {x \in S : \/ colours[x] > colours[r]
                                     \/ colours[x] = colours[r] /\ Precedes("preview", x, r)}
                              = {x \in S : <<x, r>> \in MostColours(rows)}
      BY <1>3, <1>4, <1>5
    <2> QED
      BY <2>1 DEF Leading, First, Rank
  <1>7. PreviewFeatured =
            UNION {First(LabelOrder(rows), {r \in PublicIn(rows) : MaterialOf[r] = m}, 1) : m \in Featured}
    <2>1. \A m : {r \in Public : MaterialOf[r] = m} \in SUBSET Public
      OBVIOUS
    <2>2. \A m : Leading({r \in Public : MaterialOf[r] = m}, 1, LAMBDA a, b : Precedes("preview", a, b))
                     = First(LabelOrder(rows), {r \in PublicIn(rows) : MaterialOf[r] = m}, 1)
      BY <1>1, <1>6, <2>1
    <2> QED
      BY <2>2 DEF PreviewFeatured
  <1>8. PreviewRecent =
            IF (7 * Limit + 9) \div 10 <= Cardinality(PreviewFeatured) THEN {}
            ELSE First(Newest(rows),
                       First(Newest(rows), PublicIn(rows), Limit - Cardinality(PreviewFeatured))
                           \ PreviewFeatured,
                       (7 * Limit + 9) \div 10 - Cardinality(PreviewFeatured))
    <2> DEFINE recent == First(Newest(rows), PublicIn(rows), Limit - Cardinality(PreviewFeatured))
    <2>1. Leading(Public, Limit - Cardinality(PreviewFeatured), LAMBDA a, b : At(a) > At(b)) = recent
      BY <1>1, <1>6
    <2>2. recent \ PreviewFeatured \in SUBSET Public
      BY <1>1 DEF First
    <2>3. Leading(recent \ PreviewFeatured, (7 * Limit + 9) \div 10 - Cardinality(PreviewFeatured),
                  LAMBDA a, b : At(a) > At(b))
              = First(Newest(rows), recent \ PreviewFeatured,
                      (7 * Limit + 9) \div 10 - Cardinality(PreviewFeatured))
      BY <1>6, <2>2
    <2> QED
      BY <2>1, <2>3 DEF PreviewRecent
  <1>9. PreviewComplete =
            First(MostColours(rows), PublicIn(rows) \ (PreviewFeatured \cup PreviewRecent),
                  Limit - Cardinality(PreviewFeatured \cup PreviewRecent))
    <2>1. Public \ (PreviewFeatured \cup PreviewRecent) \in SUBSET Public
      OBVIOUS
    <2> QED
      BY <1>1, <1>6, <2>1 DEF PreviewComplete
  <1> QED
    BY <1>7, <1>8, <1>9

\* What is first of some rows is among them, and not more than asked for.
LEMMA FirstAreMany ==
  ASSUME NEW S, IsFiniteSet(S), NEW R, StrictOrder(R, S), NEW n \in Nat
  PROVE  /\ First(R, S, n) \in SUBSET S /\ IsFiniteSet(First(R, S, n))
         /\ Cardinality(First(R, S, n)) = IF n < Cardinality(S) THEN n ELSE Cardinality(S)
         /\ Cardinality(First(R, S, n)) <= n /\ Cardinality(First(R, S, n)) \in Nat
  <1>1. First(R, S, n) \in SUBSET S
    BY DEF First
  <1>2. IsFiniteSet(First(R, S, n))
    BY <1>1, FS_Subset
  <1>3. Cardinality(First(R, S, n)) = IF n < Cardinality(S) THEN n ELSE Cardinality(S)
    BY LeadingAreMany DEF First
  <1>4. Cardinality(S) \in Nat
    BY FS_CardinalityType
  <1> QED
    BY <1>1, <1>2, <1>3, <1>4

\* The products of the featured materials are no more than these.
LEMMA FeaturedAreFew ==
  ASSUME TableIsSound(rows)
  PROVE  /\ PreviewFeatured \in SUBSET PublicIn(rows) /\ IsFiniteSet(PreviewFeatured)
         /\ Cardinality(PreviewFeatured) \in Nat /\ Cardinality(PreviewFeatured) <= Limit
  <1> DEFINE Of(m) == {r \in PublicIn(rows) : MaterialOf[r] = m}
             f == [r \in PreviewFeatured |-> MaterialOf[r]]
  <1>1. PreviewFeatured = UNION {First(LabelOrder(rows), Of(m), 1) : m \in Featured}
    BY SectionsAre
  <1>2. \A m : First(LabelOrder(rows), Of(m), 1) \subseteq Of(m)
    BY DEF First
  <1>3. ASSUME NEW a \in PreviewFeatured
        PROVE /\ a \in PublicIn(rows) /\ MaterialOf[a] \in Featured
              /\ a \in First(LabelOrder(rows), Of(MaterialOf[a]), 1)
    <2>1. PICK m \in Featured : a \in First(LabelOrder(rows), Of(m), 1)
      BY <1>1
    <2>2. a \in Of(m)
      BY <1>2, <2>1
    <2>3. MaterialOf[a] = m /\ a \in PublicIn(rows)
      BY <2>2
    <2> HIDE DEF Of
    <2> QED
      BY <2>1, <2>3
  <1>4. PreviewFeatured \in SUBSET PublicIn(rows)
    BY <1>3
  <1>5. ASSUME NEW a \in PreviewFeatured, NEW b \in PreviewFeatured, MaterialOf[a] = MaterialOf[b]
        PROVE a = b
    <2> DEFINE S == Of(MaterialOf[a])
               rank == [r \in S |-> Rank(LabelOrder(rows), S, r)]
    <2>1. a \in First(LabelOrder(rows), S, 1) /\ b \in First(LabelOrder(rows), S, 1)
      <3> HIDE DEF Of
      <3> QED
        BY <1>3, <1>5
    <2>2. S \in SUBSET PublicIn(rows) /\ IsFiniteSet(S)
      BY PublicIsFinite, FS_Subset
    <2>3. rank \in Bijection(S, 0..(Cardinality(S) - 1))
      BY <2>2, LabelsAreAnOrder, RanksAreNumbers
    <2>4. a \in S /\ b \in S /\ rank[a] < 1 /\ rank[b] < 1
      BY <2>1 DEF First
    <2>5. rank[a] \in 0..(Cardinality(S) - 1) /\ rank[b] \in 0..(Cardinality(S) - 1)
      BY <2>3, <2>4 DEF Bijection, Injection
    <2>6. rank[a] = 0 /\ rank[b] = 0
      BY <2>2, <2>4, <2>5, FS_CardinalityType
    <2> QED
      BY <2>3, <2>4, <2>6 DEF Bijection, Injection, IsInjective
  <1>6. f \in Injection(PreviewFeatured, Featured)
    <2>1. ASSUME NEW r \in PreviewFeatured PROVE f[r] \in Featured
      BY <1>3
    <2>2. f \in [PreviewFeatured -> Featured]
      BY <2>1
    <2> QED
      BY <1>5, <2>2 DEF Injection, IsInjective
  <1>7. IsFiniteSet(PreviewFeatured) /\ Cardinality(PreviewFeatured) <= Cardinality(Featured)
    BY <1>6, FS_Injection, SearchParameters
  <1>8. Cardinality(Featured) \in Nat /\ Cardinality(PreviewFeatured) \in Nat
    BY <1>7, FS_CardinalityType, SearchParameters
  <1> QED
    BY <1>4, <1>7, <1>8, SearchParameters

\* The newest beside them leave no more than the limit.
LEMMA RecentAreFew ==
  ASSUME TableIsSound(rows), colours \in [Rows -> Nat]
  PROVE  /\ PreviewRecent \in SUBSET PublicIn(rows) /\ IsFiniteSet(PreviewRecent)
         /\ PreviewRecent \cap PreviewFeatured = {} /\ Cardinality(PreviewRecent) \in Nat
         /\ Cardinality(PreviewFeatured) + Cardinality(PreviewRecent) <= Limit
  <1> DEFINE P == PublicIn(rows)
             n == Limit - Cardinality(PreviewFeatured)
             most == (7 * Limit + 9) \div 10
             recent == First(Newest(rows), P, n)
             rest == recent \ PreviewFeatured
  <1>1. /\ IsFiniteSet(P) /\ Cardinality(PreviewFeatured) \in Nat /\ Limit \in Nat
        /\ n \in Nat
    BY PublicIsFinite, FeaturedAreFew, SearchParameters
  <1>2. most \in Nat
    BY <1>1
  <1>3. /\ recent \in SUBSET P /\ IsFiniteSet(recent) /\ Cardinality(recent) <= n
        /\ Cardinality(recent) \in Nat
    BY <1>1, PreviewOrders, FirstAreMany
  <1>4. /\ rest \in SUBSET P /\ IsFiniteSet(rest) /\ Cardinality(rest) <= Cardinality(recent)
        /\ Cardinality(rest) \in Nat
    BY <1>3, FS_Subset, FS_CardinalityType
  <1>5. PreviewRecent = IF most <= Cardinality(PreviewFeatured) THEN {}
                        ELSE First(Newest(rows), rest, most - Cardinality(PreviewFeatured))
    BY SectionsAre
  <1>6. /\ PreviewRecent \in SUBSET rest
    BY <1>5 DEF First
  <1>7. /\ IsFiniteSet(PreviewRecent) /\ Cardinality(PreviewRecent) <= Cardinality(rest)
        /\ Cardinality(PreviewRecent) \in Nat
    BY <1>4, <1>6, FS_Subset, FS_CardinalityType
  <1> QED
    BY <1>1, <1>3, <1>4, <1>6, <1>7

\* What is left of the limit is filled while there are rows.
LEMMA PreviewAlwaysFull ==
  ASSUME TableIsSound(rows), colours \in [Rows -> Nat]
  PROVE  PreviewIsFull
  <1> DEFINE P == PublicIn(rows)
             A == PreviewFeatured \cup PreviewRecent
             rest == P \ A
  <1>1. /\ IsFiniteSet(P) /\ Cardinality(P) \in Nat /\ Limit \in Nat /\ Public = P
    BY PublicIsFinite, FS_CardinalityType, SearchReadsRows, SearchParameters
  <1>2. /\ A \in SUBSET P /\ IsFiniteSet(A) /\ Cardinality(A) \in Nat /\ Cardinality(A) <= Limit
        /\ Cardinality(A) = Cardinality(PreviewFeatured) + Cardinality(PreviewRecent)
    <2>1. IsFiniteSet(PreviewFeatured) /\ IsFiniteSet(PreviewRecent) /\ A \in SUBSET P
      BY FeaturedAreFew, RecentAreFew
    <2>2. /\ IsFiniteSet(A)
          /\ Cardinality(A) = Cardinality(PreviewFeatured) + Cardinality(PreviewRecent)
                                - Cardinality(PreviewFeatured \cap PreviewRecent)
      BY <2>1, FS_Union
    <2>3. Cardinality(PreviewFeatured \cap PreviewRecent) = 0
      BY RecentAreFew, FS_EmptySet
    <2> QED
      BY <2>1, <2>2, <2>3, FeaturedAreFew, RecentAreFew
  <1>3. /\ rest \in SUBSET P /\ IsFiniteSet(rest)
        /\ Cardinality(rest) = Cardinality(P) - Cardinality(A)
        /\ Cardinality(rest) \in Nat
    <2>1. P \cap A = A
      BY <1>2
    <2> QED
      BY <1>1, <2>1, FS_Difference, FS_Subset, FS_CardinalityType
  <1>4. PreviewComplete = First(MostColours(rows), rest, Limit - Cardinality(A))
    BY SectionsAre
  <1>5. /\ PreviewComplete \in SUBSET rest /\ IsFiniteSet(PreviewComplete)
        /\ Cardinality(PreviewComplete) =
               IF Limit - Cardinality(A) < Cardinality(rest) THEN Limit - Cardinality(A)
                                                           ELSE Cardinality(rest)
    <2> DEFINE n == Limit - Cardinality(A)
    <2>1. n \in Nat
      BY <1>1, <1>2
    <2>2. StrictOrder(MostColours(rows), rest)
      BY <1>3, PreviewOrders
    <2> HIDE DEF n, rest
    <2> QED
      BY <1>3, <1>4, <2>1, <2>2, FirstAreMany DEF n
  <1>6. Cardinality(A \cup PreviewComplete) = Cardinality(A) + Cardinality(PreviewComplete)
    <2>1. A \cap PreviewComplete = {}
      BY <1>5
    <2>2. Cardinality(A \cup PreviewComplete) =
              Cardinality(A) + Cardinality(PreviewComplete) - Cardinality(A \cap PreviewComplete)
      BY <1>2, <1>5, FS_Union
    <2>3. Cardinality(A \cap PreviewComplete) = 0
      BY <2>1, FS_EmptySet
    <2> QED
      BY <1>1, <1>2, <1>3, <1>5, <2>2, <2>3
  <1> QED
    BY <1>1, <1>2, <1>3, <1>5, <1>6 DEF PreviewIsFull

-----------------------------------------------------------------------------
SearchIInv ==
    TableIsSound(rows) /\ colours \in [Rows -> Nat] /\ GoesOn(rows, reader) /\ BoxIsOrderly

\* An empty table, nobody reading, an empty box.
LEMMA SearchInitIsSound == SearchInit => SearchIInv
  <1> SUFFICES ASSUME SearchInit PROVE SearchIInv
      OBVIOUS
  <1>1. TableIsSound(rows)
    BY DEF SearchInit, TableIsSound, PublicIn
  <1>2. GoesOn(rows, reader)
    BY DEF SearchInit, NoReader, GoesOn
  <1>3. BoxIsOrderly
    BY SearchParameters DEF SearchInit, EmptyBox, BoxIsOrderly
  <1> QED
    BY <1>1, <1>2, <1>3 DEF SearchInit, SearchIInv

\* Every step of visitors and imports keeps the order.
LEMMA SearchStepIsSound ==
  ASSUME ~Namesakes, SearchIInv, [SearchNext]_searchVars
  PROVE  SearchIInv'
  <1> USE DEF SearchIInv
  <1>1. ASSUME NEW n \in Rows, AddRow(n) PROVE SearchIInv'
    <2>1. Adds(rows, n, rows')
      BY <1>1, SearchReadsRows DEF AddRow, Adds
    <2>2. TableIsSound(rows') /\ GoesOn(rows', reader)
      BY <2>1, AddedIsLast, AddedLeavesReader
    <2> QED
      BY <1>1, <2>2 DEF AddRow, BoxIsOrderly
  <1>2. ASSUME NEW r \in Rows, AddColour(r) PROVE SearchIInv'
    <2>1. colours' \in [Rows -> Nat]
      BY <1>2 DEF AddColour
    <2> QED
      BY <1>2, <2>1 DEF AddColour, BoxIsOrderly
  <1>3. ASSUME NEW mode \in {"text", "colour"}, NEW m, Search(mode, m) PROVE SearchIInv'
    <2> DEFINE before == [NoReader EXCEPT !.there = Found(mode, m)]
    <2>1. ~before.skipped /\ before.there = FoundIn(rows, mode, m)
      BY SearchReadsRows DEF NoReader
    <2>2. ASSUME NEW r \in FoundIn(rows, mode, m)
          PROVE /\ r \in PublicIn(rows) /\ (mode = "colour" => r \in Nearby)
                /\ m \in {AnyMaterial, MaterialOf[r]}
                /\ (1 - 1) * PageSize <= Cardinality(BeforeIn(rows, mode, m, r))
      <3>1. Cardinality(BeforeIn(rows, mode, m, r)) \in Nat
        BY FewerComeBefore
      <3>2. (1 - 1) * PageSize = 0
        BY SearchParameters
      <3> QED
        BY <3>1, <3>2 DEF FoundIn
    <2>3. GoesOn(rows, Shown(mode, m, 1, before))
      <3> HIDE DEF before
      <3>1. 1 \in Nat \ {0}
        OBVIOUS
      <3> QED
        BY <2>1, <2>2, <3>1, ShownGoesOn
    <2> QED
      BY <1>3, <2>3 DEF Search, BoxIsOrderly
  <1>4. ASSUME NextPage \/ PreviousPage PROVE SearchIInv'
    <2>1. PICK page \in {reader.page + 1, reader.page - 1} :
              /\ page \in Nat \ {0} /\ reader.mode \in {"text", "colour"}
              /\ reader' = Shown(reader.mode, reader.material, page, reader)
              /\ UNCHANGED <<rows, colours, box, sent>>
      BY <1>4 DEF NextPage, PreviousPage, GoesOn
    <2>2. ASSUME NEW r \in reader.there, ~reader.skipped
          PROVE /\ r \in PublicIn(rows) /\ (reader.mode = "colour" => r \in Nearby)
                /\ reader.material \in {AnyMaterial, MaterialOf[r]}
                /\ \/ r \in reader.seen
                   \/ reader.mode = "text" /\ ~StandsIn(rows, r)
                   \/ (page - 1) * PageSize
                          <= Cardinality(BeforeIn(rows, reader.mode, reader.material, r))
      <3>1. IsFor(rows, reader, r) /\ IsDue(rows, reader, r)
        BY <2>1, <2>2 DEF GoesOn
      <3>2. CASE r \in reader.seen \/ (reader.mode = "text" /\ ~StandsIn(rows, r))
        BY <3>1, <3>2 DEF IsFor
      <3>3. CASE ~(r \in reader.seen \/ (reader.mode = "text" /\ ~StandsIn(rows, r)))
        <4>1. /\ r \in FoundIn(rows, reader.mode, reader.material)
              /\ reader.page * PageSize
                     <= Cardinality(BeforeIn(rows, reader.mode, reader.material, r))
          BY <2>1, <3>1, <3>3 DEF IsFor, IsDue, FoundIn
        <4>2. Cardinality(BeforeIn(rows, reader.mode, reader.material, r)) \in Nat
          BY <4>1, FewerComeBefore
        <4>3. /\ PageSize \in Nat /\ reader.page \in Nat
              /\ page - 1 = reader.page \/ page - 1 = reader.page - 2
          BY <2>1, SearchParameters DEF GoesOn
        <4>4. (page - 1) * PageSize <= reader.page * PageSize
              /\ (page - 1) * PageSize \in Int /\ reader.page * PageSize \in Int
          <5>1. (reader.page - 2) * PageSize = reader.page * PageSize - 2 * PageSize
            BY <4>3
          <5>2. reader.page * PageSize \in Int
            BY <4>3
          <5> QED
            BY <4>3, <5>1, <5>2
        <4> QED
          BY <3>1, <4>1, <4>2, <4>4 DEF IsFor
      <3> QED
        BY <3>2, <3>3
    <2>3. GoesOn(rows, Shown(reader.mode, reader.material, page, reader))
      BY <2>1, <2>2, ShownGoesOn
    <2> QED
      BY <2>1, <2>3 DEF BoxIsOrderly
  <1>5. ASSUME NEW mode \in {"text", "colour"}, OpenPage(mode, 2) PROVE SearchIInv'
    <2> DEFINE before == [NoReader EXCEPT !.skipped = TRUE]
    <2>1. before.skipped
      BY DEF NoReader
    <2>2. GoesOn(rows, Shown(mode, AnyMaterial, 2, before))
      <3> HIDE DEF before
      <3>1. 2 \in Nat \ {0}
        OBVIOUS
      <3> QED
        BY <2>1, <3>1, ShownGoesOn
    <2> QED
      BY <1>5, <2>2 DEF OpenPage, BoxIsOrderly
  <1>6. CASE Leave
    BY <1>6 DEF Leave, NoReader, GoesOn, BoxIsOrderly
  <1>7. CASE BoxSteps
    BY <1>7, BoxStaysOrderly
  <1>8. CASE UNCHANGED searchVars
    BY <1>8 DEF searchVars, BoxIsOrderly
  <1> QED
    BY <1>1, <1>2, <1>3, <1>4, <1>5, <1>6, <1>7, <1>8 DEF SearchNext, BoxSteps

\* For any rows, names, pages and limits: who pages to the end has seen all that was
\* found when the search began, the home page is full without repeating itself, and
\* what is suggested is of the text in the box; while rows of one name are of one label
\* and material.
THEOREM SearchIsAlwaysSound == ASSUME ~Namesakes PROVE SearchSpec => []SearchIsSound
  <1>1. SearchIInv => WalkSeesAll
    <2> SUFFICES ASSUME SearchIInv, reader.mode # "none", reader.page >= reader.pages,
                        ~reader.skipped, NEW r \in reader.there
                 PROVE  r \in reader.seen \/ (reader.mode = "text" /\ ~Stands(r))
        BY DEF WalkSeesAll
    <2>1. IsDue(rows, reader, r) /\ reader.page \in Nat /\ reader.pages \in Nat
      BY DEF SearchIInv, GoesOn
    <2> QED
      BY <2>1, SearchReadsRows DEF IsDue
  <1>2. SearchIInv => SearchIsSound
    BY <1>1, PreviewAlwaysFull, OrderlyBoxFits DEF SearchIInv, SearchIsSound
  <1>3. SearchIInv /\ [SearchNext]_searchVars => SearchIInv'
    BY SearchStepIsSound
  <1> QED
    BY <1>2, <1>3, SearchInitIsSound, PTL DEF SearchSpec

-----------------------------------------------------------------------------
(* Aggregation.                                                            *)

\* A set of numbers has its least one.
LEMMA LeastIs ==
  ASSUME NEW T \in SUBSET Nat, T # {}
  PROVE  Min(T) \in T /\ \A m \in T : Min(T) <= m
  <1>1. PICK n \in T : \A m \in T : ~(<<m, n>> \in OpToRel(<, Nat))
    BY NatLessThanWellFounded, WFMin
  <1>2. ASSUME NEW m \in T PROVE n <= m
    <2>1. ~(m < n)
      BY <1>1 DEF OpToRel
    <2> QED
      BY <2>1
  <1> QED
    BY <1>1, <1>2 DEF Min

\* A set of places of a sequence has its greatest one.
LEMMA GreatestIs ==
  ASSUME NEW L \in Nat, NEW T \in SUBSET (1..L), T # {}
  PROVE  Max(T) \in T /\ \A m \in T : m <= Max(T)
  <1> DEFINE U == {L - m : m \in T}
  <1>1. U \in SUBSET Nat /\ U # {}
    <2>1. \A m \in T : L - m \in Nat
      OBVIOUS
    <2> QED
      BY <2>1
  <1>2. PICK n \in T : L - n = Min(U)
    BY <1>1, LeastIs
  <1>3. ASSUME NEW m \in T PROVE m <= n
    <2>1. L - m \in U
      OBVIOUS
    <2>2. Min(U) <= L - m
      BY <1>1, <2>1, LeastIs
    <2> HIDE DEF U
    <2> QED
      BY <1>2, <2>2
  <1> HIDE DEF U
  <1>4. \E x \in T : \A y \in T : x >= y
    BY <1>3
  <1>5. Max(T) \in T /\ \A y \in T : Max(T) >= y
    BY <1>4 DEF Max
  <1> QED
    BY <1>5

\* Numbers in order.
Ascending(s) == \A i, j \in DOMAIN s : i <= j => s[i] <= s[j]

\* The two values in the middle, or the one twice.
LEMMA MedianIs ==
  ASSUME NEW s \in Seq(Nat), Len(s) >= 1
  PROVE  LET a == (Len(s) + 1) \div 2
             b == Len(s) \div 2 + 1
         IN /\ Median2(s) = s[a] + s[b] /\ a \in DOMAIN s /\ b \in DOMAIN s
            /\ a <= b /\ b <= a + 1 /\ a + b = Len(s) + 1
  <1> DEFINE n == Len(s)
             a == (n + 1) \div 2
             b == n \div 2 + 1
  <1>1. n \in Nat /\ n >= 1 /\ DOMAIN s = 1..n
    OBVIOUS
  <1>2. CASE n % 2 = 0
    <2>1. n = 2 * (n \div 2) /\ a = n \div 2 /\ b = n \div 2 + 1
      <3> HIDE DEF n
      <3> QED
        BY <1>1, <1>2
    <2>2. Median2(s) = s[n \div 2] + s[n \div 2 + 1]
      BY <1>2 DEF Median2
    <2> QED
      BY <1>1, <2>1, <2>2
  <1>3. CASE n % 2 # 0
    <2>1. n = 2 * (n \div 2) + 1 /\ a = n \div 2 + 1 /\ b = n \div 2 + 1
      <3> HIDE DEF n
      <3> QED
        BY <1>1, <1>3
    <2>2. Median2(s) = 2 * s[n \div 2 + 1]
      BY <1>3 DEF Median2
    <2>3. s[a] \in Nat /\ a \in 1..n
      BY <1>1, <2>1
    <2>4. 2 * s[a] = s[a] + s[a]
      BY <2>3
    <2> QED
      BY <1>1, <2>1, <2>2, <2>3, <2>4
  <1> QED
    BY <1>2, <1>3

\* A quantile is between two neighbours, in the proportion of what is left of a quarter.
LEMMA QuantileIs ==
  ASSUME NEW s \in Seq(Nat), NEW q \in Nat, NEW base \in Nat, NEW rest \in 0..3,
         (Len(s) - 1) * q = 4 * base + rest, base + 2 <= Len(s)
  PROVE  /\ s[base + 1] \in Nat /\ s[base + 2] \in Nat
         /\ rest = 0 => Quantile4(s, q) = 4 * s[base + 1]
         /\ rest = 1 => Quantile4(s, q) = 3 * s[base + 1] + s[base + 2]
         /\ rest = 2 => Quantile4(s, q) = 2 * s[base + 1] + 2 * s[base + 2]
         /\ rest = 3 => Quantile4(s, q) = s[base + 1] + 3 * s[base + 2]
  <1>1. (4 * base + rest) \div 4 = base /\ (4 * base + rest) % 4 = rest
    OBVIOUS
  <1>2. base + 1 \in 1..Len(s) /\ base + 2 \in 1..Len(s)
    OBVIOUS
  <1>3. s[base + 1] \in Nat /\ s[base + 2] \in Nat
    BY <1>2
  <1>4. Quantile4(s, q) = 4 * s[base + 1] + rest * (s[base + 2] - s[base + 1])
    <2>1. ~(base + 2 > Len(s))
      OBVIOUS
    <2> QED
      BY <1>1, <2>1 DEF Quantile4
  <1> DEFINE x == s[base + 1]
             y == s[base + 2]
             v == Quantile4(s, q)
  <1>5. v = 4 * x + rest * (y - x) /\ x \in Nat /\ y \in Nat
    BY <1>3, <1>4
  <1> HIDE DEF x, y, v
  <1>6. rest = 0 => v = 4 * x
    BY <1>5
  <1>7. rest = 1 => v = 3 * x + y
    BY <1>5
  <1>8. rest = 2 => v = 2 * x + 2 * y
    BY <1>5
  <1>9. rest = 3 => v = x + 3 * y
    BY <1>5
  <1> QED
    BY <1>5, <1>6, <1>7, <1>8, <1>9 DEF x, y, v

\* The quartiles, by what is left of the length when it is quartered.
LEMMA QuartilesAre ==
  ASSUME NEW s \in Seq(Nat), NEW k \in Nat, NEW r \in 0..3, Len(s) = 4 * k + r + 1, Len(s) >= 4
  PROVE  /\ r # 3 => k >= 1
         /\ r = 0 => Quantile4(s, 1) = 4 * s[k + 1] /\ Quantile4(s, 3) = 4 * s[3 * k + 1]
         /\ r = 1 => /\ Quantile4(s, 1) = 3 * s[k + 1] + s[k + 2]
                     /\ Quantile4(s, 3) = s[3 * k + 1] + 3 * s[3 * k + 2]
         /\ r = 2 => /\ Quantile4(s, 1) = 2 * s[k + 1] + 2 * s[k + 2]
                     /\ Quantile4(s, 3) = 2 * s[3 * k + 2] + 2 * s[3 * k + 3]
         /\ r = 3 => /\ Quantile4(s, 1) = s[k + 1] + 3 * s[k + 2]
                     /\ Quantile4(s, 3) = 3 * s[3 * k + 3] + s[3 * k + 4]
  <1>1. r # 3 => k >= 1
    OBVIOUS
  <1>2. CASE r = 0
    <2>1. (Len(s) - 1) * 1 = 4 * k + r /\ k + 2 <= Len(s) /\ 1 \in Nat
      BY <1>1, <1>2
    <2> DEFINE base == 3 * k
               rest == 0
    <2>2. /\ (Len(s) - 1) * 3 = 4 * base + rest
          /\ base \in Nat /\ rest \in 0..3 /\ 3 \in Nat /\ base + 2 <= Len(s)
      BY <1>1, <1>2
    <2>3. Quantile4(s, 1) = 4 * s[k + 1]
      BY <2>1, QuantileIs, <1>2
    <2>4. Quantile4(s, 3) = 4 * s[(3 * k) + 1]
      <3> HIDE DEF base, rest
      <3>1. rest = 0 => Quantile4(s, 3) = 4 * s[base + 1]
        BY <2>2, QuantileIs
      <3> QED
        BY <3>1 DEF base, rest
    <2>5. (3 * k + 1) + 1 = 3 * k + 2 /\ (3 * k + 1) + 2 = 3 * k + 3
          /\ (3 * k + 2) + 1 = 3 * k + 3 /\ (3 * k + 2) + 2 = 3 * k + 4
      OBVIOUS
    <2> QED
      BY <1>1, <1>2, <2>3, <2>4, <2>5
  <1>3. CASE r = 1
    <2>1. (Len(s) - 1) * 1 = 4 * k + r /\ k + 2 <= Len(s) /\ 1 \in Nat
      BY <1>1, <1>3
    <2> DEFINE base == 3 * k
               rest == 3
    <2>2. /\ (Len(s) - 1) * 3 = 4 * base + rest
          /\ base \in Nat /\ rest \in 0..3 /\ 3 \in Nat /\ base + 2 <= Len(s)
      BY <1>1, <1>3
    <2>3. Quantile4(s, 1) = 3 * s[k + 1] + s[k + 2]
      BY <2>1, QuantileIs, <1>3
    <2>4. Quantile4(s, 3) = s[(3 * k) + 1] + 3 * s[(3 * k) + 2]
      <3> HIDE DEF base, rest
      <3>1. rest = 3 => Quantile4(s, 3) = s[base + 1] + 3 * s[base + 2]
        BY <2>2, QuantileIs
      <3> QED
        BY <3>1 DEF base, rest
    <2>5. (3 * k + 1) + 1 = 3 * k + 2 /\ (3 * k + 1) + 2 = 3 * k + 3
          /\ (3 * k + 2) + 1 = 3 * k + 3 /\ (3 * k + 2) + 2 = 3 * k + 4
      OBVIOUS
    <2> QED
      BY <1>1, <1>3, <2>3, <2>4, <2>5
  <1>4. CASE r = 2
    <2>1. (Len(s) - 1) * 1 = 4 * k + r /\ k + 2 <= Len(s) /\ 1 \in Nat
      BY <1>1, <1>4
    <2> DEFINE base == 3 * k + 1
               rest == 2
    <2>2. /\ (Len(s) - 1) * 3 = 4 * base + rest
          /\ base \in Nat /\ rest \in 0..3 /\ 3 \in Nat /\ base + 2 <= Len(s)
      BY <1>1, <1>4
    <2>3. Quantile4(s, 1) = 2 * s[k + 1] + 2 * s[k + 2]
      BY <2>1, QuantileIs, <1>4
    <2>4. Quantile4(s, 3) = 2 * s[(3 * k + 1) + 1] + 2 * s[(3 * k + 1) + 2]
      <3> HIDE DEF base, rest
      <3>1. rest = 2 => Quantile4(s, 3) = 2 * s[base + 1] + 2 * s[base + 2]
        BY <2>2, QuantileIs
      <3> QED
        BY <3>1 DEF base, rest
    <2>5. (3 * k + 1) + 1 = 3 * k + 2 /\ (3 * k + 1) + 2 = 3 * k + 3
          /\ (3 * k + 2) + 1 = 3 * k + 3 /\ (3 * k + 2) + 2 = 3 * k + 4
      OBVIOUS
    <2> QED
      BY <1>1, <1>4, <2>3, <2>4, <2>5
  <1>5. CASE r = 3
    <2>1. (Len(s) - 1) * 1 = 4 * k + r /\ k + 2 <= Len(s) /\ 1 \in Nat
      BY <1>1, <1>5
    <2> DEFINE base == 3 * k + 2
               rest == 1
    <2>2. /\ (Len(s) - 1) * 3 = 4 * base + rest
          /\ base \in Nat /\ rest \in 0..3 /\ 3 \in Nat /\ base + 2 <= Len(s)
      BY <1>1, <1>5
    <2>3. Quantile4(s, 1) = s[k + 1] + 3 * s[k + 2]
      BY <2>1, QuantileIs, <1>5
    <2>4. Quantile4(s, 3) = 3 * s[(3 * k + 2) + 1] + s[(3 * k + 2) + 2]
      <3> HIDE DEF base, rest
      <3>1. rest = 1 => Quantile4(s, 3) = 3 * s[base + 1] + s[base + 2]
        BY <2>2, QuantileIs
      <3> QED
        BY <3>1 DEF base, rest
    <2>5. (3 * k + 1) + 1 = 3 * k + 2 /\ (3 * k + 1) + 2 = 3 * k + 3
          /\ (3 * k + 2) + 1 = 3 * k + 3 /\ (3 * k + 2) + 2 = 3 * k + 4
      OBVIOUS
    <2> QED
      BY <1>1, <1>5, <2>3, <2>4, <2>5
  <1> QED
    BY <1>2, <1>3, <1>4, <1>5

\* Every length is some multiple of four and a rest.
LEMMA QuartersAre ==
  ASSUME NEW n \in Nat, n >= 1
  PROVE  \E k \in Nat, r \in 0..3 : n = 4 * k + r + 1
  <1>1. (n - 1) \div 4 \in Nat /\ (n - 1) % 4 \in 0..3 /\ n - 1 = 4 * ((n - 1) \div 4) + ((n - 1) % 4)
    OBVIOUS
  <1> QED
    BY <1>1

\* In order, the quartiles enclose a middle, of half of the values or, with one of its
\* neighbours, which are not far from each other, of as many.
LEMMA MiddleIs ==
  ASSUME NEW s \in Seq(Nat), Ascending(s), Len(s) >= 4
  PROVE  /\ Quantile4(s, 1) \in Nat /\ Quantile4(s, 3) \in Nat
         /\ \E a, b, c, d \in 1..Len(s) :
              /\ b <= Len(s) - 2 /\ c >= 3 /\ 2 * b <= Len(s) + 1 /\ Len(s) + 1 <= 2 * c
              /\ Quantile4(s, 1) <= 4 * s[b] /\ 4 * s[c] <= Quantile4(s, 3)
              /\ \/ Len(s) <= 2 * (c - b + 1)
                 \/ /\ a = b - 1 /\ d = c + 1 /\ Len(s) <= 2 * (c - b + 2)
                    /\ 2 * (s[d] - s[a]) <= Quantile4(s, 3) - Quantile4(s, 1)
  <1>1. PICK k \in Nat, r \in 0..3 : Len(s) = 4 * k + r + 1
    <2>1. Len(s) \in Nat /\ Len(s) >= 1
      OBVIOUS
    <2> QED
      BY <2>1, QuartersAre
  <1>2. \A i \in 1..Len(s) : s[i] \in Nat
    OBVIOUS
  <1>3. \A i, j \in 1..Len(s) : i <= j => s[i] <= s[j]
    BY DEF Ascending
  <1>4. CASE r = 0
    <2> DEFINE a == k + 1
               b == k + 1
               c == 3 * k + 1
               d == 3 * k + 1
               p == Quantile4(s, 1)
               q == Quantile4(s, 3)
               sa == s[a]
               sb == s[b]
               sc == s[c]
               sd == s[d]
    <2>1. /\ a \in 1..Len(s) /\ b \in 1..Len(s) /\ c \in 1..Len(s) /\ d \in 1..Len(s)
          /\ a <= b /\ b <= c /\ c <= d /\ b <= Len(s) - 2 /\ c >= 3
          /\ 2 * b <= Len(s) + 1 /\ Len(s) + 1 <= 2 * c
          /\ Len(s) <= 2 * (c - b + 1)
      BY <1>1, <1>4
    <2>2. p = 4 * sb /\ q = 4 * sc
      BY <1>1, <1>4, QuartilesAre
    <2> HIDE DEF a, b, c, d
    <2>3. /\ sa \in Nat /\ sb \in Nat /\ sc \in Nat /\ sd \in Nat
          /\ sa <= sb /\ sb <= sc /\ sc <= sd
      BY <1>2, <1>3, <2>1
    <2> HIDE DEF p, q, sa, sb, sc, sd
    <2>4. /\ p \in Nat /\ q \in Nat /\ p <= 4 * sb /\ 4 * sc <= q
      BY <2>2, <2>3
    <2> QED
      BY <2>1, <2>4 DEF p, q, sa, sb, sc, sd
  <1>5. CASE r = 1
    <2> DEFINE a == k + 1
               b == k + 2
               c == 3 * k + 1
               d == 3 * k + 2
               p == Quantile4(s, 1)
               q == Quantile4(s, 3)
               sa == s[a]
               sb == s[b]
               sc == s[c]
               sd == s[d]
    <2>1. /\ a \in 1..Len(s) /\ b \in 1..Len(s) /\ c \in 1..Len(s) /\ d \in 1..Len(s)
          /\ a <= b /\ b <= c /\ c <= d /\ b <= Len(s) - 2 /\ c >= 3
          /\ 2 * b <= Len(s) + 1 /\ Len(s) + 1 <= 2 * c
          /\ a = b - 1 /\ d = c + 1 /\ Len(s) <= 2 * (c - b + 2)
      BY <1>1, <1>5
    <2>2. p = 3 * sa + sb /\ q = sc + 3 * sd
      BY <1>1, <1>5, QuartilesAre
    <2> HIDE DEF a, b, c, d
    <2>3. /\ sa \in Nat /\ sb \in Nat /\ sc \in Nat /\ sd \in Nat
          /\ sa <= sb /\ sb <= sc /\ sc <= sd
      BY <1>2, <1>3, <2>1
    <2> HIDE DEF p, q, sa, sb, sc, sd
    <2>4. /\ p \in Nat /\ q \in Nat /\ p <= 4 * sb /\ 4 * sc <= q
          /\ 2 * (sd - sa) <= q - p
      BY <2>2, <2>3
    <2> QED
      BY <2>1, <2>4 DEF p, q, sa, sb, sc, sd
  <1>6. CASE r = 2
    <2> DEFINE a == k + 1
               b == k + 2
               c == 3 * k + 2
               d == 3 * k + 3
               p == Quantile4(s, 1)
               q == Quantile4(s, 3)
               sa == s[a]
               sb == s[b]
               sc == s[c]
               sd == s[d]
    <2>1. /\ a \in 1..Len(s) /\ b \in 1..Len(s) /\ c \in 1..Len(s) /\ d \in 1..Len(s)
          /\ a <= b /\ b <= c /\ c <= d /\ b <= Len(s) - 2 /\ c >= 3
          /\ 2 * b <= Len(s) + 1 /\ Len(s) + 1 <= 2 * c
          /\ a = b - 1 /\ d = c + 1 /\ Len(s) <= 2 * (c - b + 2)
      BY <1>1, <1>6
    <2>2. p = 2 * sa + 2 * sb /\ q = 2 * sc + 2 * sd
      BY <1>1, <1>6, QuartilesAre
    <2> HIDE DEF a, b, c, d
    <2>3. /\ sa \in Nat /\ sb \in Nat /\ sc \in Nat /\ sd \in Nat
          /\ sa <= sb /\ sb <= sc /\ sc <= sd
      BY <1>2, <1>3, <2>1
    <2> HIDE DEF p, q, sa, sb, sc, sd
    <2>4. /\ p \in Nat /\ q \in Nat /\ p <= 4 * sb /\ 4 * sc <= q
          /\ 2 * (sd - sa) <= q - p
      BY <2>2, <2>3
    <2> QED
      BY <2>1, <2>4 DEF p, q, sa, sb, sc, sd
  <1>7. CASE r = 3
    <2> DEFINE a == k + 1
               b == k + 2
               c == 3 * k + 3
               d == 3 * k + 4
               p == Quantile4(s, 1)
               q == Quantile4(s, 3)
               sa == s[a]
               sb == s[b]
               sc == s[c]
               sd == s[d]
    <2>1. /\ a \in 1..Len(s) /\ b \in 1..Len(s) /\ c \in 1..Len(s) /\ d \in 1..Len(s)
          /\ a <= b /\ b <= c /\ c <= d /\ b <= Len(s) - 2 /\ c >= 3
          /\ 2 * b <= Len(s) + 1 /\ Len(s) + 1 <= 2 * c
          /\ Len(s) <= 2 * (c - b + 1)
      BY <1>1, <1>7
    <2>2. p = sa + 3 * sb /\ q = 3 * sc + sd
      BY <1>1, <1>7, QuartilesAre
    <2> HIDE DEF a, b, c, d
    <2>3. /\ sa \in Nat /\ sb \in Nat /\ sc \in Nat /\ sd \in Nat
          /\ sa <= sb /\ sb <= sc /\ sc <= sd
      BY <1>2, <1>3, <2>1
    <2> HIDE DEF p, q, sa, sb, sc, sd
    <2>4. /\ p \in Nat /\ q \in Nat /\ p <= 4 * sb /\ 4 * sc <= q
      BY <2>2, <2>3
    <2> QED
      BY <2>1, <2>4 DEF p, q, sa, sb, sc, sd
  <1> QED
    BY <1>1, <1>4, <1>5, <1>6, <1>7

\* Samples as they are kept.
Samples == [value : Nat, trust : Nat]

\* The values of samples, at their places.
LEMMA ValuesAre ==
  ASSUME NEW ss \in Seq(Samples)
  PROVE  /\ AllValues(ss) \in Seq(Nat) /\ Len(AllValues(ss)) = Len(ss)
         /\ DOMAIN AllValues(ss) = DOMAIN ss
         /\ \A i \in DOMAIN ss : AllValues(ss)[i] = ss[i].value
  <1>1. DOMAIN ss = 1..Len(ss) /\ Len(ss) \in Nat /\ \A i \in 1..Len(ss) : ss[i] \in Samples
    OBVIOUS
  <1>2. \A i \in 1..Len(ss) : ss[i].value \in Nat
    BY <1>1 DEF Samples
  <1> QED
    BY <1>1, <1>2 DEF AllValues

\* What it is for samples to be in order of value.
LEMMA InOrder ==
  ASSUME NEW ss \in Seq(Samples)
  PROVE  /\ \A i \in 1..Len(ss) : ss[i].value \in Nat
         /\ Ascending(AllValues(ss)) <=>
              \A i, j \in 1..Len(ss) : i <= j => ss[i].value <= ss[j].value
  <1>1. DOMAIN ss = 1..Len(ss) /\ \A i \in 1..Len(ss) : ss[i] \in Samples
    OBVIOUS
  <1>2. \A i \in 1..Len(ss) : ss[i].value \in Nat
    BY <1>1 DEF Samples
  <1> DEFINE v == AllValues(ss)
  <1>3. DOMAIN v = 1..Len(ss) /\ \A i \in 1..Len(ss) : v[i] = ss[i].value
    BY <1>1, ValuesAre
  <1> HIDE DEF v
  <1>4. Ascending(v) <=> \A i, j \in 1..Len(ss) : i <= j => ss[i].value <= ss[j].value
    BY <1>3 DEF Ascending
  <1> QED
    BY <1>2, <1>4 DEF v

\* What is kept follows each other: all, or what is between two that are inside.
LEMMA KeptIs ==
  ASSUME NEW ss \in Seq(Samples), Ascending(AllValues(ss)), ss # << >>
  PROVE  \E lo, hi \in 1..Len(ss) :
           /\ lo <= hi /\ Kept(ss) = SubSeq(ss, lo, hi)
           /\ Len(ss) >= 3 => lo <= Len(ss) - 2 /\ hi >= 3
  <1> DEFINE s == AllValues(ss)
             inside == Inside(s)
  <1>1. s \in Seq(Nat) /\ Len(s) = Len(ss) /\ DOMAIN s = 1..Len(ss) /\ Len(ss) \in Nat /\ Len(ss) >= 1
    BY ValuesAre
  <1>2. CASE Len(ss) < 4
    <2>1. Kept(ss) = ss
      BY <1>2 DEF Kept
    <2>2. SubSeq(ss, 1, Len(ss)) = ss
      OBVIOUS
    <2>3. 1 \in 1..Len(ss) /\ Len(ss) \in 1..Len(ss)
      BY <1>1
    <2> QED
      BY <1>1, <2>1, <2>2, <2>3
  <1>3. CASE Len(ss) >= 4
    <2> HIDE DEF s
    <2>1. PICK i \in 1..Len(s), j \in 1..Len(s) :
            /\ Quantile4(s, 1) \in Nat /\ Quantile4(s, 3) \in Nat
            /\ i <= Len(s) - 2 /\ j >= 3 /\ 2 * i <= Len(s) + 1 /\ Len(s) + 1 <= 2 * j
            /\ Quantile4(s, 1) <= 4 * s[i] /\ 4 * s[j] <= Quantile4(s, 3)
      <3>1. Ascending(s) /\ Len(s) >= 4
        BY <1>1, <1>3 DEF s
      <3> QED
        BY <1>1, <3>1, MiddleIs
    <2>2. /\ Fences(s).low = 2 * Quantile4(s, 1) - 3 * (Quantile4(s, 3) - Quantile4(s, 1))
          /\ Fences(s).high = 2 * Quantile4(s, 3) + 3 * (Quantile4(s, 3) - Quantile4(s, 1))
      BY DEF Fences, Spread4
    <2>3. s[i] \in Nat /\ s[j] \in Nat /\ s[i] <= s[j]
      <3>1. i <= j /\ i \in 1..Len(ss) /\ j \in 1..Len(ss)
        BY <1>1, <2>1
      <3>2. s[i] = ss[i].value /\ s[j] = ss[j].value
        BY <1>1, <3>1, ValuesAre DEF s
      <3> QED
        BY <3>1, <3>2, InOrder
    <2>4. i \in inside /\ j \in inside
      <3>1. \A x \in Nat : Quantile4(s, 1) <= 4 * x /\ 4 * x <= Quantile4(s, 3) =>
              Fences(s).low <= 8 * x /\ 8 * x <= Fences(s).high
        BY <2>1, <2>2
      <3>2. /\ Quantile4(s, 1) <= 4 * s[j] /\ 4 * s[i] <= Quantile4(s, 3)
            /\ i \in DOMAIN s /\ j \in DOMAIN s
        <4> DEFINE p == Quantile4(s, 1)
                   q == Quantile4(s, 3)
                   x == s[i]
                   y == s[j]
        <4>1. p \in Nat /\ q \in Nat /\ x \in Nat /\ y \in Nat /\ x <= y /\ p <= 4 * x /\ 4 * y <= q
          BY <2>1, <2>3
        <4>2. i \in DOMAIN s /\ j \in DOMAIN s
          BY <1>1, <2>1
        <4> HIDE DEF p, q, x, y
        <4>3. p <= 4 * y /\ 4 * x <= q
          BY <4>1
        <4> QED
          BY <4>2, <4>3 DEF p, q, x, y
      <3> QED
        BY <2>1, <2>3, <3>1, <3>2 DEF Inside
    <2>5. inside \in SUBSET (1..Len(ss)) /\ inside \in SUBSET Nat
      BY <1>1 DEF Inside
    <2> HIDE DEF inside
    <2>6. /\ Min(inside) \in inside /\ Min(inside) <= i
          /\ Max(inside) \in inside /\ j <= Max(inside) /\ Min(inside) <= Max(inside)
      BY <1>1, <2>4, <2>5, LeastIs, GreatestIs
    <2>7. Kept(ss) = SubSeq(ss, Min(inside), Max(inside))
      <3>1. ~(Len(ss) < 4) /\ inside # {}
        BY <1>1, <1>3, <2>4
      <3> QED
        BY <3>1, Zenon DEF Kept, inside, s
    <2>8. i \in 1..Len(ss) /\ j \in 1..Len(ss)
      BY <1>1, <2>1
    <2>9. /\ Min(inside) \in 1..Len(ss) /\ Max(inside) \in 1..Len(ss)
          /\ Min(inside) <= Len(ss) - 2 /\ Max(inside) >= 3
      <3> DEFINE lo == Min(inside)
                 hi == Max(inside)
      <3>1. lo \in 1..Len(ss) /\ hi \in 1..Len(ss) /\ lo <= i /\ j <= hi
        BY <2>5, <2>6
      <3>2. i <= Len(ss) - 2 /\ j >= 3
        BY <1>1, <2>1
      <3> HIDE DEF lo, hi
      <3>3. lo \in 1..Len(ss) /\ hi \in 1..Len(ss) /\ lo <= Len(ss) - 2 /\ hi >= 3
        BY <1>1, <2>8, <3>1, <3>2
      <3> QED
        BY <3>3 DEF lo, hi
    <2> QED
      BY <2>6, <2>7, <2>9
  <1>4. Len(ss) < 4 \/ Len(ss) >= 4
    BY <1>1
  <1> QED
    BY <1>2, <1>3, <1>4, Zenon

\* ... and is a sequence of samples in order.
LEMMA KeptAre ==
  ASSUME NEW ss \in Seq(Samples), Ascending(AllValues(ss)),
         NEW lo \in 1..Len(ss), NEW hi \in 1..Len(ss), lo <= hi
  PROVE  LET kept == SubSeq(ss, lo, hi)
         IN /\ kept \in Seq(Samples) /\ Len(kept) = hi - lo + 1
            /\ \A i \in 1..Len(kept) : kept[i] = ss[lo + i - 1]
            /\ Ascending(AllValues(kept))
  <1> DEFINE kept == SubSeq(ss, lo, hi)
  <1>1. kept \in Seq(Samples) /\ Len(kept) = hi - lo + 1
    OBVIOUS
  <1>2. \A i \in 1..Len(kept) : kept[i] = ss[lo + i - 1]
    OBVIOUS
  <1>3. Ascending(AllValues(kept))
    <2>1. SUFFICES ASSUME NEW i \in 1..Len(kept), NEW j \in 1..Len(kept), i <= j
                   PROVE  kept[i].value <= kept[j].value
      <3> HIDE DEF kept
      <3>1. /\ DOMAIN AllValues(kept) = 1..Len(kept)
            /\ \A i \in 1..Len(kept) : AllValues(kept)[i] = kept[i].value
        <4>1. DOMAIN kept = 1..Len(kept)
          BY <1>1
        <4> QED
          BY <1>1, <4>1, ValuesAre
      <3> QED
        BY <2>1, <3>1 DEF Ascending
    <2>2. lo + i - 1 \in 1..Len(ss) /\ lo + j - 1 \in 1..Len(ss) /\ lo + i - 1 <= lo + j - 1
      <3>1. i \in 1..(hi - lo + 1) /\ j \in 1..(hi - lo + 1) /\ Len(ss) \in Nat
        BY <1>1
      <3> QED
        BY <2>1, <3>1
    <2>3. \A x, y \in 1..Len(ss) : x <= y => ss[x].value <= ss[y].value
      <3>1. DOMAIN ss = 1..Len(ss)
        OBVIOUS
      <3> QED
        BY <3>1, ValuesAre DEF Ascending
    <2> QED
      BY <1>2, <2>2, <2>3
  <1> QED
    BY <1>1, <1>2, <1>3

\* The median of what is kept is between the second least and the second greatest of all.
LEMMA OneIsHarmless ==
  ASSUME NEW ss \in Seq(Samples), Ascending(AllValues(ss)), Len(ss) >= 3
  PROVE  /\ 2 * ss[2].value <= Recommended2(ss)
         /\ Recommended2(ss) <= 2 * ss[Len(ss) - 1].value
  <1> DEFINE n == Len(ss)
  <1>1. PICK lo \in 1..n, hi \in 1..n :
          lo <= hi /\ Kept(ss) = SubSeq(ss, lo, hi) /\ lo <= n - 2 /\ hi >= 3
    <2>1. ss # << >>
      OBVIOUS
    <2> QED
      BY <2>1, KeptIs
  <1> DEFINE kept == Kept(ss)
             v == AllValues(kept)
             m == Len(kept)
             a == (m + 1) \div 2
             b == m \div 2 + 1
  <1>2. /\ kept \in Seq(Samples) /\ m = hi - lo + 1
        /\ \A i \in 1..m : kept[i] = ss[lo + i - 1]
    BY <1>1, KeptAre
  <1>3. m \in Nat /\ m >= 1 /\ n \in Nat
    BY <1>1, <1>2
  <1> HIDE DEF kept, n
  <1>4. v \in Seq(Nat) /\ Len(v) = m /\ \A i \in 1..m : v[i] = kept[i].value
    <2>1. DOMAIN kept = 1..m
      BY <1>2
    <2> QED
      BY <1>2, <2>1, ValuesAre
  <1> HIDE DEF v, m
  <1>5. /\ Median2(v) = v[a] + v[b] /\ a \in 1..m /\ b \in 1..m
        /\ a <= b /\ b <= a + 1 /\ a + b = m + 1
    <2>1. Len(v) >= 1 /\ DOMAIN v = 1..m
      BY <1>3, <1>4
    <2> QED
      BY <1>4, <2>1, MedianIs
  <1> HIDE DEF a, b
  <1>6. v[a] = ss[lo + a - 1].value /\ v[b] = ss[lo + b - 1].value
    BY <1>2, <1>4, <1>5
  <1>7. /\ lo + a - 1 \in 1..n /\ lo + b - 1 \in 1..n
        /\ 2 <= lo + a - 1 /\ 2 <= lo + b - 1
        /\ lo + a - 1 <= n - 1 /\ lo + b - 1 <= n - 1
    <2>1. a \in 1..m /\ b \in 1..m /\ m = hi - lo + 1
      BY <1>2, <1>5
    <2> QED
      BY <1>1, <1>3, <1>5, <2>1
  <1>8. \A x, y \in 1..n : x <= y => /\ ss[x].value \in Nat /\ ss[y].value \in Nat
                                    /\ ss[x].value <= ss[y].value
    BY InOrder DEF n
  <1>9. 2 \in 1..n /\ n - 1 \in 1..n
    BY <1>3 DEF n
  <1>10. /\ ss[2].value <= v[a] /\ ss[2].value <= v[b]
         /\ v[a] <= ss[n - 1].value /\ v[b] <= ss[n - 1].value
         /\ ss[2].value \in Nat /\ ss[n - 1].value \in Nat /\ v[a] \in Nat /\ v[b] \in Nat
    BY <1>6, <1>7, <1>8, <1>9
  <1>11. Recommended2(ss) = v[a] + v[b]
    BY <1>5 DEF Recommended2, v, kept
  <1> DEFINE x == ss[2].value
             y == ss[n - 1].value
             va == v[a]
             vb == v[b]
  <1>12. 2 * x <= va + vb /\ va + vb <= 2 * y
    <2>1. /\ x <= va /\ x <= vb /\ va <= y /\ vb <= y
          /\ x \in Nat /\ y \in Nat /\ va \in Nat /\ vb \in Nat
      BY <1>10
    <2> HIDE DEF x, y, va, vb
    <2> QED
      BY <2>1
  <1> QED
    BY <1>11, <1>12 DEF n

\* The sums exist, and each is the one before and a weight: by contradiction, at the
\* least number of samples of which that is not so.
LEMMA CumulativeIs ==
  ASSUME NEW ss, Len(ss) \in Nat
  PROVE  /\ Cumulative(ss)[0] = 0
         /\ \A n \in 1..Len(ss) :
               Cumulative(ss)[n] = Cumulative(ss)[n - 1] + CapTrust(ss[n].trust)
  <1> DEFINE L == Len(ss)
             Next0(x, n) == x + CapTrust(ss[n].trust)
             Computes(g, k) == g = [n \in 0..k |-> IF n = 0 THEN 0 ELSE Next0(g[n - 1], n)]
             Missing == {k \in 0..L : ~ \E g : Computes(g, k)}
  <1>1. Missing = {}
    <2>1. SUFFICES ASSUME Missing # {} PROVE FALSE
      OBVIOUS
    <2>2. PICK k \in Missing : \A m \in Missing : k <= m
      <3>1. Missing \in SUBSET Nat
        OBVIOUS
      <3> HIDE DEF Missing
      <3> QED
        BY <2>1, <3>1, LeastIs
    <2>3. k \in 0..L /\ \A g : ~Computes(g, k)
      BY <2>2
    <2>4. k # 0
      <3>1. Computes([n \in 0..0 |-> 0], 0)
        OBVIOUS
      <3> HIDE DEF Computes
      <3> QED
        BY <2>3, <3>1
    <2>5. PICK g : Computes(g, k - 1)
      <3>1. k - 1 \in 0..L /\ ~(k <= k - 1)
        BY <2>3, <2>4
      <3> QED
        BY <2>2, <3>1
    <2> DEFINE h == [n \in 0..k |-> IF n < k THEN g[n] ELSE Next0(g[k - 1], k)]
    <2> HIDE DEF Next0
    <2>6. \A n \in 0..k : h[n] = IF n = 0 THEN 0 ELSE Next0(h[n - 1], n)
      <3>1. SUFFICES ASSUME NEW n \in 0..k
                     PROVE  h[n] = IF n = 0 THEN 0 ELSE Next0(h[n - 1], n)
        OBVIOUS
      <3>2. k \in Nat /\ n \in Nat /\ (n # 0 => n - 1 \in 0..k /\ n - 1 < k /\ h[n - 1] = g[n - 1])
        BY <2>3, <2>4
      <3>3. CASE n = k
        BY <2>4, <3>2, <3>3
      <3>4. CASE n # k
        <4>1. h[n] = g[n] /\ n \in 0..(k - 1)
          BY <3>2, <3>4
        <4>2. g[n] = IF n = 0 THEN 0 ELSE Next0(g[n - 1], n)
          BY <4>1, <2>5
        <4> QED
          BY <4>1, <4>2, <3>2
      <3> QED
        BY <3>3, <3>4
    <2>7. DOMAIN h = 0..k /\ h = [n \in 0..k |-> h[n]]
      OBVIOUS
    <2> HIDE DEF h
    <2>8. Computes(h, k)
      BY <2>6, <2>7
    <2> QED
      BY <2>3, <2>8
  <1>2. PICK g : Computes(g, L)
    BY <1>1
  <1>3. Computes(Cumulative(ss), L)
    BY <1>2 DEF Cumulative
  <1> QED
    BY <1>3

\* What has been added up is a number, and grows.
LEMMA CumulativeGrows ==
  ASSUME NEW ss \in Seq(Samples)
  PROVE  /\ \A n \in 0..Len(ss) : Cumulative(ss)[n] \in Nat
         /\ \A i, j \in 0..Len(ss) : i <= j => Cumulative(ss)[i] <= Cumulative(ss)[j]
  <1> DEFINE L == Len(ss)
             sum == Cumulative(ss)
  <1>1. L \in Nat /\ \A n \in 1..L : CapTrust(ss[n].trust) \in Nat
    <2>1. L \in Nat /\ \A n \in 1..L : ss[n] \in Samples
      OBVIOUS
    <2> QED
      BY <2>1 DEF Samples, CapTrust
  <1>2. sum[0] = 0 /\ \A n \in 1..L : sum[n] = sum[n - 1] + CapTrust(ss[n].trust)
    BY <1>1, CumulativeIs
  <1> HIDE DEF L, sum
  <1>3. \A n \in 0..L : sum[n] \in Nat
    <2> DEFINE Bad == {n \in 0..L : sum[n] \notin Nat}
    <2>1. SUFFICES ASSUME Bad # {} PROVE FALSE
      OBVIOUS
    <2>2. PICK n \in Bad : \A m \in Bad : n <= m
      <3>1. Bad \in SUBSET Nat
        OBVIOUS
      <3> HIDE DEF Bad
      <3> QED
        BY <2>1, <3>1, LeastIs
    <2>3. n # 0
      BY <1>2
    <2>4. n \in 1..L /\ n - 1 \in 0..L /\ ~(n <= n - 1)
      BY <1>1, <2>3
    <2>5. sum[n - 1] \in Nat
      BY <2>2, <2>4
    <2> QED
      BY <1>1, <1>2, <2>4, <2>5
  <1>4. \A i, j \in 0..L : i <= j => sum[i] <= sum[j]
    <2>1. SUFFICES ASSUME NEW i \in 0..L PROVE \A j \in 0..L : i <= j => sum[i] <= sum[j]
      OBVIOUS
    <2> DEFINE Bad == {j \in 0..L : i <= j /\ ~(sum[i] <= sum[j])}
    <2>2. SUFFICES ASSUME Bad # {} PROVE FALSE
      OBVIOUS
    <2>3. PICK j \in Bad : \A m \in Bad : j <= m
      <3>1. Bad \in SUBSET Nat
        OBVIOUS
      <3> HIDE DEF Bad
      <3> QED
        BY <2>2, <3>1, LeastIs
    <2>4. j # i /\ i <= j /\ j \in 0..L /\ ~(sum[i] <= sum[j])
      BY <1>3, <2>3
    <2>5. j \in 1..L /\ j - 1 \in 0..L /\ i <= j - 1 /\ ~(j <= j - 1)
      BY <1>1, <2>4
    <2>6. sum[i] <= sum[j - 1]
      BY <2>3, <2>5
    <2>7. sum[j] = sum[j - 1] + CapTrust(ss[j].trust) /\ CapTrust(ss[j].trust) \in Nat
      BY <1>1, <1>2, <2>5
    <2>8. sum[i] \in Nat /\ sum[j - 1] \in Nat
      BY <1>3, <2>5
    <2> HIDE DEF Bad
    <2> QED
      BY <2>4, <2>6, <2>7, <2>8
  <1> QED
    BY <1>3, <1>4 DEF L, sum

\* At most half of the weight is below the weighted median, and at most half above.
LEMMA HalfIsBefore ==
  ASSUME NEW kept \in Seq(Samples), kept # << >>, Ascending(AllValues(kept)),
         NEW i \in DOMAIN kept
  PROVE  /\ kept[i].value < Weighted(kept) => 2 * Cumulative(kept)[i] <= Weight(kept)
         /\ kept[i].value > Weighted(kept) =>
              2 * (Weight(kept) - Cumulative(kept)[i - 1]) <= Weight(kept)
  <1> DEFINE L == Len(kept)
             sum == Cumulative(kept)
             total == sum[L]
             half == {j \in DOMAIN kept : 2 * sum[j] >= total}
             mid == Min(half)
  <1>1. L \in Nat /\ L >= 1 /\ DOMAIN kept = 1..L
    OBVIOUS
  <1>2. /\ \A n \in 0..L : sum[n] \in Nat
        /\ \A j, k \in 0..L : j <= k => sum[j] <= sum[k]
    BY CumulativeGrows
  <1>3. /\ \A j \in 1..L : kept[j].value \in Nat
        /\ \A j, k \in 1..L : j <= k => kept[j].value <= kept[k].value
    BY InOrder
  <1>4. Weight(kept) = total /\ Weighted(kept) = kept[mid].value
    BY DEF Weight, Weighted
  <1> HIDE DEF L, sum
  <1>5. total \in Nat
    BY <1>1, <1>2
  <1> HIDE DEF total
  <1>6. mid \in half /\ \A j \in half : mid <= j
    <2>1. L \in half
      BY <1>1, <1>2, <1>5 DEF total
    <2>2. half \in SUBSET Nat
      BY <1>1
    <2> HIDE DEF half
    <2> QED
      BY <2>1, <2>2, LeastIs
  <1> HIDE DEF mid
  <1>7. mid \in 1..L /\ 2 * sum[mid] >= total /\ i \in 1..L
    BY <1>1, <1>6
  <1>8. ASSUME kept[i].value < Weighted(kept) PROVE 2 * sum[i] <= total
    <2>1. ~(mid <= i)
      BY <1>3, <1>4, <1>7, <1>8
    <2>2. i \notin half
      BY <1>6, <2>1
    <2>3. i \in 0..L
      BY <1>7
    <2> QED
      BY <1>1, <1>2, <1>5, <1>7, <2>2, <2>3
  <1>9. ASSUME kept[i].value > Weighted(kept) PROVE 2 * (total - sum[i - 1]) <= total
    <2>1. ~(i <= mid)
      BY <1>3, <1>4, <1>7, <1>9
    <2>2. mid \in 0..L /\ i - 1 \in 0..L /\ mid <= i - 1
      BY <1>1, <1>7, <2>1
    <2>3. sum[mid] <= sum[i - 1] /\ sum[mid] \in Nat /\ sum[i - 1] \in Nat
      BY <1>2, <2>2
    <2> QED
      BY <1>5, <1>7, <2>3
  <1> QED
    BY <1>4, <1>8, <1>9 DEF sum

\* Where the quartiles are close to each other, half of the values are close to the
\* median: the middle, with the closer of its two neighbours where that is one too few.
LEMMA HalfAreNear ==
  ASSUME NEW v \in Seq(Nat), Ascending(v), Len(v) >= 4,
         Median2(v) = 0 \/ 50 * Spread4(v) <= 15 * Median2(v)
  PROVE  \E lo, hi \in 1..Len(v) :
           /\ lo <= hi /\ Len(v) <= 2 * (hi - lo + 1)
           /\ \A i \in lo..hi : 17 * Median2(v) <= 40 * v[i] /\ 40 * v[i] <= 23 * Median2(v)
  <1> DEFINE n == Len(v)
             r == Median2(v)
             p == Quantile4(v, 1)
             q == Quantile4(v, 3)
  <1>1. n \in Nat /\ n >= 4 /\ \A i \in 1..n : v[i] \in Nat
    OBVIOUS
  <1>2. \A i, j \in 1..n : i <= j => v[i] <= v[j]
    BY DEF Ascending
  <1>3. PICK e \in 1..n, f \in 1..n : r = v[e] + v[f] /\ e <= f /\ f <= e + 1 /\ e + f = n + 1
    <2>1. n >= 1 /\ DOMAIN v = 1..n
      BY <1>1
    <2> HIDE DEF n
    <2> QED
      BY <2>1, MedianIs DEF n
  <1> DEFINE Near(x) == 17 * r <= 40 * x /\ 40 * x <= 23 * r
  <1>4. v[e] \in Nat /\ v[f] \in Nat /\ v[e] <= v[f] /\ r \in Nat
    BY <1>1, <1>2, <1>3
  <1>5. CASE r = 0
    <2>1. \A i \in 1..f : v[i] = 0
      <3>1. v[f] = 0
        BY <1>3, <1>4, <1>5
      <3>2. ASSUME NEW i \in 1..f PROVE v[i] = 0
        <4>1. i \in 1..n /\ i <= f
          BY <1>1, <1>3
        <4>2. v[i] <= v[f] /\ v[i] \in Nat
          BY <1>1, <1>2, <4>1
        <4> QED
          BY <3>1, <4>2
      <3> QED
        BY <3>2
    <2>2. \A i \in 1..f : Near(v[i])
      BY <1>5, <2>1
    <2>3. 1 \in 1..n /\ n <= 2 * (f - 1 + 1) /\ 1 <= f
      BY <1>1, <1>3
    <2> QED
      BY <2>2, <2>3
  <1>6. CASE 50 * Spread4(v) <= 15 * r
    <2>1. PICK a \in 1..n, b \in 1..n, c \in 1..n, d \in 1..n :
            /\ p \in Nat /\ q \in Nat /\ 2 * b <= n + 1 /\ n + 1 <= 2 * c
            /\ p <= 4 * v[b] /\ 4 * v[c] <= q
            /\ \/ n <= 2 * (c - b + 1)
               \/ /\ a = b - 1 /\ d = c + 1 /\ n <= 2 * (c - b + 2)
                  /\ 2 * (v[d] - v[a]) <= q - p
      BY MiddleIs
    <2>2. 50 * (q - p) <= 15 * r
      BY <1>6 DEF Spread4
    <2> HIDE DEF n, r, p, q
    <2>3. b <= e /\ f <= c /\ b <= c
      <3>1. /\ n \in Nat /\ b \in 1..n /\ c \in 1..n /\ e \in 1..n /\ f \in 1..n
            /\ e <= f /\ f <= e + 1 /\ e + f = n + 1
        BY <1>1, <1>3
      <3>2. 2 * b <= n + 1 /\ n + 1 <= 2 * c
        BY <2>1
      <3> QED
        BY <3>1, <3>2
    <2>4. v[b] <= v[e] /\ v[f] <= v[c] /\ v[b] \in Nat /\ v[c] \in Nat
      BY <1>1, <1>2, <1>3, <2>1, <2>3
    <2>5. ASSUME NEW x \in Nat, v[b] <= x, x <= v[c] PROVE Near(x)
      <3> DEFINE vb == v[b]
                 vc == v[c]
                 ve == v[e]
                 vf == v[f]
      <3>1. /\ p <= 4 * vb /\ vb <= x /\ x <= vc /\ 4 * vc <= q /\ vb <= ve /\ ve <= vf /\ vf <= vc
            /\ vb \in Nat /\ vc \in Nat /\ ve \in Nat /\ vf \in Nat /\ r = ve + vf /\ p \in Nat /\ q \in Nat
        BY <1>3, <1>4, <2>1, <2>4, <2>5
      <3> HIDE DEF vb, vc, ve, vf
      <3> QED
        BY <2>2, <3>1
    <2>6. ASSUME NEW i \in b..c PROVE Near(v[i])
      <3>1. i \in 1..n /\ b <= i /\ i <= c
        BY <1>1, <2>1
      <3>2. v[b] <= v[i] /\ v[i] <= v[c] /\ v[i] \in Nat
        BY <1>1, <1>2, <2>1, <3>1
      <3> QED
        BY <2>5, <3>2
    <2>7. CASE n <= 2 * (c - b + 1)
      BY <2>1, <2>3, <2>6, <2>7 DEF n, r
    <2>8. CASE /\ a = b - 1 /\ d = c + 1 /\ n <= 2 * (c - b + 2)
               /\ 2 * (v[d] - v[a]) <= q - p
      <3>1. Near(v[a]) \/ Near(v[d])
        <4> DEFINE va == v[a]
                   vd == v[d]
                   ve == v[e]
                   vf == v[f]
        <4>1. /\ va \in Nat /\ vd \in Nat /\ ve \in Nat /\ vf \in Nat /\ va <= ve /\ ve <= vf /\ vf <= vd
              /\ r = ve + vf /\ p \in Nat /\ q \in Nat /\ 2 * (vd - va) <= q - p
          <5>1. a <= e /\ f <= d
            BY <1>1, <2>3, <2>8
          <5> QED
            BY <1>1, <1>2, <1>3, <1>4, <2>1, <2>8, <5>1
        <4> HIDE DEF va, vd, ve, vf
        <4>2. Near(va) \/ Near(vd)
          BY <2>2, <4>1
        <4> QED
          BY <4>2 DEF va, vd
      <3>2. CASE Near(v[a])
        <4>1. \A i \in a..c : i = a \/ i \in b..c
          BY <2>1, <2>8
        <4>2. a <= c /\ n <= 2 * (c - a + 1)
          BY <1>1, <2>1, <2>3, <2>8
        <4> QED
          BY <2>6, <3>2, <4>1, <4>2 DEF n, r
      <3>3. CASE Near(v[d])
        <4>1. \A i \in b..d : i = d \/ i \in b..c
          BY <2>1, <2>8
        <4>2. b <= d /\ n <= 2 * (d - b + 1)
          BY <1>1, <2>1, <2>3, <2>8
        <4> QED
          BY <2>6, <3>3, <4>1, <4>2 DEF n, r
      <3> QED
        BY <3>1, <3>2, <3>3
    <2> QED
      BY <2>1, <2>7, <2>8
  <1> QED
    BY <1>5, <1>6

\* Samples are numbers, in order of value.
SamplesHold == samples \in Seq(Samples) /\ Ascending(AllValues(samples))

\* Of samples in order the recommendation is sound.
LEMMA HoldingIsSound == SamplesHold => RecommendationIsSound
  <1> SUFFICES ASSUME SamplesHold PROVE RecommendationIsSound
    OBVIOUS
  <1>1. samples \in Seq(Samples) /\ Ascending(AllValues(samples)) /\ Len(samples) \in Nat
    BY DEF SamplesHold
  <1>2. OneSampleCannotDrag
    BY <1>1, OneIsHarmless DEF OneSampleCannotDrag
  <1> DEFINE kept == Kept(samples)
  <1>3. ASSUME samples # << >>
        PROVE  kept \in Seq(Samples) /\ kept # << >> /\ Ascending(AllValues(kept))
    <2>1. PICK lo \in 1..Len(samples), hi \in 1..Len(samples) :
            lo <= hi /\ kept = SubSeq(samples, lo, hi)
      BY <1>1, <1>3, KeptIs
    <2>2. /\ kept \in Seq(Samples) /\ Len(kept) = hi - lo + 1
          /\ Ascending(AllValues(kept))
      BY <1>1, <2>1, KeptAre
    <2>3. Len(kept) # 0
      BY <2>1, <2>2
    <2> QED
      BY <2>2, <2>3
  <1>4. WeightIsHalved
    <2>1. SUFFICES ASSUME samples # << >>, NEW i \in DOMAIN kept
                   PROVE  /\ kept[i].value < Weighted(kept) => 2 * Cumulative(kept)[i] <= Weight(kept)
                          /\ kept[i].value > Weighted(kept) =>
                               2 * (Weight(kept) - Cumulative(kept)[i - 1]) <= Weight(kept)
      BY Zenon DEF WeightIsHalved
    <2> HIDE DEF kept
    <2> QED
      BY <1>3, <2>1, HalfIsBefore
  <1>5. HighIsAgreement
    <2> DEFINE v == AllValues(kept)
               r == Median2(v)
               near == {i \in DOMAIN kept : 17 * r <= 40 * kept[i].value /\ 40 * kept[i].value <= 23 * r}
    <2>1. SUFFICES ASSUME samples # << >>, Confidence(samples) = "high"
                   PROVE  2 * Cardinality(near) >= Len(kept)
      BY Zenon DEF HighIsAgreement, Recommended2
    <2>2. Len(v) >= 4 /\ (r = 0 \/ 50 * Spread4(v) <= 15 * r)
      BY <2>1 DEF Confidence, KeptSpread4
    <2> HIDE DEF kept
    <2>3. /\ kept \in Seq(Samples) /\ v \in Seq(Nat) /\ Len(v) = Len(kept) /\ Ascending(v)
          /\ \A i \in DOMAIN kept : v[i] = kept[i].value
          /\ DOMAIN kept = 1..Len(kept) /\ Len(kept) \in Nat
      <3>1. kept \in Seq(Samples) /\ Ascending(v)
        BY <1>3, <2>1
      <3> QED
        BY <3>1, ValuesAre
    <2> HIDE DEF v
    <2>4. PICK lo \in 1..Len(v), hi \in 1..Len(v) :
            /\ lo <= hi /\ Len(v) <= 2 * (hi - lo + 1)
            /\ \A i \in lo..hi : 17 * r <= 40 * v[i] /\ 40 * v[i] <= 23 * r
      BY <2>2, <2>3, HalfAreNear
    <2> HIDE DEF r
    <2>5. lo..hi \subseteq near
      <3>1. ASSUME NEW i \in lo..hi PROVE i \in near
        <4>1. i \in 1..Len(kept)
          BY <2>3, <2>4
        <4> QED
          BY <2>3, <2>4, <4>1
      <3> QED
        BY <3>1
    <2>6. IsFiniteSet(near)
      <3>1. near \in SUBSET (1..Len(kept)) /\ IsFiniteSet(1..Len(kept))
        BY <2>3, FS_Interval
      <3> HIDE DEF near
      <3> QED
        BY <3>1, FS_Subset
    <2> HIDE DEF near
    <2>7. Cardinality(lo..hi) = hi - lo + 1 /\ Cardinality(lo..hi) <= Cardinality(near)
      <3>1. lo \in Int /\ hi \in Int /\ ~(lo > hi)
        BY <2>4
      <3>2. Cardinality(lo..hi) = hi - lo + 1
        BY <3>1, FS_Interval
      <3> QED
        BY <2>5, <2>6, <3>2, FS_Subset
    <2>8. Cardinality(near) \in Nat
      BY <2>6, FS_CardinalityType
    <2> QED
      BY <2>3, <2>4, <2>7, <2>8
  <1> QED
    BY <1>2, <1>4, <1>5 DEF RecommendationIsSound

\* At first there are none.
LEMMA SamplesStart == AggregationInit => SamplesHold
  <1> SUFFICES ASSUME AggregationInit PROVE SamplesHold
    OBVIOUS
  <1>1. samples = << >> /\ samples \in Seq(Samples) /\ Len(samples) = 0
    BY DEF AggregationInit
  <1>2. \A i, j \in 1..Len(samples) : i <= j => samples[i].value <= samples[j].value
    <2>1. 1..Len(samples) = {}
      BY <1>1
    <2> QED
      BY <2>1
  <1>3. Ascending(AllValues(samples))
    BY <1>1, <1>2, InOrder
  <1> QED
    BY <1>1, <1>3 DEF SamplesHold

\* A contribution takes its place among them.
LEMMA SamplesStep == SamplesHold /\ [AggregationNext]_samples => SamplesHold'
  <1> SUFFICES ASSUME SamplesHold, [AggregationNext]_samples PROVE SamplesHold'
    OBVIOUS
  <1>1. CASE UNCHANGED samples
    BY <1>1 DEF SamplesHold
  <1>2. ASSUME NEW v \in Values, NEW t \in Trusts, Contribute(v, t) PROVE SamplesHold'
    <2> DEFINE new == [value |-> v, trust |-> t]
    <2>1. new \in Samples
      BY AggregationParameters DEF Samples
    <2>2. PICK i \in 1..Len(samples) + 1 :
            samples' = SubSeq(samples, 1, i - 1) \o << new >> \o SubSeq(samples, i, Len(samples))
      BY <1>2, Zenon DEF Contribute, InsertAt
    <2> HIDE DEF new
    <2>3. samples' \in Seq(Samples)
      <3>1. samples \in Seq(Samples) /\ << new >> \in Seq(Samples)
        BY <2>1 DEF SamplesHold
      <3>2. SubSeq(samples, 1, i - 1) \in Seq(Samples) /\ SubSeq(samples, i, Len(samples)) \in Seq(Samples)
        BY <3>1
      <3> QED
        BY <2>2, <3>1, <3>2
    <2>4. Ordered(samples')
      BY <1>2 DEF Contribute
    <2>5. \A k, j \in 1..Len(samples') : k <= j => samples'[k].value <= samples'[j].value
      <3>1. DOMAIN samples' = 1..Len(samples') /\ Len(samples') \in Nat
        BY <2>3
      <3>2. \A k \in 1..Len(samples') : samples'[k].value \in Nat
        BY <2>3, InOrder
      <3>3. ASSUME NEW k \in 1..Len(samples'), NEW j \in 1..Len(samples'), k <= j
            PROVE  samples'[k].value <= samples'[j].value
        <4>1. k = j \/ k < j
          BY <3>1, <3>3
        <4>2. samples'[k].value \in Nat /\ samples'[j].value \in Nat
          BY <3>2
        <4>3. k < j => samples'[k].value < samples'[j].value \/ samples'[k].value = samples'[j].value
          BY <2>4, <3>1 DEF Ordered
        <4> QED
          BY <4>1, <4>2, <4>3
      <3> QED
        BY <3>3
    <2>6. Ascending(AllValues(samples'))
      BY <2>3, <2>5, InOrder
    <2> QED
      BY <2>3, <2>6 DEF SamplesHold, AllValues, Ascending
  <1> QED
    BY <1>1, <1>2 DEF AggregationNext

\* Whatever contributions come: one of them does not take the recommended value out of
\* the range of the others, the weighted value is in the middle of the trust, and "high"
\* confidence is agreement.
THEOREM RecommendationAlwaysIsSound == AggregationSpec => []RecommendationIsSound
  BY SamplesStart, SamplesStep, HoldingIsSound, PTL DEF AggregationSpec
=============================================================================
