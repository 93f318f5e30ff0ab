------------------------------- MODULE MCDesk -------------------------------
(***************************************************************************)
(* What must end or stay in order beside the tables of MCServer, for TLC:  *)
(* print orders, tags, consent, the language of the pages, what a search   *)
(* finds, the calendar and the community's recommendation.  Each behaviour *)
(* runs one of them and leaves the others where they start.                *)
(***************************************************************************)
EXTENDS ShopOrder, TagWrite, Consent, Languages, CatalogSearch,
        CalendarMonths, Aggregation, TLC

CONSTANTS r1, r2, r3, r4, r5, plas, petgs

\* Two rows of one name, one of them imported, and one that only sorts like them; a
\* fixture; three rows of the first material, and one near no colour asked for.
KeyMap == r1 :> 1 @@ r2 :> 1 @@ r3 :> 3 @@ r4 :> 4 @@ r5 :> 5
LabelMap == r1 :> 1 @@ r2 :> 1 @@ r3 :> 1 @@ r4 :> 3 @@ r5 :> 0
NearnessMap == r1 :> 2 @@ r2 :> 1 @@ r3 :> 1 @@ r4 :> 3 @@ r5 :> 0
MaterialMap == [r \in {r1, r2, r3, r4, r5} |-> IF r \in {r4, r5} THEN petgs ELSE plas]
PopularityMap == plas :> 1 @@ petgs :> 2

\* Every month of two years that end with a leap year and of two that end with
\* the common century year 2100.
SampleYears == {2023, 2024, 2099, 2100}
SampleDays  == {1, 15} \cup 28..31
SampleTerms == {1, 12}

VARIABLE part      \* the part that runs

deskVars == <<part, shopVars, tagVars, consentVars, languageVars, searchVars,
              vars, samples>>

\* The parts that do not run keep one of their initial states: the latest of the
\* dates.
DeskInit ==
    /\ part \in {"orders", "tags", "consent", "languages", "reader", "box",
                 "preview", "calendar", "values"}
    /\ ShopInit /\ TagInit /\ ConsentInit /\ LanguagesInit /\ SearchInit
    /\ AggregationInit /\ Init
    /\ part # "calendar" => \A d \in Starts : NotAfter(d, first)
    /\ part # "languages" => prefers = English

DeskNext ==
    \/ /\ part = "orders" /\ ShopNext
       /\ UNCHANGED <<part, tagVars, consentVars, languageVars, searchVars, vars, samples>>
    \/ /\ part = "tags" /\ TagNext
       /\ UNCHANGED <<part, shopVars, consentVars, languageVars, searchVars, vars, samples>>
    \/ /\ part = "consent" /\ ConsentNext
       /\ UNCHANGED <<part, shopVars, tagVars, languageVars, searchVars, vars,
                      samples>>
    \/ /\ part = "languages" /\ LanguagesNext
       /\ UNCHANGED <<part, shopVars, tagVars, consentVars, searchVars, vars,
                      samples>>
    \/ /\ part = "reader" /\ SearchNext
       /\ UNCHANGED <<part, shopVars, tagVars, consentVars, languageVars, vars, samples,
                      box, sent, colours>>
    \/ /\ part = "box" /\ SearchNext
       /\ UNCHANGED <<part, shopVars, tagVars, consentVars, languageVars, vars, samples,
                      rows, colours, reader>>
    \/ /\ part = "preview" /\ SearchNext
       /\ UNCHANGED <<part, shopVars, tagVars, consentVars, languageVars, vars, samples,
                      box, sent, reader>>
    \/ /\ part = "calendar" /\ Next
       /\ UNCHANGED <<part, shopVars, tagVars, consentVars, languageVars, searchVars,
                      samples>>
    \/ /\ part = "values" /\ AggregationNext
       /\ UNCHANGED <<part, shopVars, tagVars, consentVars, languageVars, searchVars, vars>>

\* What a visitor has chosen holds: a refusal in the tabs that have heard of it, and
\* the language.
ChoicesHold == RefusalHolds /\ LanguagesAreSound

DeskSpec == DeskInit /\ [][DeskNext]_deskVars /\ TagFairness /\ ShopFairness
=============================================================================
