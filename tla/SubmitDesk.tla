----------------------------- MODULE SubmitDesk -----------------------------
(***************************************************************************)
(* A profile is submitted without an account: the form of                  *)
(* web/app/submit/submit-form.tsx first has the contribution terms put on  *)
(* record (recordContributionTerms, account-privacy.ts), then posts the    *)
(* profile (routes.ts, community/profiles), which lets few through from    *)
(* one address in an hour.                                                 *)
(*                                                                         *)
(* The pages here are open at one address.  While one of them waits only   *)
(* its button is out of use: fields and check box are not, but what is     *)
(* sent is what they were when it was pressed.  Requests and answers may   *)
(* be lost, and the visitor may press again.                               *)
(***************************************************************************)
EXTENDS Naturals, FiniteSets

CONSTANTS
    Visitors,        \* pages
    Chosen,          \* variants that can be chosen
    MaxPerHour,      \* of allowCommunitySubmit, 8 in the code
    Window,          \* an hour, in units of the clock
    MaxClock,        \* bound on time
    MaxPresses       \* bound on the presses of all pages

ASSUME SubmitParameters ==
    /\ IsFiniteSet(Visitors)
    /\ {MaxPerHour, Window, MaxClock, MaxPresses} \subseteq Nat

VARIABLES
    sheet,           \* the variant that is chosen on each page
    stage,           \* where its handler is, and the variant of its press
    presses,
    acceptances,     \* rows of contribution_terms_acceptances, by variant
    submitted,       \* profiles, by variant
    communityHits,   \* communitySubmitHits of the address
    time,            \* the clock
    through, turnedAway
                     \* what this process let through, and when it did not

submitVars == <<sheet, stage, presses, acceptances, submitted, communityHits,
                time, through, turnedAway>>

SubmitTypeOK ==
    /\ sheet \in [Visitors -> Chosen] /\ presses \in 0..MaxPresses
    /\ stage \in [Visitors -> [at : {"form", "terms", "profile", "done"}, variant : Chosen]]
    /\ acceptances \in [Chosen -> Nat] /\ submitted \in [Chosen -> Nat]
    /\ time \in 0..MaxClock
    /\ through \subseteq [at : 0..time, no : 1..Cardinality(through)]
    /\ communityHits \subseteq through
    /\ turnedAway \subseteq 0..time

ServerRests == UNCHANGED <<acceptances, submitted, communityHits, time, through, turnedAway>>
-----------------------------------------------------------------------------
(* The page.                                                               *)

\* A field is changed, by the visitor or by a late answer.
Choose(p, v) ==
    /\ stage[p].at # "done" /\ v # sheet[p]
    /\ sheet' = [sheet EXCEPT ![p] = v]
    /\ UNCHANGED <<stage, presses>> /\ ServerRests

\* onSubmit, up to its first await, with the box ticked.
PressSubmit(p) ==
    /\ stage[p].at = "form"
    /\ presses < MaxPresses /\ presses' = presses + 1
    /\ stage' = [stage EXCEPT ![p] = [at |-> "terms", variant |-> sheet[p]]]
    /\ UNCHANGED sheet /\ ServerRests

Goes(p, at) == stage' = [stage EXCEPT ![p].at = at]

\* An answer that comes leads on, one that is lost ends the handler.
AnsweredOrLost(p, at) == Goes(p, at) \/ Goes(p, "form")

\* A request that is lost ends it as well.
RequestLost(p) ==
    /\ stage[p].at \in {"terms", "profile"}
    /\ Goes(p, "form")
    /\ UNCHANGED <<sheet, presses>> /\ ServerRests
-----------------------------------------------------------------------------
(* The server.                                                             *)

\* Mutant of RecordTerms: the page does not mind when the terms are refused.
RecordTerms_Optional(p) ==
    /\ stage[p].at = "terms"
    /\ \/ acceptances' = [acceptances EXCEPT ![stage[p].variant] = @ + 1]
       \/ UNCHANGED acceptances
    /\ AnsweredOrLost(p, "profile")
    /\ UNCHANGED <<sheet, presses, submitted, communityHits, time, through, turnedAway>>

\* POST contributions/terms.
RecordTerms(p) ==
    /\ stage[p].at = "terms"
    /\ acceptances' = [acceptances EXCEPT ![stage[p].variant] = @ + 1]
    /\ AnsweredOrLost(p, "profile")
    /\ UNCHANGED <<sheet, presses, submitted, communityHits, time, through, turnedAway>>

\* A time the array holds, as the how manieth request of this process it is of.
Hit == [at |-> time, no |-> Cardinality(through) + 1]

Recent == {h \in communityHits : time - h.at < Window}

\* allowCommunitySubmit refuses; the older hits are forgotten.
TurnAway(p) ==
    /\ stage[p].at = "profile" /\ Cardinality(Recent) >= MaxPerHour
    /\ communityHits' = Recent
    /\ turnedAway' = turnedAway \cup {time}
    /\ Goes(p, "form")
    /\ UNCHANGED <<sheet, presses, acceptances, submitted, time, through>>

\* It lets the request through, whatever becomes of it: a body that is refused
\* counts as well.
PostProfile(p) ==
    /\ stage[p].at = "profile" /\ Cardinality(Recent) < MaxPerHour
    /\ communityHits' = Recent \cup {Hit}
    /\ through' = through \cup {Hit}
    /\ \/ /\ submitted' = [submitted EXCEPT ![stage[p].variant] = @ + 1]
          /\ AnsweredOrLost(p, "done")
       \/ UNCHANGED submitted /\ Goes(p, "form")
    /\ UNCHANGED <<sheet, presses, acceptances, time, turnedAway>>

\* The hits are in memory; a request under way is lost.
RestartApi ==
    /\ communityHits' = {} /\ through' = {} /\ turnedAway' = {}
    /\ stage' = [p \in Visitors |-> IF stage[p].at = "done" THEN stage[p]
                                    ELSE [stage[p] EXCEPT !.at = "form"]]
    /\ UNCHANGED <<sheet, presses, acceptances, submitted, time>>

TimePasses ==
    /\ time < MaxClock /\ time' = time + 1
    /\ UNCHANGED <<sheet, presses, stage, acceptances, submitted, communityHits, through, turnedAway>>
-----------------------------------------------------------------------------
SubmitInit ==
    /\ sheet \in [Visitors -> Chosen] /\ presses = 0
    /\ stage = [p \in Visitors |-> [at |-> "form", variant |-> sheet[p]]]
    /\ acceptances = [v \in Chosen |-> 0] /\ submitted = [v \in Chosen |-> 0]
    /\ communityHits = {} /\ time = 0 /\ through = {} /\ turnedAway = {}

SubmitNext ==
    \/ \E p \in Visitors :
          \/ \E v \in Chosen : Choose(p, v)
          \/ PressSubmit(p) \/ RequestLost(p)
          \/ RecordTerms(p) \/ TurnAway(p) \/ PostProfile(p)
    \/ RestartApi \/ TimePasses

SubmitSpec == SubmitInit /\ [][SubmitNext]_submitVars
-----------------------------------------------------------------------------
\* However often visitors press, change what they have entered or lose answers, no
\* profile of a variant is stored without an acceptance of the terms that names
\* the variant: there are never more profiles than acceptances.
NothingWithoutTerms == \A v \in Chosen : submitted[v] <= acceptances[v]

Within(t) == {h \in through : h.at <= t /\ t - h.at < Window}

\* While the process lives, an address gets no more than its share through in any
\* hour, and is turned away only when it has had its share in the last hour.
ShareIsExact ==
    /\ \A t \in 0..time : Cardinality(Within(t)) <= MaxPerHour
    /\ \A t \in turnedAway : Cardinality(Within(t)) = MaxPerHour

SubmissionsAreSound == NothingWithoutTerms /\ ShareIsExact
=============================================================================
