-------------------------- MODULE ProfileRevisions --------------------------
(***************************************************************************)
(* Calibration profiles and their revisions: the routes of                 *)
(* apps/api/src/routes.ts and routes-extra.ts that create, revise, publish,*)
(* fork, confirm and report, and the tables calibration_profiles,          *)
(* calibration_revisions and profile_confirmations.                        *)
(*                                                                         *)
(* A route writes its rows one statement at a time and without a           *)
(* transaction.  It does not await between them, so one route is at work   *)
(* (hand) at a time, but the process may stop after any statement.         *)
(***************************************************************************)
EXTENDS Integers, Sequences, SequencesExt, FiniteSetsExt

CONSTANTS
    NoProfile,
    Profiles,
    Confirmers,        \* users who confirm or report
    MaxRevisions       \* bound: revisions of one profile

ASSUME ProfileParameters ==
    NoProfile \notin Profiles /\ MaxRevisions \in Nat \ {0}

VARIABLES
    profiles,          \* calibration_profiles
    revisions,         \* calibration_revisions of a profile, in order of id
    current,           \* currentRevisionId, as a place in revisions; 0 is none
    confirmations,     \* profile_confirmations
    hand,              \* the route at work and how far it got
    cut                \* profiles whose publication the process never finished

profileVars == <<profiles, revisions, current, confirmations, hand, cut>>

Status == {"draft", "published", "superseded"}
Resting == [doing |-> "nothing", profile |-> NoProfile, status |-> "draft"]

Place(p) == DOMAIN revisions[p]
PublishedOf(p) == {i \in Place(p) : revisions[p][i].status = "published"}
Numbers(p) == {revisions[p][i].number : i \in Place(p)}

ProfilesTypeOK ==
    /\ profiles \subseteq Profiles
    /\ revisions \in [Profiles -> BoundedSeq([number : 1..MaxRevisions,
                                              status : Status], MaxRevisions)]
    /\ \A p \in Profiles : current[p] \in 0..Len(revisions[p])
    /\ \A c \in confirmations :
          c.profile \in profiles /\ c.place \in Place(c.profile) /\ c.user \in Confirmers
    /\ hand \in [doing : {"nothing", "insert", "point", "supersede"},
                 profile : Profiles \cup {NoProfile}, status : Status]
    /\ cut \subseteq Profiles
-----------------------------------------------------------------------------
(* Creating and revising.                                                  *)

AtRest == hand = Resting

\* The row of the profile; its first revision is a draft when an owner creates,
\* forks or imports the profile and published when the community submits it.
InsertProfile(p, status) ==
    /\ AtRest /\ p \notin profiles
    /\ profiles' = profiles \cup {p}
    /\ hand' = [doing |-> "insert", profile |-> p, status |-> status]
    /\ UNCHANGED <<revisions, current, confirmations, cut>>

CreateProfile(p) == InsertProfile(p, "draft")

SubmitCommunityProfile(p) == InsertProfile(p, "published")

\* A preset of another slicer, or a profile document, made a draft.
ImportCreality(p) == InsertProfile(p, "draft")
ImportOpenFilament(p) == InsertProfile(p, "draft")

\* The starter job leaves alone a profile that is there already, even one whose
\* revision a stopped run never wrote.
ImportStarter(p) == InsertProfile(p, "published")

\* A fork needs a source with a current revision; its numbers start at 1.
ForkProfile(p, source) ==
    /\ source \in profiles /\ current[source] # 0
    /\ InsertProfile(p, "draft")

ReviseProfile(p) ==
    /\ AtRest /\ p \in profiles /\ Len(revisions[p]) < MaxRevisions
    /\ hand' = [doing |-> "insert", profile |-> p, status |-> "draft"]
    /\ UNCHANGED <<profiles, revisions, current, confirmations, cut>>

\* The latest revision by number, whatever the profile points to.
NextNumber(p) == Max(Numbers(p) \cup {0}) + 1

\* The unique index on profile and number refuses a number a second time.
InsertRevision ==
    LET p == hand.profile IN
    /\ hand.doing = "insert"
    /\ IF NextNumber(p) \in Numbers(p)
       THEN hand' = Resting /\ UNCHANGED revisions
       ELSE /\ revisions' = [revisions EXCEPT ![p] =
                   Append(@, [number |-> NextNumber(p), status |-> hand.status])]
            /\ hand' = [hand EXCEPT !.doing = "point"]
    /\ UNCHANGED <<profiles, current, confirmations, cut>>

\* Mutant of PointToRevision: the revision pointed to so far is put aside.
PointToRevision_Supersede ==
    LET p == hand.profile IN
    /\ hand.doing = "point"
    /\ current' = [current EXCEPT ![p] = Len(revisions[p])]
    /\ revisions' = IF current[p] = 0 THEN revisions
                    ELSE [revisions EXCEPT ![p][current[p]].status = "superseded"]
    /\ hand' = Resting
    /\ UNCHANGED <<profiles, confirmations, cut>>

PointToRevision ==
    /\ hand.doing = "point"
    /\ current' = [current EXCEPT ![hand.profile] = Len(revisions[hand.profile])]
    /\ hand' = Resting
    /\ UNCHANGED <<profiles, revisions, confirmations, cut>>
-----------------------------------------------------------------------------
(* Publishing: every other published revision is superseded, one by one,   *)
(* then the current one is published.                                      *)

Publishable(p) ==
    /\ p \in profiles /\ current[p] # 0
    /\ revisions[p][current[p]].status \in {"draft", "published"}

BeginPublish(p) ==
    /\ AtRest /\ Publishable(p)
    /\ hand' = [doing |-> "supersede", profile |-> p, status |-> "published"]
    /\ UNCHANGED <<profiles, revisions, current, confirmations, cut>>

Outdated(p) == PublishedOf(p) \ {current[p]}

SupersedeOld(i) ==
    LET p == hand.profile IN
    /\ hand.doing = "supersede" /\ i \in Outdated(p)
    /\ revisions' = [revisions EXCEPT ![p][i].status = "superseded"]
    /\ UNCHANGED <<profiles, current, confirmations, hand, cut>>

\* Mutant of PublishCurrent: the revision is published before the others are
\* superseded.
PublishCurrent_First ==
    LET p == hand.profile IN
    /\ hand.doing = "supersede"
    /\ revisions' = [revisions EXCEPT ![p][current[p]].status = "published"]
    /\ hand' = IF Outdated(p) = {} THEN Resting ELSE hand
    /\ cut' = cut \ {p}
    /\ UNCHANGED <<profiles, current, confirmations>>

PublishCurrent ==
    LET p == hand.profile IN
    /\ hand.doing = "supersede" /\ Outdated(p) = {}
    /\ revisions' = [revisions EXCEPT ![p][current[p]].status = "published"]
    /\ hand' = Resting
    /\ cut' = cut \ {p}
    /\ UNCHANGED <<profiles, current, confirmations>>
-----------------------------------------------------------------------------
(* Confirming.                                                             *)

\* A published revision, or else the current one, whatever its status; the
\* report of a failure asks for the same one.
ConfirmedPlaces(p) ==
    IF PublishedOf(p) # {} THEN PublishedOf(p) ELSE {current[p]} \ {0}

\* The unique index on revision and user refuses a second confirmation.
ConfirmProfile(p, u, i) ==
    LET row == [profile |-> p, place |-> i, user |-> u] IN
    /\ AtRest /\ p \in profiles /\ i \in ConfirmedPlaces(p)
    /\ row \notin confirmations
    /\ confirmations' = confirmations \cup {row}
    /\ UNCHANGED <<profiles, revisions, current, hand, cut>>
-----------------------------------------------------------------------------
\* The process stops after any statement and starts again.
StopRoutes ==
    /\ ~AtRest
    /\ cut' = IF hand.doing = "supersede" THEN cut \cup {hand.profile} ELSE cut
    /\ hand' = Resting
    /\ UNCHANGED <<profiles, revisions, current, confirmations>>

ProfilesInit ==
    /\ profiles = {}
    /\ revisions = [p \in Profiles |-> <<>>]
    /\ current = [p \in Profiles |-> 0]
    /\ confirmations = {}
    /\ hand = Resting
    /\ cut = {}

ProfilesNext ==
    \/ \E p \in Profiles :
          \/ CreateProfile(p) \/ SubmitCommunityProfile(p)
          \/ ImportCreality(p) \/ ImportOpenFilament(p) \/ ImportStarter(p)
          \/ \E source \in Profiles : ForkProfile(p, source)
          \/ ReviseProfile(p) \/ BeginPublish(p)
          \/ \E u \in Confirmers, i \in 1..MaxRevisions : ConfirmProfile(p, u, i)
    \/ InsertRevision \/ PointToRevision
    \/ \E i \in 1..MaxRevisions : SupersedeOld(i)
    \/ PublishCurrent
    \/ StopRoutes

ProfilesSpec == ProfilesInit /\ [][ProfilesNext]_profileVars
-----------------------------------------------------------------------------
(* What must hold.                                                         *)

\* A profile never has two published revisions, in between the statements of
\* publishing and after a stop included: confirming takes any one of them.
AtMostOnePublished ==
    \A p \in Profiles : Cardinality(PublishedOf(p)) <= 1

\* A profile that was published stays published, except while its publication
\* is at work or after one that a stop cut short, until it is repeated.
StaysPublished ==
    \A p \in Profiles :
        (\E i \in Place(p) : revisions[p][i].status = "superseded") =>
            PublishedOf(p) # {} \/ p \in cut \/ hand.profile = p

\* Both: whoever confirms a published profile finds its one published revision.
PublishingIsSound == AtMostOnePublished /\ StaysPublished
=============================================================================
