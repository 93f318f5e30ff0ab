---------------------------- MODULE ProfileVotes ----------------------------
(***************************************************************************)
(* Thumbs up and down for one calibration profile                          *)
(* (packages/db/src/profile-votes.ts, the route of apps/api/src/routes.ts  *)
(* and web/app/components/profile-vote-buttons.tsx).                       *)
(*                                                                         *)
(* A vote is a row of profile_votes, unique by profile and voter.  The     *)
(* handler writes the row and then, in another statement, counts the rows  *)
(* into the profile.  It never awaits, so nobody comes between, but the    *)
(* process may stop there.  A page sends the vote its buttons should end   *)
(* up with, never "the other one", and any answer may be lost.             *)
(* A page that was told of a loss is not used before the request it gave   *)
(* up was carried out or is lost as well.                                  *)
(***************************************************************************)
EXTENDS Integers, FiniteSets

CONSTANTS
    Voters,            \* one voter key each: an account or a browser
    Nobody,
    Threshold          \* COMMUNITY_VERIFIED_THRESHOLD

ASSUME VotesParameters == Nobody \notin Voters /\ Threshold \in Nat \ {0}

VARIABLES
    vote,              \* the value of a voter's row, 0 when there is none
    counted,           \* what the profile says of them
    counting,          \* whose row was just written, not yet counted
    torn,              \* the process stopped in between, nobody voted since
    page               \* what a page shows, waits for, and may have missed

voteVars == <<vote, counted, counting, torn, page>>

Values == {-1, 0, 1}

Count(rows) ==
    LET Up == Cardinality({v \in Voters : rows[v] = 1})
        Down == Cardinality({v \in Voters : rows[v] = -1})
    IN [up |-> Up, down |-> Down, verified |-> Up - Down >= Threshold]

VotesTypeOK ==
    /\ vote \in [Voters -> Values]
    /\ counted \in [up : Nat, down : Nat, verified : BOOLEAN]
    /\ counting \in Voters \cup {Nobody}
    /\ torn \in BOOLEAN
    /\ page \in [Voters -> [shown : Values, asked : Values, missed : BOOLEAN,
                            state : {"idle", "asked", "done"}]]
-----------------------------------------------------------------------------
\* A click: the button that is lit takes the vote back.
Click(v, thumb) ==
    /\ page[v].state = "idle"
    /\ page' = [page EXCEPT ![v].state = "asked",
                            ![v].asked = IF page[v].shown = thumb THEN 0
                                                                  ELSE thumb]
    /\ UNCHANGED <<vote, counted, counting, torn>>

\* Inserted, updated or deleted: the row ends up with the value asked for.
Stored(old, asked) == asked

\* castProfileVote, up to the row.
CastProfileVote(v) ==
    /\ counting = Nobody /\ page[v].state = "asked"
    /\ vote' = [vote EXCEPT ![v] = Stored(@, page[v].asked)]
    /\ counting' = v
    /\ UNCHANGED <<counted, torn, page>>

\* Mutant of Recounted: what changed is added to what was counted before.
Recounted_Added(v) ==
    LET Up == counted.up + (IF vote[v] = 1 THEN 1 ELSE 0)
        Down == counted.down + (IF vote[v] = -1 THEN 1 ELSE 0)
    IN [up |-> Up, down |-> Down, verified |-> Up - Down >= Threshold]

Recounted(v) == Count(vote)

\* recomputeProfileVotes, and the answer is on its way.
RecomputeProfileVotes ==
    /\ counting # Nobody
    /\ counted' = Recounted(counting)
    /\ torn' = FALSE
    /\ page' = [page EXCEPT ![counting].state = "done"]
    /\ counting' = Nobody
    /\ UNCHANGED vote

\* The answer shows the vote that was asked for.
Answered(v) ==
    /\ page[v].state = "done"
    /\ page' = [page EXCEPT ![v] = [shown |-> @.asked, asked |-> 0,
                                    missed |-> FALSE, state |-> "idle"]]
    /\ UNCHANGED <<vote, counted, counting, torn>>

\* The request or its answer is lost: the page says so and shows what it did.
Lost(v) ==
    /\ page[v].state # "idle" /\ counting # v
    /\ page' = [page EXCEPT ![v].state = "idle", ![v].asked = 0,
                            ![v].missed = TRUE]
    /\ UNCHANGED <<vote, counted, counting, torn>>

\* The page is loaded anew: getProfileVoteSummary.
Refresh(v) ==
    /\ counting = Nobody /\ page[v].state = "idle"
    /\ page' = [page EXCEPT ![v].shown = vote[v], ![v].missed = FALSE]
    /\ UNCHANGED <<vote, counted, counting, torn>>

\* The process stops after the row; the request gets no answer.
StopVoting ==
    /\ counting # Nobody
    /\ page' = [page EXCEPT ![counting].state = "idle",
                            ![counting].asked = 0, ![counting].missed = TRUE]
    /\ counting' = Nobody /\ torn' = TRUE
    /\ UNCHANGED <<vote, counted>>

VotesInit ==
    /\ vote = [v \in Voters |-> 0]
    /\ counted = Count(vote)
    /\ counting = Nobody /\ torn = FALSE
    /\ page = [v \in Voters |-> [shown |-> 0, asked |-> 0, missed |-> FALSE,
                                 state |-> "idle"]]

VotesNext ==
    \/ \E v \in Voters :
          \/ \E thumb \in {1, -1} : Click(v, thumb)
          \/ CastProfileVote(v) \/ Answered(v) \/ Lost(v) \/ Refresh(v)
    \/ RecomputeProfileVotes
    \/ StopVoting

VotesSpec == VotesInit /\ [][VotesNext]_voteVars
-----------------------------------------------------------------------------
(* What must hold.                                                         *)

\* The profile's counters and its badge are those of the votes there are,
\* however often voters flip, take back or repeat a vote: a stop between the
\* row and the count is all that sets them apart, and the next vote of anybody
\* puts that right.
CountsAreTheVotes == (counting = Nobody /\ ~torn) => counted = Count(vote)

=============================================================================
