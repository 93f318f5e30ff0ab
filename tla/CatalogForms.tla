---------------------------- MODULE CatalogForms ----------------------------
(***************************************************************************)
(* The forms that choose a filament in four steps, brand, material,        *)
(* product and colour: the form that submits a profile                     *)
(* (web/app/submit/submit-form.tsx), the one that exports a preset         *)
(* (web/app/export/export-form.tsx), which goes on to a profile, the one   *)
(* that finds a colour to print a label for (web/app/label/page.tsx), and  *)
(* the picker of a spool (web/app/components/filament-catalog-picker.tsx). *)
(*                                                                         *)
(* A choice clears those below it, and effects ask the server for the next *)
(* list.  No request is ever cancelled: its answer is applied whenever it  *)
(* comes, by a handler that still sees the form as it was when it asked,   *)
(* and it may choose by itself when the list has one member.  A list stays *)
(* on show until its successor comes, so that its members can be chosen    *)
(* under another brand or product.                                         *)
(*                                                                         *)
(* Every list of the server is whole; a product or colour that is created  *)
(* is one of those, and comes back under its own uuid.                     *)
(***************************************************************************)
EXTENDS Naturals, Sequences, SequencesExt

CONSTANTS
    Unset,             \* an empty field
    Makers, Kinds,     \* brands, and codes of materials
    Filaments,         \* products
    Colours,           \* variants; each has one published profile
    MakerOf, KindOf,   \* of a product
    FilamentOf,        \* of a colour
    MaxAsked           \* bound: a user acts while fewer requests are unanswered

ASSUME FormParameters ==
    /\ IsFiniteSet(Filaments) /\ IsFiniteSet(Colours)
    /\ Unset \notin Makers \cup Kinds \cup Filaments \cup Colours
    /\ MakerOf \in [Filaments -> Makers] /\ KindOf \in [Filaments -> Kinds]
    /\ FilamentOf \in [Colours -> Filaments]
    /\ MaxAsked \in Nat

VARIABLES
    form,              \* "submit", "export", "label" or "picker"
    field,             \* what the form shows as chosen
    listed,            \* the members its lists show
    asked,             \* requests without an answer, in the order they were sent
    first,             \* the profile the export page was opened with
    outside,           \* the user took the profile on show, which no list showed
    astray,            \* an answer was lost, or came before an earlier one
    hasty              \* the user chose while a request was unanswered

formVars == <<form, field, listed, asked, first, outside, astray, hasty>>

\* A profile goes by its colour.
Blank == [maker |-> Unset, kind |-> Unset, filament |-> Unset,
          colour |-> Unset, profile |-> Unset]

FilamentsOf(m, k) ==
    {f \in Filaments : MakerOf[f] = m /\ k \in {Unset, KindOf[f]}}
ColoursOf(f) == {c \in Colours : FilamentOf[c] = f}

FormKinds == {"submit", "export", "label", "picker"}

Requests == {"opened", "detail", "filaments", "colours", "profiles",
             "new filament", "new colour"}

Fields == [maker : Makers \cup {Unset}, kind : Kinds \cup {Unset},
           filament : Filaments \cup {Unset},
           colour : Colours \cup {Unset}, profile : Colours \cup {Unset}]

FormsTypeOK ==
    /\ form \in FormKinds /\ field \in Fields
    /\ listed \in [filaments : SUBSET Filaments, colours : SUBSET Colours,
                   profiles : SUBSET Colours]
    /\ asked \in Seq([for : Requests, seen : Fields])
    /\ first \in Colours \cup {Unset} /\ outside \in BOOLEAN
    /\ astray \in BOOLEAN /\ hasty \in BOOLEAN
-----------------------------------------------------------------------------
(* Effects: what a form does after its fields went from old to new.        *)

FilamentsDepend(old, new) ==
    \/ new.maker # old.maker \/ new.kind # old.kind \/ new.filament # old.filament

\* In the picker also on the list of products itself, when it is set anew.
ColoursDepend(old, new, fresh) ==
    \/ new.filament # old.filament \/ new.colour # old.colour
    \/ form = "picker" /\ (fresh \/ new.maker # old.maker \/ new.kind # old.kind)

ProfilesDepend(old, new) ==
    form = "export" /\ (new.colour # old.colour \/ new.profile # old.profile)

\* In the submit form a colour fetches its product, material and brand; in the
\* picker a product does when the material is empty.
Hydrates(old, new) ==
    \/ form = "submit" /\ new.colour \notin {Unset, old.colour}
    \/ /\ form = "picker" /\ new.filament # Unset /\ new.kind = Unset
       /\ new.filament # old.filament \/ new.kind # old.kind

\* One request, if it is wanted.
Ask(for, wanted, new) == IF wanted THEN <<[for |-> for, seen |-> new]>> ELSE << >>

Asks(old, new, fresh) ==
    Ask("detail", Hydrates(old, new), new)
    \o Ask("filaments", new.maker # Unset /\ FilamentsDepend(old, new), new)
    \o Ask("colours", new.filament # Unset /\ ColoursDepend(old, new, fresh), new)
    \o Ask("profiles", new.colour # Unset /\ ProfilesDepend(old, new), new)

\* Without a product the label's form has no colour.
Settled(old, new) ==
    IF form = "label" /\ new.filament = Unset /\ ColoursDepend(old, new, FALSE)
    THEN [new EXCEPT !.colour = Unset] ELSE new

\* What is below an empty field is emptied, the rest asked for.
Effects(old, new, lists, fresh) ==
    [filaments |-> IF new.maker = Unset /\ FilamentsDepend(old, new)
                   THEN {} ELSE lists.filaments,
     colours |-> IF new.filament = Unset /\ ColoursDepend(old, new, fresh)
                 THEN {} ELSE lists.colours,
     profiles |-> IF new.colour = Unset /\ ProfilesDepend(old, new)
                  THEN {} ELSE lists.profiles]

Become(new, lists, rest, fresh) ==
    /\ field' = Settled(field, new)
    /\ listed' = Effects(field, new, lists, fresh)
    /\ asked' = rest \o Asks(field, new, fresh)
    /\ UNCHANGED <<form, first>>

\* A profile that stays is the user's as before.
ProfileStays == outside' = (outside /\ field'.profile = field.profile)
-----------------------------------------------------------------------------
(* The user.                                                               *)

\* Mutant of Cleared: the colour stays.
Cleared_KeepColour(old) == [old EXCEPT !.filament = Unset, !.profile = Unset]

Cleared(old) == [old EXCEPT !.filament = Unset, !.colour = Unset, !.profile = Unset]

NoProfiles == [listed EXCEPT !.profiles = {}]

Pick(new, lists) ==
    /\ Len(asked) < MaxAsked
    /\ Become(new, lists, asked, FALSE)
    /\ hasty' = (hasty \/ asked # << >>)
    /\ UNCHANGED astray

Act(new, lists) == Pick(new, lists) /\ ProfileStays

\* A brand that was created is chosen like one of the list.
PickMaker(m) == Act([Cleared(field) EXCEPT !.maker = m], NoProfiles)

\* A product of another material is given up, if the list shows it.
PickKind(k) ==
    LET Leaves == \/ field.filament = Unset
                  \/ field.filament \in listed.filaments /\ KindOf[field.filament] # k
    IN IF Leaves THEN Act([Cleared(field) EXCEPT !.kind = k], NoProfiles)
                 ELSE Act([field EXCEPT !.kind = k], listed)

PickFilament(f) ==
    /\ field.maker # Unset
    /\ f \in listed.filaments \cup {Unset}
    /\ Act([Cleared(field) EXCEPT !.filament = f,
                !.kind = IF f = Unset THEN @ ELSE KindOf[f]], NoProfiles)

PickColour(c) ==
    /\ field.filament # Unset
    /\ c \in listed.colours \cup {Unset}
    /\ Act([field EXCEPT !.colour = c, !.profile = Unset], NoProfiles)

\* The profile the page was opened with is always offered as well, by its uuid,
\* even without a colour.
PickProfile(p) ==
    /\ form = "export" /\ ~(field.colour = Unset /\ first = Unset)
    /\ p \in listed.profiles \cup {first, Unset} /\ p # field.profile
    /\ Pick([field EXCEPT !.profile = p], listed)
    /\ outside' = (p \notin listed.profiles \cup {Unset})

\* The submit form and the picker create what the list does not have.
Create(for) ==
    /\ form \in {"submit", "picker"} /\ Len(asked) < MaxAsked
    /\ asked' = Append(asked, [for |-> for, seen |-> field])
    /\ hasty' = (hasty \/ asked # << >>)
    /\ UNCHANGED <<form, field, listed, first, outside, astray>>

CreateFilament == field.maker # Unset /\ field.kind # Unset /\ Create("new filament")
CreateColour == field.filament # Unset /\ Create("new colour")
-----------------------------------------------------------------------------
(* Answers, to a handler that saw the fields as seen.                      *)

\* The forms' setters change single fields; the picker hands its owner the
\* whole selection, as the handler saw it.
Base(seen) == IF form = "picker" THEN seen ELSE field

\* A list of one member is chosen from at once, if nothing was chosen.
FilamentsAnswered(seen, rest) ==
    LET rows == FilamentsOf(seen.maker, seen.kind)
        only == seen.filament = Unset /\ Cardinality(rows) = 1
        new == IF only THEN [Base(seen) EXCEPT !.filament = CHOOSE f \in rows : TRUE,
                                               !.colour = Unset]
                       ELSE field
        profiles == IF only THEN {} ELSE listed.profiles
    IN Become(new, [listed EXCEPT !.filaments = rows, !.profiles = profiles],
              rest, TRUE)

ColoursAnswered(seen, rest) ==
    LET rows == ColoursOf(seen.filament)
        only == seen.colour = Unset /\ Cardinality(rows) = 1
        new == IF only THEN [Base(seen) EXCEPT !.colour = CHOOSE c \in rows : TRUE]
                       ELSE field
        profiles == IF only THEN {} ELSE listed.profiles
    IN Become(new, [listed EXCEPT !.colours = rows, !.profiles = profiles],
              rest, FALSE)

ProfilesAnswered(seen, rest) ==
    Become(IF seen.profile = Unset THEN [field EXCEPT !.profile = seen.colour]
                                   ELSE field,
           [listed EXCEPT !.profiles = {seen.colour}], rest, FALSE)

\* The product of the colour, or the picker's own, with what is above it.
DetailAnswered(seen, rest) ==
    LET f == IF form = "submit" THEN FilamentOf[seen.colour] ELSE seen.filament
        colours == IF form = "submit" THEN {seen.colour} ELSE {}
    IN Become([Base(seen) EXCEPT !.maker = MakerOf[f], !.kind = KindOf[f],
                                 !.filament = f],
              [listed EXCEPT !.colours = @ \cup colours], rest, FALSE)

\* The page was opened with a profile: its colour and all above it.
OpenedAnswered(seen, rest) ==
    LET f == FilamentOf[seen.profile]
    IN Become([field EXCEPT !.maker = MakerOf[f], !.kind = KindOf[f],
                            !.filament = f, !.colour = seen.profile],
              listed, rest, FALSE)

FilamentCreated(seen, rest) ==
    \E f \in FilamentsOf(seen.maker, seen.kind) :
        Become([Cleared(Base(seen)) EXCEPT !.filament = f],
               [listed EXCEPT !.filaments = FilamentsOf(seen.maker, seen.kind)],
               rest, TRUE)

ColourCreated(seen, rest) ==
    \E c \in ColoursOf(seen.filament) :
        Become([Base(seen) EXCEPT !.colour = c],
               [listed EXCEPT !.colours = ColoursOf(seen.filament)], rest, FALSE)

Answered(request, rest) ==
    CASE request.for = "opened" -> OpenedAnswered(request.seen, rest)
      [] request.for = "detail" -> DetailAnswered(request.seen, rest)
      [] request.for = "filaments" -> FilamentsAnswered(request.seen, rest)
      [] request.for = "colours" -> ColoursAnswered(request.seen, rest)
      [] request.for = "profiles" -> ProfilesAnswered(request.seen, rest)
      [] request.for = "new filament" -> FilamentCreated(request.seen, rest)
      [] request.for = "new colour" -> ColourCreated(request.seen, rest)

Answer(i) ==
    /\ Answered(asked[i], RemoveAt(asked, i))
    /\ astray' = (astray \/ i > 1)
    /\ ProfileStays /\ UNCHANGED hasty

\* A list that could not be fetched is empty; of the rest nothing is seen.
FailAnswer(i) ==
    LET lists == [filaments |-> IF asked[i].for = "filaments" THEN {} ELSE listed.filaments,
                  colours |-> IF asked[i].for = "colours" THEN {} ELSE listed.colours,
                  profiles |-> IF asked[i].for = "profiles" THEN {} ELSE listed.profiles]
    IN /\ Become(field, lists, RemoveAt(asked, i), asked[i].for = "filaments")
       /\ astray' = TRUE
       /\ ProfileStays /\ UNCHANGED hasty
-----------------------------------------------------------------------------
\* A form is opened empty; or, but for the label's, for a colour, a profile, or a
\* spool that knows all but its material.
Opened(c) ==
    CASE form = "submit" -> [Blank EXCEPT !.colour = c]
      [] form = "export" -> [Blank EXCEPT !.profile = c]
      [] form = "picker" -> [Blank EXCEPT !.maker = MakerOf[FilamentOf[c]],
                                 !.filament = FilamentOf[c], !.colour = c]
      [] OTHER -> Blank

FormsInit ==
    /\ form \in FormKinds
    /\ field \in {Blank} \cup {Opened(c) : c \in Colours}
    /\ listed = [filaments |-> {}, colours |-> {}, profiles |-> {}]
    /\ asked = (IF field.profile = Unset THEN << >>
                ELSE <<[for |-> "opened", seen |-> field]>>) \o Asks(Blank, field, FALSE)
    /\ first = field.profile /\ outside = FALSE
    /\ astray = FALSE /\ hasty = FALSE

FormsNext ==
    \/ \E m \in Makers \cup {Unset} : PickMaker(m)
    \/ \E k \in Kinds \cup {Unset} : PickKind(k)
    \/ \E f \in Filaments \cup {Unset} : PickFilament(f)
    \/ \E c \in Colours \cup {Unset} : PickColour(c)
    \/ \E p \in Colours \cup {Unset} : PickProfile(p)
    \/ CreateFilament \/ CreateColour
    \/ \E i \in DOMAIN asked : Answer(i) \/ FailAnswer(i)

FormsSpec == FormsInit /\ [][FormsNext]_formVars
-----------------------------------------------------------------------------
(* What must hold.                                                         *)

Fits ==
    /\ field.colour # Unset => FilamentOf[field.colour] = field.filament
    /\ field.filament # Unset => MakerOf[field.filament] = field.maker

KindFits == field.filament # Unset => field.kind \in {Unset, KindOf[field.filament]}

ProfileFits == field.profile \in {Unset, field.colour} \/ outside

\* When every request was answered in the order they were sent, brand, material,
\* product and colour belong together, as long as nobody chooses while a list is
\* under way; and the exported profile is of the colour, unless the user took the
\* one the page was opened with, which is offered under every colour, and has
\* chosen no brand, product or colour since.  The submit form, which sends the
\* colour, shows its product and brand however hastily it was filled in.
SelectionFits ==
    asked = << >> /\ ~astray =>
        /\ ~hasty => Fits /\ KindFits /\ ProfileFits
        /\ form = "submit" /\ field.colour # Unset => Fits
=============================================================================
