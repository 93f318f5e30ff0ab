------------------------------ MODULE RfidForm ------------------------------
(***************************************************************************)
(* What is written on a Creality tag: the page it is entered on            *)
(* (web/app/rfid/rfid-form.tsx), and the two programs that encode it, the  *)
(* site (packages/rfid-cfs behind POST /rfid/encode) and the helper on the *)
(* user's machine (bridge/src/cfs.rs behind /v1/rfid/...), in two          *)
(* languages.  Scripts may call both with whatever they like.              *)
(*                                                                         *)
(* A text is a record of its fields; a field that is padded is a sequence  *)
(* of characters.  The cipher takes texts to blocks one to one and is left *)
(* out.  How a tag is written and read back is TagWrite's.                 *)
(***************************************************************************)
EXTENDS Naturals, Sequences, FiniteSets

CONSTANTS
    Codes,             \* materials, by their number
    SiteNames, HelperNames, \* those that have a name at the site, in the helper
    Colours, DefaultColour,
    Weights,           \* of a full spool, those that both know
    SerialLength,      \* 6 in the code
    Mappings,          \* rfid_mappings: a sequence of material, colour and variant
    PrintProfiles,     \* each variant's profiles, a sequence
    AnyColour,         \* a mapping's colour that is null
    Refused,
    MaxEdits, MaxAsked \* bounds: edits, and buttons pressed

ASSUME RfidParameters ==
    /\ SiteNames \subseteq Codes /\ HelperNames \subseteq SiteNames
    /\ Codes # {} /\ Weights # {} /\ DefaultColour \in Colours
    /\ Mappings \in Seq([material : Codes, colour : Colours \cup {AnyColour},
                        variant : DOMAIN PrintProfiles])
    /\ \A v \in DOMAIN PrintProfiles : PrintProfiles[v] = << >> \/ 1 \in DOMAIN PrintProfiles[v]
    /\ SerialLength \in Nat \ {0}
    /\ MaxEdits \in Nat /\ MaxAsked \in Nat

VARIABLES
    entry,             \* the fields as they are filled in
    edits,
    asked,             \* requests at work, with the entry of their press
    asks,
    shown,             \* the result panel
    busy,              \* whether the page's buttons are disabled
    written,           \* history: what the page put on tags
    installed          \* history: profiles the helper installed

rfidVars == <<entry, edits, asked, asks, shown, busy, written, installed>>

Unshown == "nothing"
Zero == 0              \* the characters: the digit nought, another, and one that is
One == 1               \* not printable ASCII
Odd == 2

\* What each field may hold, the page's fields and those of a script.
Fields == [material |-> [form : {"code", "generic", "name"}, of : Codes],
           colour |-> {c \in [form : {"#", "0", "", "none"}, hex : BOOLEAN, of : Colours] :
                          c.form = "none" => ~c.hex},
           weight |-> [of : Weights, number : BOOLEAN],
           serial |-> UNION {[1..n -> {Zero, One, Odd}] : n \in 0..SerialLength + 1},
           uid |-> {"none", "plain", "spaced", "short", "unhex"}]

Usual == [material |-> [form |-> "code", of |-> CHOOSE c \in Codes : TRUE],
          colour |-> [form |-> "#", hex |-> TRUE, of |-> DefaultColour],
          weight |-> [of |-> CHOOSE w \in Weights : TRUE, number |-> FALSE],
          serial |-> [i \in 1..SerialLength |-> One],
          uid |-> "plain"]

\* What the page's fields can hold: a list of codes, a colour that is made #hex
\* where it can be, a list of weights, and a serial that is not too long.
OnPage(e) ==
    /\ e.material.form = "code" /\ ~e.weight.number /\ Len(e.serial) <= SerialLength
    /\ e.colour.form = "" => ~e.colour.hex

\* ColorField shows what begins with # and is typed, and a colour of its own for
\* all the rest.
Displayed(c) == IF c.form = "#" THEN c ELSE Usual.colour
-----------------------------------------------------------------------------
(* The two encoders.                                                       *)

Printable(c) == c # Odd
Clean(s) == SelectSeq(s, Printable)
Padded(s) == [i \in 1..SerialLength |-> IF i <= Len(s) THEN s[i] ELSE Zero]

\* Mutant of HelperField: the text is cut before characters are left out.
HelperField_CutFirst(s) ==
    Padded(Clean(IF Len(s) > SerialLength THEN SubSeq(s, 1, SerialLength) ELSE s))

\* padField of the site refuses a text that is too long, pad_field cuts it.
SiteField(s) ==
    IF Len(Clean(s)) > SerialLength THEN Refused ELSE Padded(Clean(s))
HelperField(s) == Padded(Clean(s))

Material(m, names) == IF m.form # "name" \/ m.of \in names THEN m.of ELSE Refused

\* The helper does not look at the digits after # or 0.
SiteColour(c) == IF c.hex THEN [hex |-> TRUE, of |-> c.of] ELSE Refused
HelperColour(c) == IF c.hex \/ c.form \in {"#", "0"} THEN [hex |-> c.hex, of |-> c.of] ELSE Refused

SiteLength(w) == w.of
HelperLength(w) == IF w.number THEN Refused ELSE w.of

\* The key of the first four bytes.  The site takes what is not hex for zeros, and
\* gives no key without a uid.
SiteKey(u) ==
    CASE u = "none" -> Unshown [] u \in {"plain", "spaced"} -> "key"
      [] u = "unhex" -> "zeros" [] u = "short" -> Refused
HelperKey(u) == IF u = "plain" THEN "key" ELSE Refused

Whole(text) == IF \E f \in DOMAIN text : text[f] = Refused THEN Refused ELSE text

Site(e) ==
    Whole([material |-> Material(e.material, SiteNames), colour |-> SiteColour(e.colour),
           length |-> SiteLength(e.weight), serial |-> SiteField(e.serial),
           key |-> SiteKey(e.uid), date |-> "today"])
Helper(e) ==
    Whole([material |-> Material(e.material, HelperNames), colour |-> HelperColour(e.colour),
           length |-> HelperLength(e.weight), serial |-> HelperField(e.serial),
           key |-> HelperKey(e.uid), date |-> "fixed"])
-----------------------------------------------------------------------------
(* The mapping of a tag to a profile.                                      *)

\* What the page asks for is the colour as it is typed, and any when it is empty.
Maps(row, e) ==
    /\ row.material = e.material.of
    /\ \/ row.colour = AnyColour
       \/ row.colour = e.colour.of /\ e.colour.form = "#" /\ e.colour.hex
       \/ e.colour.form = "none"

\* The first row that maps it.
Hits(e) == {n \in DOMAIN Mappings : Maps(Mappings[n], e)}
Resolved(e) ==
    IF Hits(e) = {} THEN Refused
    ELSE Mappings[CHOOSE n \in Hits(e) : \A m \in Hits(e) : n <= m].variant

\* The page takes the first profile.
ProfileFor(e) ==
    IF Resolved(e) = Refused \/ PrintProfiles[Resolved(e)] = <<>> THEN Refused
    ELSE PrintProfiles[Resolved(e)][1]
-----------------------------------------------------------------------------
(* The page.                                                               *)

EditField(f, v) ==
    /\ edits < MaxEdits /\ edits' = edits + 1
    /\ entry' = [entry EXCEPT ![f] = v]
    /\ UNCHANGED <<asked, asks, shown, busy, written, installed>>

Press(what, blocks) ==
    /\ asks < MaxAsked /\ asks' = asks + 1
    /\ asked' = asked \cup {[what |-> what, entry |-> entry, no |-> asks]}
    /\ shown' = Unshown /\ busy' = (busy \/ blocks)
    /\ UNCHANGED <<entry, edits, written, installed>>

\* onSubmit and resolveAndDownload: their buttons are disabled while a write is on,
\* and come back while their own answer is awaited.
PressEncode == ~busy /\ OnPage(entry) /\ Press("encode", FALSE)
PressResolve == ~busy /\ OnPage(entry) /\ Press("resolve", FALSE)

\* Mutant of PressWrite: pressed twice.
PressWrite_Twice == OnPage(entry) /\ Press("write", TRUE)

\* runBrowserWrite.
PressWrite == ~busy /\ OnPage(entry) /\ Press("write", TRUE)

\* The helper's buttons are never disabled.
PressSimulate == OnPage(entry) /\ Press("simulate", FALSE)
PressInstall == OnPage(entry) /\ Press("install", FALSE)

Shows(r, what) ==
    /\ shown' = IF what = Refused THEN "error" ELSE what
    /\ asked' = asked \ {r}
    /\ UNCHANGED <<entry, edits, asks>>

AnswerEncode(r) ==
    /\ r \in asked /\ r.what = "encode" /\ Shows(r, Site(r.entry))
    /\ UNCHANGED <<busy, written, installed>>

AnswerSimulate(r) ==
    /\ r \in asked /\ r.what = "simulate" /\ Shows(r, Helper(r.entry))
    /\ UNCHANGED <<busy, written, installed>>

AnswerResolve(r) ==
    /\ r \in asked /\ r.what = "resolve" /\ Shows(r, ProfileFor(r.entry))
    /\ UNCHANGED <<busy, written, installed>>

\* resolve, export and install, one after the other.
AnswerInstall(r) ==
    /\ r \in asked /\ r.what = "install" /\ Shows(r, ProfileFor(r.entry))
    /\ installed' = IF ProfileFor(r.entry) = Refused THEN installed
                    ELSE installed \cup {[entry |-> r.entry, profile |-> ProfileFor(r.entry)]}
    /\ UNCHANGED <<busy, written>>

\* browserWriteAndVerify, when it succeeds.
AnswerWrite(r) ==
    /\ r \in asked /\ r.what = "write" /\ Shows(r, Site(r.entry)) /\ busy' = FALSE
    /\ written' = IF Site(r.entry) = Refused THEN written
                  ELSE written \cup {[entry |-> r.entry, text |-> Site(r.entry)]}
    /\ UNCHANGED installed

\* No answer, or the reader's error.
Fails(r) ==
    /\ r \in asked /\ Shows(r, Refused)
    /\ busy' = (busy /\ r.what # "write") /\ UNCHANGED <<written, installed>>

RfidInit ==
    /\ entry = Usual /\ edits = 0 /\ asked = {} /\ asks = 0 /\ shown = Unshown
    /\ busy = FALSE /\ written = {} /\ installed = {}

RfidNext ==
    \/ \E f \in DOMAIN Fields : \E v \in Fields[f] : EditField(f, v)
    \/ PressEncode \/ PressResolve \/ PressWrite \/ PressSimulate \/ PressInstall
    \/ \E r \in asked : \/ AnswerEncode(r) \/ AnswerSimulate(r) \/ AnswerResolve(r)
                        \/ AnswerInstall(r) \/ AnswerWrite(r) \/ Fails(r)

RfidSpec == RfidInit /\ [][RfidNext]_rfidVars
-----------------------------------------------------------------------------
\* Whatever site and helper both accept, they write the same, save for the date
\* of the text where none is given.
EncodersAgree ==
    Site(entry) # Refused /\ Helper(entry) # Refused =>
        [Site(entry) EXCEPT !.date = "fixed"] = Helper(entry)

\* Two tags read alike only when their spools do: the serials differ in characters
\* that cannot be written or in noughts at the end.
SpoolsAreToldApart ==
    \A v, w \in written :
        v.text = w.text =>
            /\ v.entry.material = w.entry.material /\ v.entry.colour.of = w.entry.colour.of
            /\ v.entry.weight = w.entry.weight
            /\ \A i \in 1..SerialLength :
                  Padded(Clean(v.entry.serial))[i] = Padded(Clean(w.entry.serial))[i]

\* A tag has the colour the page showed when it was written, unless the colour
\* was pasted with a nought in place of #, which the page does not show.
WrittenAsShown ==
    \A w \in written :
        w.entry.colour.form # "0" => w.text.colour.of = Displayed(w.entry.colour).of

\* The page writes one tag at a time, and its buttons come back.
OneWriteAtATime ==
    /\ Cardinality({r \in asked : r.what = "write"}) <= 1
    /\ busy <=> \E r \in asked : r.what = "write"

\* What is installed for a tag is never a profile of another material or of a
\* filament that is mapped to other colours only, unless no colour was asked for.
InstalledFits ==
    \A i \in installed : \E n \in DOMAIN Mappings :
        /\ Mappings[n].material = i.entry.material.of
        /\ Mappings[n].colour \in {AnyColour, i.entry.colour.of} \/ i.entry.colour.form = "none"
        /\ \E k \in DOMAIN PrintProfiles[Mappings[n].variant] :
              PrintProfiles[Mappings[n].variant][k] = i.profile

TagsAreSound ==
    /\ EncodersAgree /\ SpoolsAreToldApart /\ WrittenAsShown
    /\ OneWriteAtATime /\ InstalledFits
=============================================================================
