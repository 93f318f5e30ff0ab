------------------------------- MODULE QrScan -------------------------------
(***************************************************************************)
(* The page that scans a spool's code with the camera                      *)
(* (web/app/components/qr-scan-panel.tsx), and the label the code is       *)
(* printed on (qr-label-panel.tsx, behind GET /variants/:uuid/qr).         *)
(*                                                                         *)
(* A press of Start waits for the browser's leave, then for the video to   *)
(* play, and then looks at one frame after another, waiting for the        *)
(* detector each time.  Stop, another mode, a code typed in by hand or     *)
(* another page may come at each of these waits; all of them share the     *)
(* refs of one component.                                                  *)
(*                                                                         *)
(* What a code says is a record of its form and the colour it names.  A    *)
(* stream goes by the number of the press it was asked for.                *)
(*                                                                         *)
(* The codes of users' own spools lead to the rows of CloudSpools, with    *)
(* which this page shares the purpose and no state.                        *)
(***************************************************************************)
EXTENDS CloudSpools

CONSTANTS
    Spools,            \* variants, by their uuid
    NoSpool,
    Impatient,         \* whether Start is pressed while a start is under way
    MaxStarts, MaxTyped, MaxViews \* bounds: starts, codes typed, labels looked at

ASSUME ScanParameters ==
    /\ NoSpool \notin Spools
    /\ Impatient \in BOOLEAN
    /\ MaxStarts \in Nat /\ MaxTyped \in Nat /\ MaxViews \in Nat

VARIABLES
    onPhone,           \* come by the code a desktop shows: starts by itself
    place,             \* "scan", "gone" to another page of the site, or "left" the document
    mode,              \* "camera" or "phone"; the video element is there with "camera"
    timer,             \* whether the start of a phone is still to come
    starts,            \* presses of Start so far
    waiting,           \* starts under way, at "asking" or "playing"
    live,              \* streams whose tracks are not stopped
    streamRef, onScreen,  \* the component's stream; the video element's
    active, opening, decoding, \* activeRef, openingRef, busyRef
    scanning,          \* whether the page says that it scans
    loops,             \* scan loops: at "frame" or "detecting" with what the frame says
    rafRef,            \* the loop whose frame was asked for last
    typed,             \* codes typed in so far
    going,             \* the variant whose page is being loaded
    label              \* the label page: the variant it is at, those asked for, its label

scanVars == <<onPhone, place, mode, timer, starts, waiting, live, streamRef, onScreen, active,
              opening, decoding, scanning, loops, rafRef, typed, going, label>>

cameraVars == <<timer, starts, waiting, live, streamRef, onScreen, active, decoding,
                scanning, loops, rafRef>>

NoStream == 0

Forms == {"short link", "page link", "identity", "uuid", "other host", "text"}
Says == [form : Forms, of : Spools]
Blurred == [form |-> "text", of |-> NoSpool]

\* parseOpenFilamentQrPayload: a uuid inside any other address counts at the
\* site's own hosts only.
Parsed(code) ==
    IF code.form \in {"short link", "page link", "identity", "uuid"} THEN code.of
    ELSE NoSpool

\* What the label's code and the identity beside it say.
Printed(v) == [form |-> "short link", of |-> v]
Identity(v) == [form |-> "identity", of |-> v]
-----------------------------------------------------------------------------
(* The component.                                                          *)

\* stop: the frame that was asked for last does not come.
Halted ==
    /\ active' = FALSE /\ decoding' = FALSE /\ scanning' = FALSE
    /\ loops' = {l \in loops : ~(l.no = rafRef /\ l.at = "frame")}
    /\ rafRef' = NoStream /\ live' = live \ {streamRef}
    /\ streamRef' = NoStream /\ onScreen' = NoStream

\* Not while a variant is being opened.
StopCamera ==
    IF opening THEN UNCHANGED <<active, decoding, scanning, loops, rafRef, live, streamRef, onScreen>>
    ELSE Halted

\* startCamera takes the opening of a variant back first.
StartCamera ==
    /\ starts < MaxStarts /\ starts' = starts + 1
    /\ opening' = FALSE /\ Halted
    /\ waiting' = waiting \cup {[no |-> starts + 1, at |-> "asking"]}
    /\ UNCHANGED <<onPhone, place, mode, typed, going, label>>

PressStart ==
    /\ place = "scan" /\ mode = "camera" /\ ~scanning
    /\ Impatient \/ (waiting = {} /\ ~timer)
    /\ StartCamera /\ UNCHANGED timer

AutoStart ==
    /\ timer /\ timer' = FALSE /\ StartCamera

\* Mutant of StreamComes: the element is not looked for.
StreamComes_AnyPlace(w) ==
    /\ w \in waiting /\ w.at = "asking" /\ place # "left"
    /\ streamRef' = w.no /\ live' = live \cup {w.no} /\ onScreen' = w.no
    /\ waiting' = (waiting \ {w}) \cup {[w EXCEPT !.at = "playing"]}
    /\ UNCHANGED <<onPhone, place, mode, timer, starts, active, opening, decoding, scanning,
                   loops, rafRef, typed, going, label>>

\* Without a video element the stream is stopped at once.
StreamComes(w) ==
    /\ w \in waiting /\ w.at = "asking" /\ place # "left"
    /\ streamRef' = w.no
    /\ IF place = "scan" /\ mode = "camera"
       THEN /\ live' = live \cup {w.no} /\ onScreen' = w.no
            /\ waiting' = (waiting \ {w}) \cup {[w EXCEPT !.at = "playing"]}
       ELSE /\ waiting' = waiting \ {w} /\ UNCHANGED <<live, onScreen>>
    /\ UNCHANGED <<onPhone, place, mode, timer, starts, active, opening, decoding, scanning,
                   loops, rafRef, typed, going, label>>

VideoPlays(w) ==
    /\ w \in waiting /\ w.at = "playing" /\ onScreen = w.no
    /\ waiting' = waiting \ {w}
    /\ active' = TRUE /\ scanning' = TRUE
    /\ loops' = loops \cup {[no |-> w.no, at |-> "frame", says |-> Blurred]}
    /\ rafRef' = w.no
    /\ UNCHANGED <<onPhone, place, mode, timer, starts, live, streamRef, onScreen, opening,
                   decoding, typed, going, label>>

\* Leave is refused, or the video does not play; its source may have changed.
StartFails(w) ==
    /\ w \in waiting /\ place # "left" /\ waiting' = waiting \ {w} /\ StopCamera
    /\ UNCHANGED <<onPhone, place, mode, timer, starts, opening, typed, going, label>>

\* One loop goes on with its next frame.
Schedule(l, rest) ==
    /\ loops' = rest \cup {[l EXCEPT !.at = "frame", !.says = Blurred]}
    /\ rafRef' = l.no

Tick(l, code) ==
    /\ l \in loops /\ l.at = "frame" /\ place # "left"
    /\ IF ~active \/ opening
       THEN loops' = loops \ {l} /\ UNCHANGED <<decoding, rafRef>>
       ELSE IF decoding
       THEN Schedule(l, loops \ {l}) /\ UNCHANGED decoding
       ELSE /\ decoding' = TRUE /\ UNCHANGED rafRef
            /\ loops' = (loops \ {l}) \cup {[l EXCEPT !.at = "detecting", !.says = code]}
    /\ UNCHANGED <<onPhone, place, mode, timer, starts, waiting, live, streamRef, onScreen,
                   active, opening, scanning, typed, going, label>>

\* openVariant, once: the tracks are stopped before the page is left.
OpenVariant(v, rest) ==
    IF opening
    THEN loops' = rest /\ UNCHANGED <<live, streamRef, onScreen, active, opening, scanning, going, rafRef>>
    ELSE /\ opening' = TRUE /\ active' = FALSE /\ scanning' = FALSE /\ going' = v
         /\ live' = live \ {streamRef} /\ streamRef' = NoStream /\ onScreen' = NoStream
         /\ loops' = {k \in rest : ~(k.no = rafRef /\ k.at = "frame")}
         /\ rafRef' = NoStream

Detected(l) ==
    /\ l \in loops /\ l.at = "detecting" /\ place # "left" /\ decoding' = FALSE
    /\ IF Parsed(l.says) # NoSpool /\ active
       THEN OpenVariant(Parsed(l.says), loops \ {l})
       ELSE /\ IF active /\ ~opening THEN Schedule(l, loops \ {l})
               ELSE loops' = loops \ {l} /\ UNCHANGED rafRef
            /\ UNCHANGED <<live, streamRef, onScreen, active, opening, scanning, going>>
    /\ UNCHANGED <<onPhone, place, mode, timer, starts, waiting, typed, label>>
-----------------------------------------------------------------------------
(* The user, and the document.                                             *)

PressStop ==
    /\ place = "scan" /\ mode = "camera" /\ scanning /\ StopCamera
    /\ UNCHANGED <<onPhone, place, mode, timer, starts, waiting, opening, typed, going, label>>

SwitchMode ==
    /\ place = "scan" /\ ~onPhone /\ StopCamera
    /\ mode' = IF mode = "camera" THEN "phone" ELSE "camera"
    /\ UNCHANGED <<onPhone, place, timer, starts, waiting, opening, typed, going, label>>

\* A code typed in by hand.
TypeIn(code) ==
    /\ place = "scan" /\ typed < MaxTyped /\ typed' = typed + 1
    /\ IF Parsed(code) # NoSpool THEN OpenVariant(Parsed(code), loops)
       ELSE UNCHANGED <<live, streamRef, onScreen, active, opening, scanning, going, loops, rafRef>>
    /\ UNCHANGED <<onPhone, place, mode, timer, starts, waiting, decoding, label>>

\* Another page of the site: the component goes, its callbacks stay.
GoElsewhere ==
    /\ place = "scan" /\ ~opening /\ place' = "gone" /\ timer' = FALSE /\ StopCamera
    /\ UNCHANGED <<onPhone, mode, starts, waiting, opening, typed, going, label>>

\* The variant's page is loaded: the browser ends whatever the document held.
Arrive ==
    /\ place = "scan" /\ opening /\ place' = "left"
    /\ live' = {} /\ waiting' = {} /\ loops' = {} /\ timer' = FALSE
    /\ UNCHANGED <<onPhone, mode, starts, streamRef, onScreen, active, opening, decoding, scanning,
                   rafRef, typed, going, label>>

\* The label page turns to a variant; answers of earlier ones are cancelled.
ViewLabel(v) ==
    /\ label.no < MaxViews
    /\ label' = [at |-> v, asked |-> label.asked \cup {[spool |-> v, no |-> label.no + 1]},
                 no |-> label.no + 1, shows |-> NoSpool]
    /\ UNCHANGED <<onPhone, place, mode, opening, typed, going, cameraVars>>

LabelComes(a) ==
    /\ a \in label.asked
    /\ label' = [label EXCEPT !.asked = @ \ {a},
                              !.shows = IF a.no = label.no THEN a.spool ELSE @]
    /\ UNCHANGED <<onPhone, place, mode, opening, typed, going, cameraVars>>

ScanInit ==
    /\ onPhone \in BOOLEAN /\ place = "scan"
    /\ mode \in (IF onPhone THEN {"camera"} ELSE {"camera", "phone"})
    /\ timer = onPhone /\ starts = 0 /\ waiting = {} /\ live = {}
    /\ streamRef = NoStream /\ onScreen = NoStream /\ rafRef = NoStream
    /\ active = FALSE /\ opening = FALSE /\ decoding = FALSE /\ scanning = FALSE
    /\ loops = {} /\ typed = 0 /\ going = NoSpool
    /\ label = [at |-> NoSpool, asked |-> {}, no |-> 0, shows |-> NoSpool]

CameraNext ==
    \/ PressStart \/ AutoStart \/ PressStop \/ SwitchMode \/ GoElsewhere \/ Arrive
    \/ \E w \in waiting : StreamComes(w) \/ VideoPlays(w) \/ StartFails(w)
    \/ \E l \in loops : Detected(l) \/ \E code \in Says \cup {Blurred} : Tick(l, code)
    \/ \E code \in Says : TypeIn(code)

LabelNext ==
    \/ \E v \in Spools : ViewLabel(v)
    \/ \E a \in label.asked : LabelComes(a)

ScanSpec == ScanInit /\ [][CameraNext \/ LabelNext]_scanVars
-----------------------------------------------------------------------------
\* The camera that is on is the one the page holds and can turn off, and none
\* stays on once a start is through: not after Stop, not in another mode, nor on
\* another page, whenever leave was given.  A document that is being left for a
\* variant's page is the browser's to clear.
CameraIsReleased ==
    ~opening =>
        /\ live \subseteq {streamRef}
        /\ place # "scan" \/ mode = "phone" => live = {}
        /\ waiting = {} /\ ~scanning => live = {}

\* The page says that it scans exactly while its loops do, and then the camera it
\* shows is on.
ScanningIsShown ==
    place # "left" =>
    /\ scanning = active
    /\ scanning /\ mode = "camera" => onScreen = streamRef /\ streamRef \in live

\* No label is shown for another variant than the page's, and what a label and
\* the identity beside it say lead back to the variant they were printed for.
LabelsLeadBack ==
    /\ label.shows \in {NoSpool, label.at}
    /\ \A v \in Spools : Parsed(Printed(v)) = v /\ Parsed(Identity(v)) = v

CodesAreSound == CameraIsReleased /\ ScanningIsShown /\ LabelsLeadBack

\* A code leads from the camera or the label to what it stands for, and a user's
\* spool from its code to the spool.
CodesLeadHome == CodesAreSound /\ SpoolsAreFound
=============================================================================
