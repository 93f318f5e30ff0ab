----------------------------- MODULE ExportDesk -----------------------------
(***************************************************************************)
(* What the export page does with a chosen profile: the lower half of      *)
(* web/app/export/export-form.tsx.  The visitor chooses a format, asks the *)
(* server for the preset (routes.ts, POST exports/:format) and saves the   *)
(* answer as a file, by a download or by the browser's own dialogue.       *)
(*                                                                         *)
(* How the profile is chosen is in CatalogForms.  The page is never busy:  *)
(* while a request is under way every button works, and its answer is put  *)
(* on show whatever is chosen by then.  A file is made of the answer as    *)
(* the format of the moment would have it.                                 *)
(***************************************************************************)
EXTENDS Naturals, Sequences, SequencesExt

CONSTANTS
    Formats,         \* the registry's formats; all can be downloaded
    IniFormat,       \* PrusaSlicer's, a text
    ProfileFormat,   \* the profile itself, for other programs
    Documents,       \* profiles that exist or do not
    Existing,        \* those the server can export
    NoDocument, NoAnswer, Unsaved,
    MaxPending       \* bound on the requests under way

ExportRequests == [format : Formats, document : Documents]
Answers == [format : Formats, document : Existing]
Contents == Formats \cup {"nothing", "the answer itself"}

ASSUME ExportParameters ==
    /\ {IniFormat, ProfileFormat} \subseteq Formats /\ IniFormat # ProfileFormat
    /\ Existing \subseteq Documents /\ NoDocument \notin Documents
    /\ NoAnswer \notin Answers \cup [of : Answers, as : Formats]
    /\ Unsaved \notin [named : Answers, as : Formats, text : Contents]
    /\ MaxPending \in Nat

VARIABLES
    format,       \* the radio button
    document,     \* the chosen profile
    payload,      \* the answer on show: the format and profile it was asked for
    downloaded,   \* the page says it was saved
    pending,      \* requests under way
    dialogue,     \* the answer and format that the save dialogue was opened with
    kept,         \* the file that was saved last: its name and its contents
    hurried       \* something was asked for or chosen while a request was under way

exportVars == <<format, document, payload, downloaded, pending, dialogue, kept, hurried>>

ExportTypeOK ==
    /\ format \in Formats /\ document \in Documents \cup {NoDocument}
    /\ payload \in Answers \cup {NoAnswer}
    /\ downloaded \in BOOLEAN /\ hurried \in BOOLEAN
    /\ pending \in Seq(ExportRequests)
    /\ dialogue \in [of : Answers, as : Formats] \cup {NoAnswer}
    /\ kept \in [named : Answers, as : Formats, text : Contents] \cup {Unsaved}
-----------------------------------------------------------------------------
\* fileContents: an answer has "presetText", "profile" or "preset" by its format.
\* One without the field is written whole, but a text then is empty.
FileContents(answer, as) ==
    IF as = answer.format THEN answer.format
    ELSE IF as = IniFormat THEN "nothing"
    ELSE IF as = ProfileFormat \/ answer.format \in {IniFormat, ProfileFormat}
         THEN "the answer itself"
    ELSE answer.format

\* The name is the server's; the format of the moment is the file's type.
FileOf(answer, as) == [named |-> answer, as |-> as, text |-> FileContents(answer, as)]

\* A dialogue keeps the visitor from the page.
AtHand == dialogue = NoAnswer

Hurry == hurried' = (hurried \/ pending # << >>)

\* Mutant of Withdrawn: another format keeps the answer on show.
Withdrawn_Kept == UNCHANGED <<payload, downloaded>>

Withdrawn == payload' = NoAnswer /\ downloaded' = FALSE

ChooseFormat(f) ==
    /\ AtHand /\ f # format
    /\ format' = f
    /\ Withdrawn /\ Hurry
    /\ UNCHANGED <<document, pending, dialogue, kept>>

\* What is on show stays.
ChooseDocument(d) ==
    /\ AtHand /\ d # document
    /\ document' = d
    /\ Hurry
    /\ UNCHANGED <<format, payload, downloaded, pending, dialogue, kept>>

\* onSubmit, up to its await; without a profile it only complains.
Submit ==
    /\ AtHand /\ Len(pending) < MaxPending
    /\ payload' = NoAnswer /\ downloaded' = FALSE
    /\ pending' = IF document = NoDocument THEN pending
                  ELSE Append(pending, [format |-> format, document |-> document])
    /\ Hurry
    /\ UNCHANGED <<format, document, dialogue, kept>>

\* An answer comes; a profile that is gone, or a lost answer, is an error.
Arrives(i) ==
    /\ \/ pending[i].document \in Existing /\ payload' = pending[i]
       \/ UNCHANGED payload
    /\ pending' = RemoveAt(pending, i)
    /\ UNCHANGED <<format, document, downloaded, dialogue, kept, hurried>>

DownloadProfile ==
    /\ AtHand /\ payload # NoAnswer
    /\ kept' = FileOf(payload, format)
    /\ downloaded' = TRUE
    /\ UNCHANGED <<format, document, payload, pending, dialogue, hurried>>

\* saveWithFileSystemAccess, up to the visitor's answer.
OpenDialogue ==
    /\ AtHand /\ payload # NoAnswer
    /\ dialogue' = [of |-> payload, as |-> format]
    /\ UNCHANGED <<format, document, payload, downloaded, pending, kept, hurried>>

\* Saved, or given up, or the disk refuses it.
CloseDialogue ==
    /\ ~AtHand
    /\ dialogue' = NoAnswer
    /\ \/ kept' = FileOf(dialogue.of, dialogue.as) /\ downloaded' = TRUE
       \/ UNCHANGED <<kept, downloaded>>
    /\ UNCHANGED <<format, document, payload, pending, hurried>>

\* "Choose another".
ChooseAnother ==
    /\ AtHand /\ payload # NoAnswer
    /\ Withdrawn
    /\ UNCHANGED <<format, document, pending, dialogue, kept, hurried>>
-----------------------------------------------------------------------------
ExportInit ==
    /\ format \in Formats /\ document \in Documents \cup {NoDocument}
    /\ payload = NoAnswer /\ downloaded = FALSE /\ pending = << >>
    /\ dialogue = NoAnswer /\ kept = Unsaved /\ hurried = FALSE

ExportNext ==
    \/ \E f \in Formats : ChooseFormat(f)
    \/ \E d \in Documents \cup {NoDocument} : ChooseDocument(d)
    \/ Submit \/ DownloadProfile \/ OpenDialogue \/ CloseDialogue \/ ChooseAnother
    \/ \E i \in DOMAIN pending : Arrives(i)

ExportSpec == ExportInit /\ [][ExportNext]_exportVars
-----------------------------------------------------------------------------
\* Unless the visitor asked or chose while a request was under way, a saved file
\* holds what its name and its type say, the page offers no answer of another
\* format than the one that is chosen, and it says "saved" only of the answer that
\* was saved last.
FilesAreAsNamed ==
    ~hurried =>
        /\ kept # Unsaved => /\ kept.text = kept.named.format
                            /\ kept.as = kept.named.format
        /\ payload # NoAnswer => payload.format = format
        /\ downloaded /\ payload # NoAnswer => kept # Unsaved /\ kept.named = payload
=============================================================================
