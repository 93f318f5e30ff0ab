------------------------------- MODULE Consent ------------------------------
(***************************************************************************)
(* Whether a page measures its visitor (apps/web: lib/consent/store.ts,    *)
(* lib/analytics/ga.ts, app/components/consent-manager.tsx).               *)
(*                                                                         *)
(* Measuring is on until it is refused.  The choice is kept twice, in the  *)
(* browser's storage and in a cookie, and either may be gone.  A page has  *)
(* read it once when it was loaded (the script in its head, which sees     *)
(* the cookie only), a second time when React mounts the banner, and then  *)
(* for every product event; what is scheduled for later carries the record *)
(* that was read before.  Tabs do not tell each other.                     *)
(***************************************************************************)
CONSTANTS
    Tabs,
    NoRecord

\* A choice; current is FALSE once the texts it was made under were replaced.
Record == [analytics : BOOLEAN, current : BOOLEAN]

ASSUME ConsentParameters == NoRecord \notin Record

VARIABLES
    stored,            \* localStorage of_consent_v1
    cookie,            \* of_consent
    tab                \* with history: overrun, the visitor last chose while a start was
                       \* scheduled

consentVars == <<stored, cookie, tab>>

Closed == [at |-> "closed", on |-> FALSE, loaded |-> FALSE, script |-> FALSE,
           heard |-> NoRecord, timers |-> {}, overrun |-> FALSE]

TabStates == [at : {"closed", "head", "open"}, on : BOOLEAN, loaded : BOOLEAN,
              script : BOOLEAN, heard : Record \cup {NoRecord},
              timers : SUBSET (Record \cup {NoRecord}), overrun : BOOLEAN]

ConsentTypeOK ==
    /\ stored \in Record \cup {NoRecord} /\ cookie \in Record \cup {NoRecord}
    /\ tab \in [Tabs -> TabStates]

ReadConsent == IF stored # NoRecord THEN stored ELSE cookie

AnalyticsAllowed(r) == IF r = NoRecord THEN TRUE ELSE r.analytics
Current(r) == IF r = NoRecord THEN FALSE ELSE r.current
-----------------------------------------------------------------------------
(* initAnalyticsIfAllowed and disableAnalytics, on a tab.  A script that is *)
(* already in the page is not loaded again, but consent is granted again.   *)

InitIfAllowed(w, r) ==
    IF AnalyticsAllowed(r)
    THEN [w EXCEPT !.on = TRUE, !.loaded = TRUE, !.script = TRUE] ELSE w

Disabled(w) == [w EXCEPT !.on = FALSE, !.loaded = FALSE, !.script = FALSE]

\* gaHeadBootstrapInline, while the page is parsed.
Load(t) ==
    /\ tab[t].at = "closed"
    /\ tab' = [tab EXCEPT ![t] = InitIfAllowed([Closed EXCEPT !.at = "head"],
                                               cookie)]
    /\ UNCHANGED <<stored, cookie>>

\* Mutant of Mounted: what the head has started is left alone.
Mounted_AsIs(w, r) ==
    [w EXCEPT !.at = "open", !.heard = r,
              !.timers = IF AnalyticsAllowed(r) THEN {r} ELSE {}]

\* The effect of ConsentManager.
Mounted(w, r) ==
    LET open == [w EXCEPT !.at = "open", !.heard = r]
    IN IF Current(r) /\ ~AnalyticsAllowed(r) THEN Disabled(open)
       ELSE [open EXCEPT !.timers = {IF Current(r) THEN r ELSE NoRecord}]

Mount(t) ==
    /\ tab[t].at = "head"
    /\ tab' = [tab EXCEPT ![t] = Mounted(@, ReadConsent)]
    /\ UNCHANGED <<stored, cookie>>

\* What was scheduled, with the record of then.
Fire(t, r) ==
    LET w == [tab[t] EXCEPT !.timers = @ \ {r}]
    IN /\ r \in tab[t].timers
       /\ tab' = [tab EXCEPT ![t] = InitIfAllowed(w, r)]
       /\ UNCHANGED <<stored, cookie>>

AfterDecision(w, r) ==
    LET heard == [w EXCEPT !.heard = r]
    IN IF AnalyticsAllowed(r) THEN [heard EXCEPT !.timers = @ \cup {r}]
                              ELSE Disabled(heard)

\* Accept all, reject, or save the preferences: writeConsent, afterDecision.
Decide(t, analytics) ==
    LET r == [analytics |-> analytics, current |-> TRUE]
    IN /\ tab[t].at = "open"
       /\ stored' = r /\ cookie' = r
       /\ tab' = [tab EXCEPT ![t] =
                     AfterDecision([@ EXCEPT !.overrun = tab[t].timers # {}], r)]

\* trackEvent, where it changes anything: analytics may be started by it.
TrackEvent(t) ==
    /\ tab[t].at = "open" /\ ~tab[t].loaded
    /\ AnalyticsAllowed(ReadConsent)
    /\ tab' = [tab EXCEPT ![t] =
                  InitIfAllowed([@ EXCEPT !.heard = ReadConsent], ReadConsent)]
    /\ UNCHANGED <<stored, cookie>>

\* The script does not load (a blocker): only the flag is taken back.
ScriptFails(t) ==
    /\ tab[t].script /\ tab[t].loaded
    /\ tab' = [tab EXCEPT ![t].loaded = FALSE]
    /\ UNCHANGED <<stored, cookie>>

CloseTab(t) ==
    /\ tab[t].at # "closed"
    /\ tab' = [tab EXCEPT ![t] = Closed]
    /\ UNCHANGED <<stored, cookie>>
-----------------------------------------------------------------------------
(* The browser and the site.                                               *)

LoseCookie ==
    /\ cookie # NoRecord /\ cookie' = NoRecord
    /\ UNCHANGED <<stored, tab>>

LoseStorage ==
    /\ stored # NoRecord /\ stored' = NoRecord
    /\ UNCHANGED <<cookie, tab>>

\* A release with another CONSENT_VERSION, seen by the pages loaded after it.
NewVersion ==
    LET Old(r) == IF r = NoRecord THEN r ELSE [r EXCEPT !.current = FALSE]
    IN /\ \A t \in Tabs : tab[t].at = "closed"
       /\ stored' = Old(stored) /\ cookie' = Old(cookie)
       /\ UNCHANGED tab

ConsentInit ==
    /\ stored = NoRecord /\ cookie = NoRecord
    /\ tab = [t \in Tabs |-> Closed]

ConsentNext ==
    \/ \E t \in Tabs :
          \/ Load(t) \/ Mount(t) \/ TrackEvent(t) \/ ScriptFails(t)
          \/ CloseTab(t)
          \/ \E r \in Record \cup {NoRecord} : Fire(t, r)
          \/ \E analytics \in BOOLEAN : Decide(t, analytics)
    \/ LoseCookie \/ LoseStorage \/ NewVersion

ConsentSpec == ConsentInit /\ [][ConsentNext]_consentVars
-----------------------------------------------------------------------------
(* What must hold.                                                         *)

Settled(t) == tab[t].at = "open" /\ tab[t].timers = {}

Refuses(r) == ~AnalyticsAllowed(r)

\* A tab whose visitor refused, there or before it was loaded, under the texts
\* of now, does not measure once what it had scheduled has run: not when the
\* cookie is gone and the head has started measuring, nor when another tab or
\* an earlier click of this one had accepted.  A refusal clicked while a start was
\* scheduled is overrun by it; a tab that measures already when another one
\* refuses has not heard of it and goes on.
RefusalHolds ==
    \A t \in Tabs :
        (Settled(t) /\ Refuses(tab[t].heard) /\ Current(tab[t].heard) /\ ~tab[t].overrun)
            => ~tab[t].on

=============================================================================
