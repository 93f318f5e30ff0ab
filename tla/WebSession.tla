----------------------------- MODULE WebSession -----------------------------
(***************************************************************************)
(* Who is signed in, as one browser's tabs and the API see it: the cookies *)
(* of_session and of_csrf, the copy of the user in of_auth                 *)
(* (web/lib/auth.ts), apiFetch with its token for writes (web/lib/api.ts), *)
(* the API's hook that compares token and cookie (api/src/index.ts), and   *)
(* the pages that sign in, read and write with them; and the page a buyer  *)
(* of Cloud returns to, which asks for the payment until it is settled.    *)
(*                                                                         *)
(* Cookies and of_auth are one for all tabs.  A page shows the user it     *)
(* read when it was opened; a request takes the cookies of the moment it   *)
(* is sent, and its token from the moment before.  An answer's cookies     *)
(* come before its body.  One leaves a page when its request is over.      *)
(* Passwords, resets and deletion on the server are AccountLifecycle's.    *)
(***************************************************************************)
EXTENDS Naturals, Sequences, FiniteSets

CONSTANTS
    Visitors, NoVisitor,
    WebTabs,
    MaxSignIns,        \* sessions that are ever begun
    MaxHitches,        \* cookies lost, answers lost, sessions revoked elsewhere
    MaxTicks           \* maxTicks, of the page a buyer returns to

ASSUME WebParameters ==
    /\ NoVisitor \notin Visitors
    /\ {MaxSignIns, MaxHitches} \subseteq Nat /\ MaxTicks \in Nat \ {0}

VARIABLES
    sessions,          \* api_tokens of these visitors: whose, and not revoked
    deleted,           \* accounts that are gone
    minted,            \* CSRF tokens minted so far
    jar,               \* of_session and of_csrf, 0 when there is none
    remembered,        \* of_auth
    view,              \* each tab's page, and the user it read
    ask,               \* each tab's request
    mixed,             \* sign-ins ran into each other, or one was cut off
    hitches,
    bought,            \* the payment a buyer returns from
    back,              \* the page it returns to
    polls              \* its requests, in the order they were sent

webVars == <<sessions, deleted, minted, jar, remembered, view, ask, mixed, hitches>>
returnVars == <<bought, back, polls>>
sessionVars == <<webVars, returnVars>>

NoAsking == [kind |-> "none", stage |-> "idle", user |-> NoVisitor, token |-> 0,
         cookies |-> [session |-> 0, csrf |-> 0], answer |-> "none",
         who |-> NoVisitor, calm |-> TRUE]
Clearing == {"cloud"}       \* my-spools/cloud and billing forget the user on a 401

\* resolveTokenUser.
Holder(s) == IF s # 0 /\ sessions[s].live THEN sessions[s].user ELSE NoVisitor
SigningIn(t) == {u \in WebTabs \ {t} : ask[u].kind = "login"}
\* What a change of the cookies by t does to the others' requests.
Upset(t) == [u \in WebTabs |-> IF u = t \/ ask[u].stage = "idle" THEN ask[u]
                                 ELSE [ask[u] EXCEPT !.calm = FALSE]]
-----------------------------------------------------------------------------
(* The pages; "away" are those that show no user, the forms among them.    *)

\* The cloud page asks for the entitlement at once (others for lists of theirs,
\* whose answers change nothing).
Visit(t, at) ==
    /\ ask[t].stage = "idle"
    /\ view' = [view EXCEPT ![t] =
                  [at |-> at, user |-> IF at = "away" THEN NoVisitor ELSE remembered,
                   amid |-> at # "away" /\ SigningIn(t) # {}]]
    /\ ask' = [ask EXCEPT ![t] =
                 IF at = "cloud" /\ remembered # NoVisitor
                 THEN [NoAsking EXCEPT !.kind = "read", !.stage = "ready", !.user = remembered]
                 ELSE NoAsking]
    /\ UNCHANGED <<sessions, deleted, minted, jar, remembered, mixed, hitches, returnVars>>

\* The forms for logging in and registering do not use apiFetch.
SignIn(t, u) ==
    /\ view[t].at = "away" /\ ask[t].stage = "idle"
    /\ Len(sessions) + Cardinality(SigningIn(t)) < MaxSignIns
    /\ ask' = [ask EXCEPT ![t] = [NoAsking EXCEPT !.kind = "login", !.stage = "ready", !.user = u]]
    /\ UNCHANGED <<sessions, deleted, minted, jar, remembered, view, mixed, hitches, returnVars>>

\* A mutant: ensureCsrf does not wait for the token it asks for.
Press_Hasty(t, kind, shown) ==
    /\ ask[t].stage = "idle" /\ shown # NoVisitor
    /\ ask' = [ask EXCEPT ![t] = [NoAsking EXCEPT !.kind = kind, !.user = shown,
                                     !.token = jar.csrf, !.stage = "ready"]]
    /\ UNCHANGED <<sessions, deleted, minted, jar, remembered, view, mixed, hitches, returnVars>>

\* apiPost: ensureCsrf takes the cookie's token, or asks for one.
Press(t, kind, shown) ==
    /\ ask[t].stage = "idle" /\ shown # NoVisitor
    /\ ask' = [ask EXCEPT ![t] =
                 [NoAsking EXCEPT !.kind = kind, !.user = shown, !.token = jar.csrf,
                                  !.stage = IF jar.csrf = 0 THEN "minting" ELSE "ready"]]
    /\ UNCHANGED <<sessions, deleted, minted, jar, remembered, view, mixed, hitches, returnVars>>

Buy(t) == view[t].at = "cloud" /\ Press(t, "write", view[t].user)
LogOut(t) == view[t].at = "account" /\ Press(t, "logout", view[t].user)
DeleteMe(t) == view[t].at = "account" /\ Press(t, "delete", view[t].user)
\* Confirming, reporting a failure and voting read of_auth when one clicks.
Respond(t) == view[t].at = "profile" /\ Press(t, "write", remembered)

\* fetch: the cookies go with it.
SendOff(t) ==
    /\ ask[t].stage \in {"minting", "ready"}
    /\ ask' = [ask EXCEPT ![t].stage = IF @ = "minting" THEN "mint" ELSE "sent",
                          ![t].cookies = jar]
    /\ UNCHANGED <<sessions, deleted, minted, jar, remembered, view, mixed, hitches, returnVars>>
-----------------------------------------------------------------------------
(* The API.                                                                *)

\* GET /auth/csrf: the cookie's token again, or a new one for who is signed in.
Mint(t) ==
    LET c == ask[t].cookies
        new == Holder(c.session) # NoVisitor /\ c.csrf = 0
    IN /\ ask[t].stage = "mint"
       /\ minted' = IF new THEN minted + 1 ELSE minted
       /\ ask' = [ask EXCEPT ![t].stage = "minted", ![t].answer = IF new THEN "set" ELSE "none",
                             ![t].token = IF Holder(c.session) = NoVisitor THEN 0
                                          ELSE IF new THEN minted + 1 ELSE c.csrf]
       /\ UNCHANGED <<sessions, deleted, jar, remembered, view, mixed, hitches, returnVars>>

\* POST /auth/login and /auth/register: setSessionCookies mints a token as well.
LogIn(t) ==
    LET u == ask[t].user
    IN /\ ask[t].stage = "sent" /\ ask[t].kind = "login"
       /\ IF u \in deleted
          THEN /\ ask' = [ask EXCEPT ![t].stage = "answered", ![t].answer = "401"]
               /\ UNCHANGED <<sessions, minted>>
          ELSE /\ sessions' = Append(sessions, [user |-> u, live |-> TRUE])
               /\ minted' = minted + 1
               /\ ask' = [ask EXCEPT
                            ![t].stage = "answered", ![t].answer = "done", ![t].who = u,
                            ![t].cookies = [session |-> Len(sessions) + 1, csrf |-> minted + 1]]
       /\ UNCHANGED <<deleted, jar, remembered, view, mixed, hitches, returnVars>>

\* The preHandler hook.
Passes(a) == a.cookies.session = 0 \/ (a.token # 0 /\ a.token = a.cookies.csrf)

\* Logging out needs nobody to be signed in; everything else does.
Serve(t) ==
    LET a == ask[t]
        u == Holder(a.cookies.session)
        answer == IF a.kind # "read" /\ ~Passes(a) THEN "403"
                  ELSE IF a.kind # "logout" /\ u = NoVisitor THEN "401" ELSE "done"
        over(s) == \/ a.kind = "logout" /\ s = a.cookies.session
                   \/ a.kind = "delete" /\ sessions[s].user = u
    IN /\ a.stage = "sent" /\ a.kind # "login"
       /\ ask' = [ask EXCEPT ![t].stage = "answered", ![t].answer = answer, ![t].who = u]
       /\ sessions' = IF answer # "done" THEN sessions
                      ELSE [s \in DOMAIN sessions |->
                              [sessions[s] EXCEPT !.live = @ /\ ~over(s)]]
       /\ deleted' = IF answer = "done" /\ a.kind = "delete" THEN deleted \cup {u} ELSE deleted
       /\ UNCHANGED <<minted, jar, remembered, view, mixed, hitches, returnVars>>
-----------------------------------------------------------------------------
(* Its answers.                                                            *)

\* ensureCsrf: the answer's token, or what the cookie has by now.
TokenComes(t) ==
    LET a == ask[t]
        there == IF a.answer = "set" THEN a.token ELSE jar.csrf
    IN /\ a.stage = "minted"
       /\ jar' = [jar EXCEPT !.csrf = there]
       /\ ask' = [(IF a.answer = "set" THEN Upset(t) ELSE ask) EXCEPT
                    ![t].stage = "ready", ![t].answer = "none",
                    ![t].token = IF a.token # 0 THEN a.token ELSE there]
       /\ UNCHANGED <<sessions, deleted, minted, remembered, view, mixed, hitches, returnVars>>

\* The cookies of a sign-in; other pages show another user from now on.
CookiesCome(t) ==
    LET a == ask[t]
    IN /\ a.stage = "answered" /\ a.kind = "login" /\ a.answer = "done"
       /\ jar' = a.cookies
       /\ ask' = [Upset(t) EXCEPT ![t].stage = "body"]
       /\ view' = [u \in WebTabs |-> [view[u] EXCEPT !.amid = @ \/ (u # t /\ view[u].at # "away")]]
       /\ mixed' = (mixed \/ SigningIn(t) # {})
       /\ UNCHANGED <<sessions, deleted, minted, remembered, hitches, returnVars>>

\* saveAuth, and on to the next page.
BodyComes(t) ==
    /\ ask[t].stage = "body"
    /\ remembered' = ask[t].user
    /\ mixed' = (mixed /\ ~(ask[t].calm /\ SigningIn(t) = {}))
    /\ view' = [view EXCEPT ![t] = [at |-> "away", user |-> NoVisitor, amid |-> FALSE]]
    /\ ask' = [ask EXCEPT ![t] = NoAsking]
    /\ UNCHANGED <<sessions, deleted, minted, jar, hitches, returnVars>>

\* clearAuth after logging out, after deleting, and on a 401 of some pages.
AnswerComes(t) ==
    LET a == ask[t]
        leaves == a.answer = "done" /\ a.kind \in {"logout", "delete"}
        out == a.answer = "401" /\ view[t].at \in Clearing
    IN /\ a.stage = "answered" /\ (a.kind # "login" \/ a.answer # "done")
       /\ remembered' = IF leaves \/ out THEN NoVisitor ELSE remembered
       /\ view' = [view EXCEPT ![t].user = IF leaves \/ out THEN NoVisitor ELSE @,
                               ![t].at = IF leaves THEN "away" ELSE @]
       /\ IF leaves /\ a.kind = "logout"
          THEN jar' = [session |-> 0, csrf |-> 0] /\ ask' = [Upset(t) EXCEPT ![t] = NoAsking]
          ELSE UNCHANGED jar /\ ask' = [ask EXCEPT ![t] = NoAsking]
       /\ UNCHANGED <<sessions, deleted, minted, mixed, hitches, returnVars>>
-----------------------------------------------------------------------------
(* What goes wrong.                                                        *)

\* A request or an answer is lost; of a sign-in, the body may be.
Fails(t) ==
    /\ hitches < MaxHitches /\ ask[t].stage \notin {"idle", "minting", "ready"}
    /\ hitches' = hitches + 1
    /\ ask' = [ask EXCEPT ![t] =
                 IF @.stage \in {"mint", "minted"}
                 THEN [@ EXCEPT !.stage = "ready", !.answer = "none", !.token = jar.csrf,
                                !.calm = FALSE]
                 ELSE NoAsking]
    /\ mixed' = (mixed \/ ask[t].stage = "body")
    /\ UNCHANGED <<sessions, deleted, minted, jar, remembered, view, returnVars>>

\* The browser drops a cookie that scripts can read.
CookieLost ==
    /\ hitches < MaxHitches /\ jar.csrf # 0
    /\ hitches' = hitches + 1
    /\ jar' = [jar EXCEPT !.csrf = 0]
    /\ ask' = [t \in WebTabs |-> [ask[t] EXCEPT !.calm = ask[t].stage = "idle"]]
    /\ UNCHANGED <<sessions, deleted, minted, remembered, view, mixed, returnVars>>

\* Another device revokes a session.
RevokedElsewhere(s) ==
    /\ hitches < MaxHitches /\ s \in DOMAIN sessions /\ sessions[s].live
    /\ hitches' = hitches + 1
    /\ sessions' = [sessions EXCEPT ![s].live = FALSE]
    /\ UNCHANGED <<deleted, minted, jar, remembered, view, ask, mixed, returnVars>>
-----------------------------------------------------------------------------
(* The page a buyer returns to: GET /billing/cloud/payments/:uuid.         *)

\* The webhook settles the payment; one that expired may be paid after all.
Settle(to) ==
    /\ <<bought, to>> \in {<<"pending", "paid">>, <<"pending", "expired">>,
                           <<"expired", "paid">>, <<"paid", "refunded">>}
    /\ bought' = to
    /\ UNCHANGED <<webVars, back, polls>>

BuyerReturns ==
    /\ back.state = "away"
    /\ back' = [back EXCEPT !.state = "verifying"]
    /\ polls' = <<"unread">>
    /\ UNCHANGED <<webVars, bought>>

\* The interval goes on when the answer is there.
PollTick ==
    /\ back.state # "away" /\ back.ticks < MaxTicks
    /\ back' = [back EXCEPT !.ticks = @ + 1]
    /\ polls' = IF back.ticks + 1 < MaxTicks THEN Append(polls, "unread") ELSE polls
    /\ UNCHANGED <<webVars, bought>>

ReadPayment(i) ==
    /\ i \in DOMAIN polls /\ polls[i] = "unread"
    /\ polls' = [polls EXCEPT ![i] = bought]
    /\ back' = [back EXCEPT !.late = @ \/ \E j \in 1..(i - 1) : polls[j] = "unread"]
    /\ UNCHANGED <<webVars, bought>>

Without(i) == SubSeq(polls, 1, i - 1) \o SubSeq(polls, i + 1, Len(polls))

\* poll; a refunded payment is shown as one that is not there yet.
PaymentComes(i) ==
    /\ i \in DOMAIN polls /\ polls[i] # "unread"
    /\ back' = [back EXCEPT
                  !.state = CASE polls[i] = "paid" -> "paid"
                              [] polls[i] = "expired" -> "failed"
                              [] OTHER -> "pending",
                  !.paid = @ \/ polls[i] = "paid", !.late = @ \/ i # 1]
    /\ polls' = Without(i)
    /\ UNCHANGED <<webVars, bought>>

PollFails(i) ==
    /\ i \in DOMAIN polls
    /\ back' = [back EXCEPT !.state = "verifying", !.late = TRUE]
    /\ polls' = Without(i)
    /\ UNCHANGED <<webVars, bought>>
-----------------------------------------------------------------------------
SessionInit ==
    /\ sessions = <<>> /\ deleted = {} /\ minted = 0
    /\ jar = [session |-> 0, csrf |-> 0] /\ remembered = NoVisitor
    /\ view = [t \in WebTabs |-> [at |-> "away", user |-> NoVisitor, amid |-> FALSE]]
    /\ ask = [t \in WebTabs |-> NoAsking]
    /\ mixed = FALSE /\ hitches = 0
    /\ bought = "pending" /\ polls = <<>>
    /\ back = [state |-> "away", ticks |-> 0, paid |-> FALSE, late |-> FALSE]

SessionNext ==
    \/ \E t \in WebTabs :
        \/ \E at \in {"away", "cloud", "account", "profile"} : Visit(t, at)
        \/ \E u \in Visitors : SignIn(t, u)
        \/ Buy(t) \/ LogOut(t) \/ DeleteMe(t) \/ Respond(t)
        \/ SendOff(t) \/ Mint(t) \/ LogIn(t) \/ Serve(t)
        \/ TokenComes(t) \/ CookiesCome(t) \/ BodyComes(t) \/ AnswerComes(t)
        \/ Fails(t)
    \/ CookieLost
    \/ \E s \in 1..MaxSignIns : RevokedElsewhere(s)
    \/ \E to \in {"paid", "expired", "refunded"} : Settle(to)
    \/ BuyerReturns \/ PollTick
    \/ \E i \in 1..MaxTicks : ReadPayment(i) \/ PaymentComes(i) \/ PollFails(i)

SessionSpec == SessionInit /\ [][SessionNext]_sessionVars

SessionTypeOK ==
    /\ \A s \in DOMAIN sessions : sessions[s] \in [user : Visitors, live : BOOLEAN]
    /\ jar.session \in 0..Len(sessions) /\ jar.csrf \in 0..minted
    /\ remembered \in Visitors \cup {NoVisitor} /\ deleted \subseteq Visitors
    /\ mixed \in BOOLEAN /\ hitches \in 0..MaxHitches
    /\ back.ticks \in 0..MaxTicks /\ Len(polls) <= MaxTicks
-----------------------------------------------------------------------------
\* A write whose token is refused, although nothing was lost and no other tab
\* changed a cookie while it was on its way, had no session left to protect.
RefusalsAreExplained ==
    \A t \in WebTabs :
        ask[t].answer = "403" /\ ask[t].calm => Holder(ask[t].cookies.session) = NoVisitor

\* What a page reads or does, it reads or does as the user it shows, unless
\* another tab signed in since it was opened, or sign-ins ran into each other.
ActsAsShown ==
    \A t \in WebTabs :
        ask[t].stage = "answered" /\ ask[t].kind # "login" /\ ask[t].answer = "done"
            => ask[t].who \in {NoVisitor, ask[t].user} \/ view[t].amid \/ mixed

\* The page of a returning buyer says paid only of what was paid; and when answers
\* come in the order they were asked for, and none is lost, it does not take it
\* back while the payment stands.
PaidIsShown ==
    /\ back.state = "paid" => bought \in {"paid", "refunded"}
    /\ back.paid /\ ~back.late /\ bought = "paid" => back.state = "paid"

\* All of them.
SignedInIsSound == SessionTypeOK /\ RefusalsAreExplained /\ ActsAsShown /\ PaidIsShown
=============================================================================
