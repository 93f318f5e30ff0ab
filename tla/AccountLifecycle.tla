-------------------------- MODULE AccountLifecycle --------------------------
(***************************************************************************)
(* Accounts from registration to deletion: apps/api/src/auth.ts, mail.ts,  *)
(* the account's routes in routes.ts and routes-privacy-spools.ts, and     *)
(* packages/db/src/account-privacy.ts.                                     *)
(*                                                                         *)
(* Hashing and checking a password are awaited, so registrations, logins   *)
(* and resets are in progress while other requests run.  Deleting an       *)
(* account does not await, but it is many statements without a transaction *)
(* and the process may stop after each (erasing, at).                      *)
(***************************************************************************)
EXTENDS Integers, FiniteSets, FiniteSetsExt

CONSTANTS
    NoAccount, NoEmail,
    Accounts,          \* rows of users, each inserted once
    Emails,
    Sessions,          \* rows of api_tokens, each issued once
    Links,             \* rows of password_reset_tokens, each sent once
    Kept               \* kinds of private rows: spools, privacy preferences

ASSUME AccountParameters ==
    NoAccount \notin Accounts /\ NoEmail \notin Emails

VARIABLES
    account,           \* users
    rows,              \* user_spools and user_privacy_prefs of an account
    session,           \* api_tokens
    link,              \* password_reset_tokens
    job,               \* account_deletion_jobs, the latest of an account
    registering,       \* registrations whose password is being hashed
    loggingIn,         \* accounts a login checks a password of
    resetting,         \* links whose new password is being hashed
    erasing,           \* the account being deleted
    at                 \* and the statement its deletion reached

accountVars == <<account, rows, session, link, job, registering, loggingIn,
                 resetting, erasing, at>>

NoRow == [status |-> "absent", email |-> NoEmail, name |-> 0, password |-> FALSE]
Unused == [of |-> NoAccount, spent |-> FALSE]
Names == 1..(Cardinality(Accounts) + 1)

AccountsTypeOK ==
    /\ account \in [Accounts -> [status : {"absent", "active", "deleted"},
                                 email : Emails \cup {NoEmail},
                                 name : Names \cup {0},
                                 password : BOOLEAN]]
    /\ rows \in [Accounts -> SUBSET Kept]
    /\ session \in [Sessions -> [of : Accounts \cup {NoAccount}, spent : BOOLEAN]]
    /\ link \in [Links -> [of : Accounts \cup {NoAccount}, spent : BOOLEAN]]
    /\ job \in [Accounts -> {"none", "pending", "completed"}]
    /\ registering \subseteq [account : Accounts, email : Emails, name : Names]
    /\ loggingIn \subseteq Accounts /\ resetting \subseteq Links
    /\ erasing \in Accounts \cup {NoAccount}
    /\ at \in {"nothing", "sessions", "rows", "user", "job"}

Idle == erasing = NoAccount
Active(a) == account[a].status = "active"
-----------------------------------------------------------------------------
(* Sessions.                                                               *)

\* issueToken: nothing but the row of users says whether it may be used.
IssueToken(a, s) ==
    /\ session[s] = Unused
    /\ session' = [session EXCEPT ![s].of = a]

\* Mutant of Serves: the status of the account is not looked at.
Serves_AnyStatus(s) == session[s].of # NoAccount /\ ~session[s].spent

\* resolveTokenUser.
Serves(s) == session[s].of # NoAccount /\ ~session[s].spent /\ Active(session[s].of)

Logout(s) ==
    /\ Idle /\ session[s].of # NoAccount
    /\ session' = [session EXCEPT ![s].spent = TRUE]
    /\ UNCHANGED <<account, rows, link, job, registering, loggingIn,
                   resetting, erasing, at>>

RevokeSession(s, t) ==
    /\ Idle /\ Serves(s) /\ session[t].of = session[s].of
    /\ session' = [session EXCEPT ![t].spent = TRUE]
    /\ UNCHANGED <<account, rows, link, job, registering, loggingIn,
                   resetting, erasing, at>>

\* The caller's own session is spared when it comes as a bearer token; the
\* pages send a cookie.
RevokeOthers(s, how) ==
    /\ Idle /\ Serves(s)
    /\ session' = [t \in Sessions |->
          IF session[t].of = session[s].of /\ ~(how = "bearer" /\ t = s)
          THEN [session[t] EXCEPT !.spent = TRUE] ELSE session[t]]
    /\ UNCHANGED <<account, rows, link, job, registering, loggingIn,
                   resetting, erasing, at>>

\* A request that stores something of the account's own.
StorePrivateRow(s, k) ==
    /\ Idle /\ Serves(s)
    /\ rows' = [rows EXCEPT ![session[s].of] = @ \cup {k}]
    /\ UNCHANGED <<account, session, link, job, registering, loggingIn,
                   resetting, erasing, at>>
-----------------------------------------------------------------------------
(* Registering and logging in.                                             *)

NamesTaken == {account[a].name : a \in Accounts}

\* registerUser looks for a free name, unless one is given; then it hashes.
BeginRegister(a, e, n, given) ==
    /\ Idle /\ account[a] = NoRow /\ job[a] = "none"
    /\ \A r \in registering : r.account # a
    /\ given \/ n = Min(Names \ NamesTaken)
    /\ registering' = registering \cup {[account |-> a, email |-> e, name |-> n]}
    /\ UNCHANGED <<account, rows, session, link, job, loggingIn, resetting,
                   erasing, at>>

\* The unique indexes on username and email.
Insertable(r) ==
    \A a \in Accounts : account[a].email # r.email /\ account[a].name # r.name

\* The row and its first session, or 409.
EndRegister(r, s) ==
    /\ Idle /\ r \in registering
    /\ registering' = registering \ {r}
    /\ IF Insertable(r)
       THEN /\ account' = [account EXCEPT ![r.account] =
                  [status |-> "active", email |-> r.email, name |-> r.name,
                   password |-> TRUE]]
            /\ IssueToken(r.account, s)
       ELSE UNCHANGED <<account, session>>
    /\ UNCHANGED <<rows, link, job, loggingIn, resetting, erasing, at>>

BeginLogin(a) ==
    /\ Idle /\ Active(a) /\ account[a].password
    /\ loggingIn' = loggingIn \cup {a}
    /\ UNCHANGED <<account, rows, session, link, job, registering, resetting,
                   erasing, at>>

\* The check of the password ends; the account is not looked at again.
EndLogin(a, s, right) ==
    /\ Idle /\ a \in loggingIn
    /\ loggingIn' = loggingIn \ {a}
    /\ IF right THEN IssueToken(a, s) ELSE UNCHANGED session
    /\ UNCHANGED <<account, rows, link, job, registering, resetting, erasing, at>>
-----------------------------------------------------------------------------
(* Resetting a password.                                                   *)

SendResetLink(a, l) ==
    /\ Idle /\ Active(a) /\ account[a].password /\ link[l] = Unused
    /\ link' = [link EXCEPT ![l].of = a]
    /\ UNCHANGED <<account, rows, session, job, registering, loggingIn,
                   resetting, erasing, at>>

\* consumePasswordResetToken, up to the hash.
BeginReset(l) ==
    /\ Idle /\ link[l].of # NoAccount /\ ~link[l].spent
    /\ resetting' = resetting \cup {l}
    /\ UNCHANGED <<account, rows, session, link, job, registering, loggingIn,
                   erasing, at>>

\* And from there on: the account is not looked at.
EndReset(l) ==
    /\ Idle /\ l \in resetting
    /\ resetting' = resetting \ {l}
    /\ account' = [account EXCEPT ![link[l].of].password = TRUE]
    /\ link' = [link EXCEPT ![l].spent = TRUE]
    /\ UNCHANGED <<rows, session, job, registering, loggingIn, erasing, at>>
-----------------------------------------------------------------------------
(* Deleting an account, statement by statement.                            *)

\* The job; a password that comes with the request need only be of an account
\* that has one, since the result of the check is not awaited.
BeginDelete(s) ==
    /\ Idle /\ Serves(s)
    /\ erasing' = session[s].of /\ at' = "sessions"
    /\ job' = [job EXCEPT ![session[s].of] = "pending"]
    /\ UNCHANGED <<account, rows, session, link, registering, loggingIn, resetting>>

RevokeAllSessions ==
    /\ at = "sessions" /\ at' = "rows"
    /\ session' = [t \in Sessions |->
          IF session[t].of = erasing THEN [session[t] EXCEPT !.spent = TRUE]
          ELSE session[t]]
    /\ UNCHANGED <<account, rows, link, job, registering, loggingIn,
                   resetting, erasing>>

\* purgeAllUserSpools and the privacy preferences, a row at a time.
PurgeRows(k) ==
    /\ at = "rows"
    /\ IF rows[erasing] = {}
       THEN at' = "user" /\ UNCHANGED rows
       ELSE /\ k \in rows[erasing]
            /\ rows' = [rows EXCEPT ![erasing] = @ \ {k}]
            /\ UNCHANGED at
    /\ UNCHANGED <<account, session, link, job, registering, loggingIn,
                   resetting, erasing>>

\* The name becomes one of the account's own, the address none at all.
AnonymizeUser ==
    /\ at = "user" /\ at' = "job"
    /\ account' = [account EXCEPT ![erasing] = [NoRow EXCEPT !.status = "deleted"]]
    /\ UNCHANGED <<rows, session, link, job, registering, loggingIn,
                   resetting, erasing>>

CompleteJob ==
    /\ at = "job" /\ at' = "nothing" /\ erasing' = NoAccount
    /\ job' = [job EXCEPT ![erasing] = "completed"]
    /\ UNCHANGED <<account, rows, session, link, registering, loggingIn, resetting>>

Delete ==
    \/ RevokeAllSessions \/ \E k \in Kept : PurgeRows(k)
    \/ AnonymizeUser \/ CompleteJob
-----------------------------------------------------------------------------
\* The process stops and starts again; nobody takes a pending job up.
StopAccounts ==
    /\ registering' = {} /\ loggingIn' = {} /\ resetting' = {}
    /\ erasing' = NoAccount /\ at' = "nothing"
    /\ UNCHANGED <<account, rows, session, link, job>>

AccountsInit ==
    /\ account = [a \in Accounts |-> NoRow]
    /\ rows = [a \in Accounts |-> {}]
    /\ session = [s \in Sessions |-> Unused]
    /\ link = [l \in Links |-> Unused]
    /\ job = [a \in Accounts |-> "none"]
    /\ registering = {} /\ loggingIn = {} /\ resetting = {}
    /\ erasing = NoAccount /\ at = "nothing"

AccountsNext ==
    \/ \E s \in Sessions :
          \/ Logout(s) \/ BeginDelete(s)
          \/ \E t \in Sessions : RevokeSession(s, t)
          \/ \E how \in {"bearer", "cookie"} : RevokeOthers(s, how)
          \/ \E k \in Kept : StorePrivateRow(s, k)
          \/ \E r \in registering : EndRegister(r, s)
          \/ \E a \in loggingIn, right \in BOOLEAN : EndLogin(a, s, right)
    \/ \E a \in Accounts :
          \/ \E e \in Emails, n \in Names, given \in BOOLEAN :
                BeginRegister(a, e, n, given)
          \/ BeginLogin(a)
          \/ \E l \in Links : SendResetLink(a, l)
    \/ \E l \in Links : BeginReset(l) \/ EndReset(l)
    \/ Delete
    \/ StopAccounts

AccountsSpec == AccountsInit /\ [][AccountsNext]_accountVars

\* A deletion does not await: the process carries it on until it stops.
FairAccountsSpec == AccountsSpec /\ WF_accountVars(Delete)
-----------------------------------------------------------------------------
(* What must hold.                                                         *)

\* Logins and resets that were in progress, sessions issued after the purge
\* and a deletion begun again included, a deleted account keeps no private
\* row and no address, and a completed job means a deleted account.
DeletedIsEmpty ==
    \A a \in Accounts :
        /\ account[a].status = "deleted" =>
              rows[a] = {} /\ account[a].email = NoEmail
        /\ job[a] = "completed" => account[a].status = "deleted"

\* A deletion that a stop cut short has left a password behind, so the owner,
\* whose sessions are gone, can log in and ask for it again.
DeletionCanBeRepeated ==
    \A a \in Accounts : Active(a) => account[a].password /\ account[a].email # NoEmail

\* What the account page calls the button: revoke the other sessions.  A step
\* that revokes several and is not a deletion leaves the caller's.
OpenSessions(a) == {s \in Sessions : session[s].of = a /\ ~session[s].spent}
RevokeOthersKeepsOwn ==
    [][\A a \in Accounts :
          Idle /\ Cardinality(OpenSessions(a) \ OpenSessions(a)') > 1 =>
              OpenSessions(a)' # {}]_accountVars

\* Deletion cut off anywhere: what says deleted is empty, what does not can be
\* deleted again.
DeletionIsSound == DeletedIsEmpty /\ DeletionCanBeRepeated
=============================================================================
