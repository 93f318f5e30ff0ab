------------------------- MODULE ServerTablesProofs -------------------------
(***************************************************************************)
(* Theorems about parts of MCServer, which share no state with each other: *)
(* files and their rows, revisions of profiles, votes, accounts, brands of *)
(* the catalogue, the colours two datasets bring into it, the presets of a *)
(* slicer, and the fields of both kinds of tags; for any number of rows,   *)
(* files, voters, sessions, jobs and folders, wherever a process stops.    *)
(***************************************************************************)
EXTENDS MCServer, FiniteSetTheorems, SequenceTheorems, WellFoundedInduction, TLAPS

-----------------------------------------------------------------------------
(* Votes (ProfileVotes): the row and its count are two statements.         *)

\* The vote being counted is somebody's.
VotesIInv == CountsAreTheVotes /\ counting \in Voters \cup {Nobody}

\* No votes, and none counted.
LEMMA InitVotesIInv == VotesInit => VotesIInv
BY DEF VotesInit, VotesIInv, CountsAreTheVotes

\* A vote is counted in full, or marked as left uncounted by a stop.
LEMMA NextVotesIInv == VotesIInv /\ [VotesNext]_voteVars => VotesIInv'
<1> SUFFICES ASSUME VotesIInv, [VotesNext]_voteVars PROVE VotesIInv'
  OBVIOUS
<1> USE DEF VotesIInv, CountsAreTheVotes
<1>1. ASSUME NEW v \in Voters,
             \/ \E thumb \in {1, -1} : Click(v, thumb)
             \/ Answered(v) \/ Lost(v) \/ Refresh(v)
      PROVE  VotesIInv'
  BY <1>1 DEF Click, Answered, Lost, Refresh
<1>2. ASSUME NEW v \in Voters, CastProfileVote(v) PROVE VotesIInv'
  BY <1>2, VotesParameters DEF CastProfileVote
<1>3. CASE RecomputeProfileVotes
  BY <1>3 DEF RecomputeProfileVotes, Recounted
<1>4. CASE StopVoting
  BY <1>4 DEF StopVoting
<1>5. CASE UNCHANGED voteVars
  BY <1>5 DEF voteVars
<1> QED BY <1>1, <1>2, <1>3, <1>4, <1>5 DEF VotesNext

\* What a profile says of its votes is what the rows say, for any number of
\* voters, unless a stop came between the two and nobody has voted since.
THEOREM CountsAreRight == VotesSpec => []CountsAreTheVotes
<1>1. VotesIInv => CountsAreTheVotes
  BY DEF VotesIInv
<1> QED BY <1>1, InitVotesIInv, NextVotesIInv, PTL DEF VotesSpec
-----------------------------------------------------------------------------
(* Files and rows (MediaFiles): a row is written after its file and        *)
(* deleted before it.                                                      *)

\* The file in hand is there before it gets its row, and has none any more when
\* it is removed; a written piece of evidence is there.
FilesComeFirst ==
    /\ inHand.doing # "nothing" =>
          inHand.file \in Pictures /\ pictureOf[inHand.file] = NoProduct
    /\ inHand.doing = "attach" => inHand.file \in disk
    /\ \A e \in Evidence : storing[e] = "written" => e \in disk

MediaIInv == MediaTypeOK /\ RowsAreWhole /\ FilesComeFirst

\* No files and no rows.
LEMMA InitMediaIInv == MediaInit => MediaIInv
BY DEF MediaInit, MediaIInv, MediaTypeOK, RowsAreWhole, FilesComeFirst, NoHand

\* The shop's handlers keep to the order of file and row.
LEMMA PicturesKeepIInv ==
    ASSUME MediaIInv,
           \/ \E p \in Products : InsertProduct(p) \/ DeleteProduct(p)
           \/ \E f \in Pictures, p \in Products : WritePicture(f, p)
           \/ AttachShopImage
           \/ \E f \in Pictures : DeleteShopImage(f)
           \/ RemovePicture
    PROVE  MediaIInv'
<1> USE DEF MediaIInv, MediaTypeOK, RowsAreWhole, FilesComeFirst, Free, NoHand
<1>1. ASSUME NEW p \in Products, InsertProduct(p) PROVE MediaIInv'
  BY <1>1 DEF InsertProduct
<1>2. ASSUME NEW p \in Products, DeleteProduct(p) PROVE MediaIInv'
  BY <1>2, MediaParameters DEF DeleteProduct, RowsAfterDelete
<1>3. ASSUME NEW f \in Pictures, NEW p \in Products, WritePicture(f, p)
      PROVE  MediaIInv'
  BY <1>3 DEF WritePicture
<1>4. CASE AttachShopImage
  <2>1. CASE inHand.product \in products
    BY <1>4, <2>1 DEF AttachShopImage
  <2>2. CASE inHand.product \notin products
    BY <1>4, <2>2 DEF AttachShopImage
  <2> QED BY <2>1, <2>2
<1>5. ASSUME NEW f \in Pictures, DeleteShopImage(f) PROVE MediaIInv'
  BY <1>5 DEF DeleteShopImage
<1>6. CASE RemovePicture
  BY <1>6, MediaParameters DEF RemovePicture
<1> QED BY <1>1, <1>2, <1>3, <1>4, <1>5, <1>6

\* So does the upload of evidence, whatever comes between its steps.
LEMMA EvidenceKeepsIInv ==
    ASSUME MediaIInv, NEW e \in Evidence,
           BeginEvidence(e) \/ StoreEvidenceImage(e) \/ InsertEvidence(e)
    PROVE  MediaIInv'
<1> USE DEF MediaIInv, MediaTypeOK, RowsAreWhole, FilesComeFirst, Free, NoHand
<1>1. CASE BeginEvidence(e)
  BY <1>1 DEF BeginEvidence
<1>2. CASE StoreEvidenceImage(e)
  BY <1>2 DEF StoreEvidenceImage
<1>3. CASE InsertEvidence(e)
  BY <1>3 DEF InsertEvidence
<1> QED BY <1>1, <1>2, <1>3

\* Every step, a stop included, keeps the invariant.
LEMMA NextMediaIInv == MediaIInv /\ [MediaNext]_mediaVars => MediaIInv'
<1> SUFFICES ASSUME MediaIInv, [MediaNext]_mediaVars PROVE MediaIInv'
  OBVIOUS
<1>1. CASE StopMedia \/ UNCHANGED mediaVars
  BY <1>1 DEF StopMedia, mediaVars, MediaIInv, MediaTypeOK, RowsAreWhole,
              FilesComeFirst, NoHand
<1> QED BY <1>1, PicturesKeepIInv, EvidenceKeepsIInv DEF MediaNext

\* A row never names a file that is not on disk or a product that is gone,
\* wherever the process stops.
THEOREM RowsAreAlwaysWhole == MediaSpec => []RowsAreWhole
<1>1. MediaIInv => RowsAreWhole
  BY DEF MediaIInv
<1> QED BY <1>1, InitMediaIInv, NextMediaIInv, PTL DEF MediaSpec
-----------------------------------------------------------------------------
(* Accounts (AccountLifecycle): what was awaited when an account is        *)
(* deleted is carried out afterwards.                                      *)

\* A registration in progress is of an account that does not exist yet, and the
\* only one of it; a link was sent to an account that did exist.
AwaitedIsHarmless ==
    /\ \A r \in registering : account[r.account].status = "absent"
    /\ \A r, q \in registering : r.account = q.account => r = q
    /\ \A l \in Links : link[l].of # NoAccount =>
          account[link[l].of].status # "absent"
    /\ \A l \in resetting : link[l].of # NoAccount

\* How far a deletion is tells what is left; private rows are of accounts in use.
DeletionIsInOrder ==
    /\ at # "nothing" => erasing \in Accounts
    /\ at \in {"sessions", "rows", "user"} => Active(erasing)
    /\ at = "user" => rows[erasing] = {}
    /\ at = "job" => account[erasing].status = "deleted"
    /\ \A a \in Accounts : rows[a] # {} => Active(a)

AccountsIInv ==
    AccountsTypeOK /\ AwaitedIsHarmless /\ DeletionIsInOrder /\ DeletionIsSound

\* Nobody has registered.
LEMMA InitAccountsIInv == AccountsInit => AccountsIInv
BY AccountParameters
   DEF AccountsInit, AccountsIInv, AccountsTypeOK, AwaitedIsHarmless,
       DeletionIsInOrder, DeletionIsSound, DeletedIsEmpty, DeletionCanBeRepeated,
       NoRow, Unused, Active

\* Signing out, revoking and storing.
LEMMA SessionsKeepIInv ==
    ASSUME AccountsIInv, NEW s \in Sessions,
           \/ Logout(s) \/ \E t \in Sessions : RevokeSession(s, t)
           \/ \E how \in {"bearer", "cookie"} : RevokeOthers(s, how)
    PROVE  AccountsIInv'
<1>1. /\ session' \in [Sessions -> [of : Accounts \cup {NoAccount}, spent : BOOLEAN]]
      /\ UNCHANGED <<account, rows, link, job, registering, loggingIn,
                     resetting, erasing, at>>
  <2>1. CASE Logout(s)
    BY <2>1 DEF Logout, AccountsIInv, AccountsTypeOK
  <2>2. ASSUME NEW t \in Sessions, RevokeSession(s, t)
        PROVE  <1>1!:
    BY <2>2 DEF RevokeSession, AccountsIInv, AccountsTypeOK
  <2>3. ASSUME NEW how \in {"bearer", "cookie"}, RevokeOthers(s, how)
        PROVE  <1>1!:
    <3>1. \A t \in Sessions :
             [session[t] EXCEPT !.spent = TRUE]
                \in [of : Accounts \cup {NoAccount}, spent : BOOLEAN]
      BY DEF AccountsIInv, AccountsTypeOK
    <3> QED BY <2>3, <3>1 DEF RevokeOthers, AccountsIInv, AccountsTypeOK
  <2> QED BY <2>1, <2>2, <2>3
<1> QED BY <1>1 DEF AccountsIInv, AccountsTypeOK, AwaitedIsHarmless,
            DeletionIsInOrder, DeletionIsSound, DeletedIsEmpty,
            DeletionCanBeRepeated, Active

\* Only an account in use gets private rows.
LEMMA StoringKeepsIInv ==
    ASSUME AccountsIInv, NEW s \in Sessions, NEW k \in Kept, StorePrivateRow(s, k)
    PROVE  AccountsIInv'
<1>1. /\ session[s].of \in Accounts /\ Active(session[s].of) /\ erasing = NoAccount
      /\ rows' = [rows EXCEPT ![session[s].of] = @ \cup {k}]
      /\ UNCHANGED <<account, session, link, job, registering, loggingIn,
                     resetting, erasing, at>>
  BY DEF StorePrivateRow, Serves, Idle, AccountsIInv, AccountsTypeOK
<1> USE DEF AccountsIInv, AccountsTypeOK
<1>2. AccountsTypeOK' /\ AwaitedIsHarmless'
  BY <1>1 DEF AwaitedIsHarmless
<1>3. DeletionIsInOrder' /\ DeletionIsSound'
  BY <1>1, AccountParameters
     DEF DeletionIsInOrder, DeletionIsSound, DeletedIsEmpty,
         DeletionCanBeRepeated, Active
<1> QED BY <1>2, <1>3

\* A registration makes an account in use of one that did not exist, or ends
\* with a conflict.
LEMMA RegisteringKeepsIInv ==
    ASSUME AccountsIInv,
           \/ \E a \in Accounts, e \in Emails, n \in Names, granted \in BOOLEAN :
                 BeginRegister(a, e, n, granted)
           \/ \E r \in registering, s \in Sessions : EndRegister(r, s)
    PROVE  AccountsIInv'
<1> USE DEF AccountsIInv, AccountsTypeOK
<1>1. ASSUME NEW a \in Accounts, NEW e \in Emails, NEW n \in Names,
             NEW granted \in BOOLEAN, BeginRegister(a, e, n, granted)
      PROVE  AccountsIInv'
  BY <1>1 DEF BeginRegister, AwaitedIsHarmless, DeletionIsInOrder,
              DeletionIsSound, DeletedIsEmpty, DeletionCanBeRepeated, Active,
              NoRow
<1>2. ASSUME NEW r \in registering, NEW s \in Sessions, EndRegister(r, s)
      PROVE  AccountsIInv'
  <2>1. /\ registering' = registering \ {r} /\ erasing = NoAccount
        /\ r.account \in Accounts /\ r.email \in Emails /\ r.name \in Names
        /\ account[r.account].status = "absent"
        /\ UNCHANGED <<rows, link, job, loggingIn, resetting, erasing, at>>
    BY <1>2 DEF EndRegister, AwaitedIsHarmless, Idle
  <2>2. CASE UNCHANGED <<account, session>>
    BY <2>1, <2>2 DEF AwaitedIsHarmless, DeletionIsInOrder, DeletionIsSound,
                      DeletedIsEmpty, DeletionCanBeRepeated, Active
  <2>3. CASE /\ account' = [account EXCEPT ![r.account] =
                  [status |-> "active", email |-> r.email, name |-> r.name,
                   password |-> TRUE]]
             /\ IssueToken(r.account, s)
    <3>1. AccountsTypeOK'
      BY <2>1, <2>3 DEF IssueToken
    <3>2. AwaitedIsHarmless'
      BY <2>1, <2>3 DEF AwaitedIsHarmless
    <3>3. DeletionIsInOrder'
      BY <2>1, <2>3, AccountParameters DEF DeletionIsInOrder, Active
    <3>4. DeletionIsSound'
      BY <2>1, <2>3, AccountParameters
         DEF DeletionIsSound, DeletedIsEmpty, DeletionCanBeRepeated, Active
    <3> QED BY <3>1, <3>2, <3>3, <3>4
  <2> QED BY <1>2, <2>2, <2>3 DEF EndRegister
<1> QED BY <1>1, <1>2

\* Logging in issues sessions only.
LEMMA LoginKeepsIInv ==
    ASSUME AccountsIInv,
           \/ \E a \in Accounts : BeginLogin(a)
           \/ \E a \in loggingIn, s \in Sessions, right \in BOOLEAN :
                 EndLogin(a, s, right)
    PROVE  AccountsIInv'
<1>1. /\ session' \in [Sessions -> [of : Accounts \cup {NoAccount}, spent : BOOLEAN]]
      /\ loggingIn' \subseteq Accounts
      /\ UNCHANGED <<account, rows, link, job, registering, resetting,
                     erasing, at>>
  <2>1. ASSUME NEW a \in Accounts, BeginLogin(a) PROVE <1>1!:
    BY <2>1 DEF BeginLogin, AccountsIInv, AccountsTypeOK
  <2>2. ASSUME NEW a \in loggingIn, NEW s \in Sessions, NEW right \in BOOLEAN,
               EndLogin(a, s, right)
        PROVE  <1>1!:
    <3>1. a \in Accounts
      BY DEF AccountsIInv, AccountsTypeOK
    <3>2. session' \in [Sessions -> [of : Accounts \cup {NoAccount}, spent : BOOLEAN]]
      <4>1. CASE UNCHANGED session
        BY <4>1 DEF AccountsIInv, AccountsTypeOK
      <4>2. CASE IssueToken(a, s)
        BY <3>1, <4>2 DEF IssueToken, AccountsIInv, AccountsTypeOK
      <4> QED BY <2>2, <4>1, <4>2 DEF EndLogin
    <3> QED BY <2>2, <3>2 DEF EndLogin, AccountsIInv, AccountsTypeOK
  <2> QED BY <2>1, <2>2
<1> QED BY <1>1 DEF AccountsIInv, AccountsTypeOK, AwaitedIsHarmless,
            DeletionIsInOrder, DeletionIsSound, DeletedIsEmpty,
            DeletionCanBeRepeated, Active

\* A reset writes a password, perhaps of an account deleted meanwhile, but
\* neither its status nor its address.
LEMMA ResetKeepsIInv ==
    ASSUME AccountsIInv,
           \/ \E a \in Accounts, l \in Links : SendResetLink(a, l)
           \/ \E l \in Links : BeginReset(l) \/ EndReset(l)
    PROVE  AccountsIInv'
<1> USE DEF AccountsIInv, AccountsTypeOK
<1>1. ASSUME NEW a \in Accounts, NEW l \in Links, SendResetLink(a, l)
      PROVE  AccountsIInv'
  <2>1. AccountsTypeOK' /\ AwaitedIsHarmless'
    BY <1>1, AccountParameters DEF SendResetLink, AwaitedIsHarmless, Active, Unused
  <2>2. DeletionIsInOrder' /\ DeletionIsSound'
    BY <1>1 DEF SendResetLink, DeletionIsInOrder, DeletionIsSound,
                DeletedIsEmpty, DeletionCanBeRepeated, Active
  <2> QED BY <2>1, <2>2
<1>2. ASSUME NEW l \in Links, BeginReset(l) PROVE AccountsIInv'
  BY <1>2 DEF BeginReset, AwaitedIsHarmless, DeletionIsInOrder,
              DeletionIsSound, DeletedIsEmpty, DeletionCanBeRepeated, Active
<1>3. ASSUME NEW l \in Links, EndReset(l) PROVE AccountsIInv'
  <2>1. /\ resetting' = resetting \ {l} /\ link[l].of \in Accounts
        /\ account' = [account EXCEPT ![link[l].of].password = TRUE]
        /\ link' = [link EXCEPT ![l].spent = TRUE]
        /\ UNCHANGED <<rows, session, job, registering, loggingIn, erasing, at>>
    BY <1>3 DEF EndReset, AwaitedIsHarmless
  <2>2. \A a \in Accounts : /\ account'[a].status = account[a].status
                            /\ account'[a].email = account[a].email
                            /\ account[a].password => account'[a].password
    BY <2>1
  <2>3. AccountsTypeOK'
    BY <2>1
  <2>4. AwaitedIsHarmless'
    BY <2>1, <2>2 DEF AwaitedIsHarmless
  <2>5. DeletionIsInOrder' /\ DeletionIsSound'
    BY <2>1, <2>2 DEF DeletionIsInOrder, DeletionIsSound, DeletedIsEmpty,
                      DeletionCanBeRepeated, Active
  <2> QED BY <2>3, <2>4, <2>5
<1> QED BY <1>1, <1>2, <1>3

\* A deletion goes from statement to statement, and a stop may end it anywhere.
LEMMA DeletingKeepsIInv ==
    ASSUME AccountsIInv,
           (\E s \in Sessions : BeginDelete(s)) \/ Delete \/ StopAccounts
    PROVE  AccountsIInv'
<1> USE DEF AccountsIInv, AccountsTypeOK
<1>1. ASSUME NEW s \in Sessions, BeginDelete(s) PROVE AccountsIInv'
  BY <1>1, AccountParameters
     DEF BeginDelete, Serves, Active, Idle, AwaitedIsHarmless,
         DeletionIsInOrder, DeletionIsSound, DeletedIsEmpty,
         DeletionCanBeRepeated
<1>2. CASE RevokeAllSessions
  <2>1. \A t \in Sessions :
           [session[t] EXCEPT !.spent = TRUE]
              \in [of : Accounts \cup {NoAccount}, spent : BOOLEAN]
    OBVIOUS
  <2>2. session' \in [Sessions -> [of : Accounts \cup {NoAccount}, spent : BOOLEAN]]
    BY <1>2, <2>1 DEF RevokeAllSessions
  <2>3. /\ at = "sessions" /\ at' = "rows"
        /\ UNCHANGED <<account, rows, link, job, registering, loggingIn,
                       resetting, erasing>>
    BY <1>2 DEF RevokeAllSessions
  <2>4. AccountsTypeOK' /\ AwaitedIsHarmless'
    BY <2>2, <2>3 DEF AwaitedIsHarmless
  <2>5. DeletionIsInOrder' /\ DeletionIsSound'
    BY <2>3 DEF DeletionIsInOrder, DeletionIsSound, DeletedIsEmpty,
                DeletionCanBeRepeated, Active
  <2> QED BY <2>4, <2>5
<1>3. ASSUME NEW k \in Kept, PurgeRows(k) PROVE AccountsIInv'
  <2>1. /\ at = "rows" /\ erasing \in Accounts /\ Active(erasing)
        /\ UNCHANGED <<account, session, link, job, registering, loggingIn,
                       resetting, erasing>>
    BY <1>3 DEF PurgeRows, DeletionIsInOrder
  <2>2. CASE rows[erasing] = {} /\ at' = "user" /\ UNCHANGED rows
    BY <2>1, <2>2 DEF AwaitedIsHarmless, DeletionIsInOrder, DeletionIsSound,
                      DeletedIsEmpty, DeletionCanBeRepeated, Active
  <2>3. CASE rows' = [rows EXCEPT ![erasing] = @ \ {k}] /\ UNCHANGED at
    <3>1. AccountsTypeOK' /\ AwaitedIsHarmless'
      BY <2>1, <2>3 DEF AwaitedIsHarmless
    <3>2. \A a \in Accounts : rows'[a] \subseteq rows[a]
      BY <2>3
    <3>3. DeletionIsInOrder' /\ DeletionIsSound'
      BY <2>1, <2>3, <3>2 DEF DeletionIsInOrder, DeletionIsSound,
         DeletedIsEmpty, DeletionCanBeRepeated, Active
    <3> QED BY <3>1, <3>3
  <2> QED BY <1>3, <2>2, <2>3 DEF PurgeRows
<1>4. CASE AnonymizeUser
  <2>1. /\ erasing \in Accounts /\ rows[erasing] = {} /\ Active(erasing)
        /\ account' = [account EXCEPT ![erasing] = [NoRow EXCEPT !.status = "deleted"]]
        /\ at = "user" /\ at' = "job"
        /\ UNCHANGED <<rows, session, link, job, registering, loggingIn,
                       resetting, erasing>>
    BY <1>4 DEF AnonymizeUser, DeletionIsInOrder
  <2>2. AccountsTypeOK'
    BY <2>1 DEF NoRow
  <2>3. AwaitedIsHarmless'
    BY <2>1 DEF AwaitedIsHarmless, NoRow, Active
  <2>4. DeletionIsInOrder' /\ DeletionIsSound'
    BY <2>1 DEF DeletionIsInOrder, DeletionIsSound, DeletedIsEmpty,
                DeletionCanBeRepeated, NoRow, Active
  <2> QED BY <2>2, <2>3, <2>4
<1>5. CASE CompleteJob
  BY <1>5 DEF CompleteJob, AwaitedIsHarmless, DeletionIsInOrder,
              DeletionIsSound, DeletedIsEmpty, DeletionCanBeRepeated, Active
<1>6. CASE StopAccounts
  BY <1>6 DEF StopAccounts, AwaitedIsHarmless, DeletionIsInOrder,
              DeletionIsSound, DeletedIsEmpty, DeletionCanBeRepeated, Active
<1> QED BY <1>1, <1>2, <1>3, <1>4, <1>5, <1>6 DEF Delete

\* Every step keeps the invariant.
LEMMA NextAccountsIInv == AccountsIInv /\ [AccountsNext]_accountVars => AccountsIInv'
<1> SUFFICES ASSUME AccountsIInv, [AccountsNext]_accountVars PROVE AccountsIInv'
  OBVIOUS
<1>1. CASE UNCHANGED accountVars
  BY <1>1 DEF accountVars, AccountsIInv, AccountsTypeOK, AwaitedIsHarmless,
              DeletionIsInOrder, DeletionIsSound, DeletedIsEmpty,
              DeletionCanBeRepeated, Active
<1>2. CASE AccountsNext
  BY <1>2, SessionsKeepIInv, StoringKeepsIInv, RegisteringKeepsIInv,
     LoginKeepsIInv, ResetKeepsIInv, DeletingKeepsIInv DEF AccountsNext
<1> QED BY <1>1, <1>2

\* A deleted account keeps nothing private, whatever was in progress when it
\* was deleted, and one whose deletion was cut short can be deleted again.
THEOREM DeletionIsAlwaysSound == AccountsSpec => []DeletionIsSound
<1>1. AccountsIInv => DeletionIsSound
  BY DEF AccountsIInv
<1> QED BY <1>1, InitAccountsIInv, NextAccountsIInv, PTL DEF AccountsSpec

\* The tables of accounts and what is in progress are well typed.
THEOREM AccountsTypeCorrect == AccountsSpec => []AccountsTypeOK
<1>1. AccountsIInv => AccountsTypeOK
  BY DEF AccountsIInv
<1> QED BY <1>1, InitAccountsIInv, NextAccountsIInv, PTL DEF AccountsSpec
-----------------------------------------------------------------------------
(* Revisions (ProfileRevisions): publishing is several statements.         *)

Revision == [number : 1..MaxRevisions, status : Status]

\* Numbers are given densely, so the unique index never refuses one; a profile
\* without a row has none, and the pointer is of every profile.
NumbersAreDense ==
    /\ \A p \in Profiles : \A i \in Place(p) : revisions[p][i].number = i
    /\ \A p \in Profiles \ profiles : revisions[p] = <<>>
    /\ current \in [Profiles -> Nat]

\* What the route at work may count on.
HandIsInOrder ==
    /\ hand.doing = "nothing" <=> hand = Resting
    /\ hand # Resting => hand.profile \in profiles
    /\ hand.status # "superseded"
    /\ hand.doing = "insert" =>
          /\ Len(revisions[hand.profile]) < MaxRevisions
          /\ hand.status = "published" => revisions[hand.profile] = <<>>
    /\ hand.doing = "supersede" => current[hand.profile] # 0

\* Two published revisions of a profile are one.
OneIsPublished ==
    \A p \in Profiles : \A i, j \in PublishedOf(p) : i = j

\* Why a superseded revision may have no published one beside it.
LapsedIsKnown ==
    \A p \in Profiles :
        (\E i \in Place(p) : revisions[p][i].status = "superseded") =>
            \/ PublishedOf(p) # {} \/ p \in cut
            \/ hand.doing = "supersede" /\ hand.profile = p

ProfilesIInv ==
    /\ ProfilesTypeOK /\ NumbersAreDense /\ HandIsInOrder
    /\ OneIsPublished /\ LapsedIsKnown

\* A bounded sequence is a sequence within the bound.
LEMMA BoundedIsSequence ==
    ASSUME NEW S, NEW n \in Nat, NEW s
    PROVE  /\ s \in BoundedSeq(S, n) <=> s \in Seq(S) /\ Len(s) <= n
           /\ s \in BoundedSeq(S, n) => s \in [1..Len(s) -> S] /\ Len(s) \in 0..n
<1>1. s \in BoundedSeq(S, n) <=> \E m \in 0..n : s \in [1..m -> S]
  BY DEF BoundedSeq, SeqOf
<1>2. ASSUME NEW m \in 0..n, s \in [1..m -> S]
      PROVE  s \in Seq(S) /\ Len(s) = m
  BY <1>2
<1>3. ASSUME s \in Seq(S), Len(s) <= n
      PROVE  Len(s) \in 0..n /\ s \in [1..Len(s) -> S]
  BY <1>3
<1> QED BY <1>1, <1>2, <1>3

\* The number after the numbers 1 to m is m + 1.
LEMMA NextNumberIsNext ==
    ASSUME ProfilesTypeOK, NumbersAreDense, NEW p \in Profiles
    PROVE  NextNumber(p) = Len(revisions[p]) + 1 /\ NextNumber(p) \notin Numbers(p)
<1> DEFINE m == Len(revisions[p])
<1>1. m \in Nat /\ Place(p) = 1..m
  BY BoundedIsSequence, ProfileParameters DEF ProfilesTypeOK, Place
<1>2. Numbers(p) \cup {0} = 0..m
  BY <1>1 DEF Numbers, NumbersAreDense
<1>3. m \in 0..m /\ \A y \in 0..m : m >= y
  BY <1>1
<1>4. \A x \in 0..m : (\A y \in 0..m : x >= y) => x = m
  BY <1>1
<1>5. Max(0..m) = m
  BY <1>3, <1>4 DEF Max
<1>6. m + 1 \notin 0..m
  BY <1>1
<1>7. NextNumber(p) = m + 1
  BY <1>2, <1>5 DEF NextNumber
<1> QED BY <1>2, <1>6, <1>7

\* No profile.
LEMMA InitProfilesIInv == ProfilesInit => ProfilesIInv
<1> SUFFICES ASSUME ProfilesInit PROVE ProfilesIInv
  OBVIOUS
<1>1. \A p \in Profiles : revisions[p] = <<>> /\ Place(p) = {}
  BY DEF ProfilesInit, Place
<1>2. <<>> \in BoundedSeq(Revision, MaxRevisions)
  <2>1. <<>> \in Seq(Revision) /\ Len(<<>>) <= MaxRevisions
    BY ProfileParameters
  <2> QED BY <2>1, BoundedIsSequence, ProfileParameters
<1>3. ProfilesTypeOK
  BY <1>1, <1>2 DEF ProfilesInit, ProfilesTypeOK, Resting, Status, Revision
<1> QED BY <1>1, <1>3 DEF ProfilesInit, ProfilesIInv, NumbersAreDense,
            HandIsInOrder, OneIsPublished, LapsedIsKnown, PublishedOf, Resting

\* The row of a profile, and the routes that begin with nothing written.
LEMMA BeginningKeepsIInv ==
    ASSUME ProfilesIInv, NEW p \in Profiles,
           \/ CreateProfile(p) \/ SubmitCommunityProfile(p)
           \/ ImportCreality(p) \/ ImportOpenFilament(p) \/ ImportStarter(p)
           \/ \E source \in Profiles : ForkProfile(p, source)
           \/ ReviseProfile(p) \/ BeginPublish(p)
    PROVE  ProfilesIInv'
<1> USE DEF ProfilesIInv
<1>1. /\ hand = Resting /\ UNCHANGED <<revisions, current, confirmations, cut>>
      /\ hand' \in [doing : {"insert", "supersede"}, profile : {p},
                    status : {"draft", "published"}]
      /\ profiles' = profiles \cup {p}
      /\ hand'.doing = "insert" =>
            /\ Len(revisions[p]) < MaxRevisions
            /\ hand'.status = "published" => revisions[p] = <<>>
      /\ hand'.doing = "supersede" => current[p] # 0
  <2>1. ASSUME NEW status \in {"draft", "published"}, InsertProfile(p, status)
        PROVE  <1>1!:
    <3>1. revisions[p] = <<>> /\ Len(<<>>) < MaxRevisions
      BY <2>1, ProfileParameters DEF InsertProfile, NumbersAreDense
    <3> QED BY <2>1, <3>1 DEF InsertProfile, AtRest
  <2>2. CASE ReviseProfile(p)
    BY <2>2 DEF ReviseProfile, AtRest
  <2>3. CASE BeginPublish(p)
    BY <2>3 DEF BeginPublish, Publishable, AtRest
  <2> QED BY <2>1, <2>2, <2>3 DEF CreateProfile, SubmitCommunityProfile,
              ImportCreality, ImportOpenFilament, ImportStarter, ForkProfile
<1>2. hand' # Resting /\ hand'.profile = p
  BY <1>1 DEF Resting
<1>3. ProfilesTypeOK'
  BY <1>1 DEF ProfilesTypeOK, Place, Status
<1>4. NumbersAreDense' /\ HandIsInOrder'
  BY <1>1, <1>2 DEF NumbersAreDense, HandIsInOrder, Place
<1>5. OneIsPublished' /\ LapsedIsKnown'
  BY <1>1 DEF OneIsPublished, LapsedIsKnown, PublishedOf, Place, Resting
<1> QED BY <1>3, <1>4, <1>5

\* A new revision is a draft, or the first one of its profile.
LEMMA InsertingKeepsIInv ==
    ASSUME ProfilesIInv, NEW p \in Profiles, p = hand.profile, InsertRevision
    PROVE  ProfilesIInv'
<1> USE DEF ProfilesIInv
<1> DEFINE r == [number |-> Len(revisions[p]) + 1, status |-> hand.status]
<1>1. /\ hand.doing = "insert" /\ p \in profiles
      /\ Len(revisions[p]) < MaxRevisions
      /\ hand.status = "published" => revisions[p] = <<>>
      /\ hand.status \in Status
  BY DEF InsertRevision, HandIsInOrder, ProfilesTypeOK, Resting
<1>2. /\ revisions' = [revisions EXCEPT ![p] = Append(@, r)]
      /\ hand' = [hand EXCEPT !.doing = "point"]
      /\ UNCHANGED <<profiles, current, confirmations, cut>>
  BY <1>1, NextNumberIsNext DEF InsertRevision
<1>3. /\ revisions[p] \in Seq(Revision) /\ Len(revisions[p]) \in Nat
      /\ r \in Revision
  <2>1. revisions[p] \in BoundedSeq(Revision, MaxRevisions)
    BY <1>1 DEF ProfilesTypeOK, Revision
  <2>2. revisions[p] \in Seq(Revision) /\ Len(revisions[p]) \in Nat
    BY <2>1, BoundedIsSequence, ProfileParameters
  <2>3. Len(revisions[p]) + 1 \in 1..MaxRevisions
    BY <1>1, <2>2, ProfileParameters
  <2> QED BY <1>1, <2>2, <2>3 DEF Revision
<1>4. /\ revisions'[p] \in Seq(Revision)
      /\ Len(revisions'[p]) = Len(revisions[p]) + 1
      /\ \A i \in 1..Len(revisions[p]) : revisions'[p][i] = revisions[p][i]
      /\ revisions'[p][Len(revisions[p]) + 1] = r
  BY <1>1, <1>2, <1>3 DEF ProfilesTypeOK
<1>5. \A q \in Profiles \ {p} : revisions'[q] = revisions[q]
  BY <1>2 DEF ProfilesTypeOK
<1>6. /\ Place(p) = 1..Len(revisions[p])
      /\ Place(p)' = 1..(Len(revisions[p]) + 1)
      /\ \A q \in Profiles \ {p} : Place(q)' = Place(q)
  BY <1>3, <1>4, <1>5 DEF Place
<1>7. ProfilesTypeOK'
  <2>1. revisions'[p] \in BoundedSeq(Revision, MaxRevisions)
    BY <1>1, <1>3, <1>4, BoundedIsSequence, ProfileParameters
  <2>2. revisions' \in [Profiles -> BoundedSeq(Revision, MaxRevisions)]
    BY <1>2, <2>1 DEF ProfilesTypeOK, Revision
  <2>3. \A q \in Profiles : current'[q] \in 0..Len(revisions'[q])
    BY <1>2, <1>3, <1>4, <1>5 DEF ProfilesTypeOK
  <2>4. \A q \in Profiles : Place(q) \subseteq Place(q)'
    BY <1>3, <1>6
  <2>5. \A c \in confirmations : c.place \in Place(c.profile)'
    BY <2>4 DEF ProfilesTypeOK
  <2> QED BY <1>2, <2>2, <2>3, <2>5 DEF ProfilesTypeOK, Revision
<1>8. NumbersAreDense'
  <2>1. \A i \in Place(p)' : revisions'[p][i].number = i
    BY <1>1, <1>3, <1>4, <1>6 DEF NumbersAreDense
  <2> QED BY <1>1, <1>2, <1>5, <1>6, <2>1 DEF NumbersAreDense
<1>9. HandIsInOrder'
  BY <1>1, <1>2 DEF HandIsInOrder, Resting, ProfilesTypeOK
<1>10. OneIsPublished'
  <2>1. ASSUME NEW i \in PublishedOf(p)', NEW j \in PublishedOf(p)' PROVE i = j
    <3>1. i \in 1..(Len(revisions[p]) + 1) /\ j \in 1..(Len(revisions[p]) + 1)
      BY <1>6 DEF PublishedOf
    <3>2. CASE hand.status = "published"
      <4>1. Len(revisions[p]) = 0
        BY <1>1, <3>2
      <4> QED BY <3>1, <4>1
    <3>3. CASE hand.status # "published"
      <4>1. i # Len(revisions[p]) + 1 /\ j # Len(revisions[p]) + 1
        BY <1>4, <3>3 DEF PublishedOf
      <4>2. i \in 1..Len(revisions[p]) /\ j \in 1..Len(revisions[p])
        BY <1>3, <3>1, <4>1
      <4> QED BY <1>1, <1>4, <1>6, <4>2 DEF PublishedOf, OneIsPublished
    <3> QED BY <3>2, <3>3
  <2> QED BY <1>5, <1>6, <2>1 DEF OneIsPublished, PublishedOf
<1>11. LapsedIsKnown'
  <2>1. ASSUME NEW i \in Place(p)', revisions'[p][i].status = "superseded",
               p \notin cut
        PROVE  PublishedOf(p)' # {}
    <3>1. CASE i \in 1..Len(revisions[p])
      <4>1. PublishedOf(p) # {}
        BY <1>1, <1>4, <1>6, <2>1, <3>1 DEF LapsedIsKnown
      <4> QED BY <1>3, <1>4, <1>6, <4>1 DEF PublishedOf
    <3>2. CASE i = Len(revisions[p]) + 1
      BY <1>4, <2>1, <3>2 DEF HandIsInOrder
    <3> QED BY <1>3, <1>6, <3>1, <3>2
  <2>2. ASSUME NEW q \in Profiles \ {p}, q \notin cut,
               NEW i \in Place(q)', revisions'[q][i].status = "superseded"
        PROVE  PublishedOf(q)' # {}
    <3>1. PublishedOf(q) # {}
      BY <1>1, <1>5, <1>6, <2>2 DEF LapsedIsKnown
    <3> QED BY <1>5, <1>6, <3>1 DEF PublishedOf
  <2> QED BY <1>2, <2>1, <2>2 DEF LapsedIsKnown
<1> QED BY <1>7, <1>8, <1>9, <1>10, <1>11

\* The profile points to its newest revision.
LEMMA PointingKeepsIInv ==
    ASSUME ProfilesIInv, NEW p \in Profiles, p = hand.profile, PointToRevision
    PROVE  ProfilesIInv'
<1> USE DEF ProfilesIInv
<1>1. /\ hand' = Resting /\ UNCHANGED <<profiles, revisions, confirmations, cut>>
      /\ current' = [current EXCEPT ![p] = Len(revisions[p])]
      /\ hand.doing = "point"
  BY DEF PointToRevision
<1>2. \A q \in Profiles : Len(revisions[q]) \in Nat
  BY BoundedIsSequence, ProfileParameters DEF ProfilesTypeOK
<1>3. \A q \in Profiles : current'[q] \in 0..Len(revisions[q])
  BY <1>1, <1>2 DEF ProfilesTypeOK, NumbersAreDense
<1>4. ProfilesTypeOK'
  BY <1>1, <1>3 DEF ProfilesTypeOK, Place, Resting, Status
<1>5. NumbersAreDense' /\ HandIsInOrder'
  BY <1>1, <1>2 DEF NumbersAreDense, HandIsInOrder, Place, Resting
<1>6. OneIsPublished' /\ LapsedIsKnown'
  BY <1>1 DEF OneIsPublished, LapsedIsKnown, PublishedOf, Place, Resting
<1> QED BY <1>4, <1>5, <1>6

\* The revisions of a profile are a bounded sequence.
LEMMA RevisionsAreSequences ==
    ASSUME ProfilesIInv, NEW p \in Profiles
    PROVE  /\ revisions[p] \in [1..Len(revisions[p]) -> Revision]
           /\ Len(revisions[p]) \in 0..MaxRevisions
           /\ Place(p) = 1..Len(revisions[p])
<1>1. revisions[p] \in BoundedSeq(Revision, MaxRevisions)
  BY DEF ProfilesIInv, ProfilesTypeOK, Revision
<1>2. /\ revisions[p] \in [1..Len(revisions[p]) -> Revision]
      /\ Len(revisions[p]) \in 0..MaxRevisions
  BY <1>1, BoundedIsSequence, ProfileParameters
<1> QED BY <1>2 DEF Place

\* One revision gets another status.
GivesStatus(p, i, status) ==
    revisions' = [revisions EXCEPT ![p][i].status = status]

\* Giving a revision another status changes neither the others nor the numbers.
LEMMA StatusChange ==
    ASSUME ProfilesIInv, NEW p \in Profiles, NEW i \in Place(p),
           NEW status \in Status,
           GivesStatus(p, i, status)
    PROVE  /\ revisions' \in [Profiles -> BoundedSeq(Revision, MaxRevisions)]
           /\ \A q \in Profiles : /\ Place(q)' = Place(q)
                                  /\ Len(revisions'[q]) = Len(revisions[q])
           /\ \A q \in Profiles : \A j \in Place(q) :
                 /\ revisions'[q][j].number = revisions[q][j].number
                 /\ revisions'[q][j].status =
                       IF q = p /\ j = i THEN status ELSE revisions[q][j].status
<1> DEFINE m == Len(revisions[p])
<1>1. /\ revisions \in [Profiles -> BoundedSeq(Revision, MaxRevisions)]
      /\ m \in 0..MaxRevisions /\ revisions[p] \in [1..m -> Revision]
      /\ Place(p) = 1..m
  BY RevisionsAreSequences DEF ProfilesIInv, ProfilesTypeOK, Revision
<1>2. revisions'[p] = [revisions[p] EXCEPT ![i].status = status]
  BY <1>1 DEF GivesStatus
<1>3. \A q \in Profiles \ {p} : revisions'[q] = revisions[q]
  BY <1>1 DEF GivesStatus
<1>4. /\ revisions'[p] \in [1..m -> Revision]
      /\ \A j \in 1..m :
            /\ revisions'[p][j].number = revisions[p][j].number
            /\ revisions'[p][j].status =
                  IF j = i THEN status ELSE revisions[p][j].status
  BY <1>1, <1>2 DEF Revision
<1>5. Len(revisions'[p]) = m
  BY <1>1, <1>4
<1>6. revisions'[p] \in BoundedSeq(Revision, MaxRevisions)
  <2>1. \E k \in 0..MaxRevisions : revisions'[p] \in [1..k -> Revision]
    BY <1>1, <1>4
  <2> QED BY <2>1 DEF BoundedSeq, SeqOf
<1>7. revisions' \in [Profiles -> BoundedSeq(Revision, MaxRevisions)]
  BY <1>1, <1>6 DEF GivesStatus
<1>8. \A q \in Profiles : Place(q)' = Place(q)
  BY <1>1, <1>3, <1>4 DEF Place
<1> QED BY <1>1, <1>3, <1>4, <1>5, <1>7, <1>8

\* So it keeps the types and the numbers.
LEMMA StatusChangeKeepsTypes ==
    ASSUME ProfilesIInv, NEW p \in Profiles, NEW i \in Place(p),
           NEW status \in Status,
           GivesStatus(p, i, status),
           UNCHANGED <<profiles, current, confirmations>>,
           hand' \in {hand, Resting}, cut' \subseteq Profiles
    PROVE  ProfilesTypeOK' /\ NumbersAreDense'
<1>1. ProfilesTypeOK /\ NumbersAreDense
  BY DEF ProfilesIInv
<1>2. ProfilesTypeOK'
  <2>1. revisions' \in [Profiles -> BoundedSeq(Revision, MaxRevisions)]
    BY StatusChange
  <2>2. \A q \in Profiles : current'[q] \in 0..Len(revisions'[q])
    BY <1>1, StatusChange DEF ProfilesTypeOK
  <2>3. \A c \in confirmations : c.place \in Place(c.profile)'
    <3>1. \A q \in Profiles : Place(q)' = Place(q)
      BY StatusChange
    <3> QED BY <1>1, <3>1 DEF ProfilesTypeOK
  <2>4. hand' \in [doing : {"nothing", "insert", "point", "supersede"},
                   profile : Profiles \cup {NoProfile}, status : Status]
    BY <1>1 DEF ProfilesTypeOK, Resting, Status
  <2> QED BY <1>1, <2>1, <2>2, <2>3, <2>4 DEF ProfilesTypeOK, Revision
<1>3. NumbersAreDense'
  <2>1. \A q \in Profiles : \A j \in Place(q)' : revisions'[q][j].number = j
    <3>1. \A q \in Profiles : /\ Place(q)' = Place(q)
                              /\ \A j \in Place(q) : revisions'[q][j].number
                                                     = revisions[q][j].number
      BY StatusChange
    <3> QED BY <1>1, <3>1 DEF NumbersAreDense
  <2>2. \A q \in Profiles \ profiles : q # p
    BY <1>1 DEF NumbersAreDense, Place
  <2>3. \A q \in Profiles \ {p} : revisions'[q] = revisions[q]
    BY <1>1 DEF ProfilesTypeOK, GivesStatus
  <2> QED BY <1>1, <2>1, <2>2, <2>3 DEF NumbersAreDense
<1> QED BY <1>2, <1>3

\* Superseding leaves fewer published; the route goes on to publish.
LEMMA SupersedingKeepsIInv ==
    ASSUME ProfilesIInv, NEW p \in Profiles, p = hand.profile,
           NEW i, SupersedeOld(i)
    PROVE  ProfilesIInv'
<1>1. /\ hand.doing = "supersede" /\ i \in Place(p)
      /\ GivesStatus(p, i, "superseded")
      /\ UNCHANGED <<profiles, current, confirmations, hand, cut>>
      /\ "superseded" \in Status
  BY DEF SupersedeOld, Outdated, PublishedOf, Status, GivesStatus
<1>2. /\ \A q \in Profiles : Place(q)' = Place(q)
      /\ \A q \in Profiles : \A j \in Place(q) : revisions'[q][j].status =
            IF q = p /\ j = i THEN "superseded" ELSE revisions[q][j].status
  BY <1>1, StatusChange
<1>3. ProfilesTypeOK' /\ NumbersAreDense'
  BY <1>1, StatusChangeKeepsTypes DEF ProfilesIInv, ProfilesTypeOK
<1>4. HandIsInOrder'
  BY <1>1 DEF ProfilesIInv, HandIsInOrder
<1>5. OneIsPublished'
  BY <1>2 DEF ProfilesIInv, OneIsPublished, PublishedOf
<1>6. LapsedIsKnown'
  <2>1. ASSUME NEW q \in Profiles, q # p, q \notin cut,
               NEW j \in Place(q), revisions'[q][j].status = "superseded"
        PROVE  PublishedOf(q)' # {}
    <3>1. PublishedOf(q) # {}
      BY <1>1, <1>2, <2>1 DEF ProfilesIInv, LapsedIsKnown
    <3> QED BY <1>2, <2>1, <3>1 DEF PublishedOf
  <2> QED BY <1>1, <1>2, <2>1 DEF LapsedIsKnown
<1> QED BY <1>3, <1>4, <1>5, <1>6 DEF ProfilesIInv

\* The current revision is published when no other is.
LEMMA PublishingKeepsIInv ==
    ASSUME ProfilesIInv, NEW p \in Profiles, p = hand.profile, PublishCurrent
    PROVE  ProfilesIInv'
<1> DEFINE i == current[p]
<1>1. /\ hand.doing = "supersede" /\ PublishedOf(p) \subseteq {i}
      /\ GivesStatus(p, i, "published")
      /\ hand' = Resting /\ cut' = cut \ {p}
      /\ UNCHANGED <<profiles, current, confirmations>>
      /\ "published" \in Status
  BY DEF PublishCurrent, Outdated, Status, GivesStatus
<1>2. i \in Place(p)
  <2>1. i \in 0..Len(revisions[p]) /\ i # 0
    BY <1>1 DEF ProfilesIInv, ProfilesTypeOK, HandIsInOrder
  <2> QED BY <2>1, RevisionsAreSequences, ProfileParameters
<1> HIDE DEF i
<1>3. /\ \A q \in Profiles : Place(q)' = Place(q)
      /\ \A q \in Profiles : \A j \in Place(q) : revisions'[q][j].status =
            IF q = p /\ j = i THEN "published" ELSE revisions[q][j].status
  BY <1>1, <1>2, StatusChange
<1>4. ProfilesTypeOK' /\ NumbersAreDense'
  BY <1>1, <1>2, StatusChangeKeepsTypes DEF ProfilesIInv, ProfilesTypeOK
<1>5. HandIsInOrder'
  BY <1>1 DEF HandIsInOrder, Resting
<1>6. OneIsPublished'
  BY <1>1, <1>3 DEF ProfilesIInv, OneIsPublished, PublishedOf
<1>7. LapsedIsKnown'
  <2>1. ASSUME NEW q \in Profiles, q # p, q \notin cut,
               NEW j \in Place(q), revisions'[q][j].status = "superseded"
        PROVE  PublishedOf(q)' # {}
    <3>1. PublishedOf(q) # {}
      BY <1>1, <1>3, <2>1 DEF ProfilesIInv, LapsedIsKnown
    <3> QED BY <1>3, <2>1, <3>1 DEF PublishedOf
  <2>2. PublishedOf(p)' # {}
    BY <1>2, <1>3 DEF PublishedOf
  <2> QED BY <1>1, <1>3, <2>1, <2>2 DEF LapsedIsKnown
<1> QED BY <1>4, <1>5, <1>6, <1>7 DEF ProfilesIInv

\* A confirmation is of a revision that exists; a stop says what it cut.
LEMMA ConfirmingKeepsIInv ==
    ASSUME ProfilesIInv, NEW p \in Profiles, NEW u \in Confirmers,
           NEW i \in 1..MaxRevisions, ConfirmProfile(p, u, i)
    PROVE  ProfilesIInv'
<1>1. /\ confirmations' = confirmations \cup {[profile |-> p, place |-> i, user |-> u]}
      /\ i \in PublishedOf(p) \cup ({current[p]} \ {0}) /\ p \in profiles
      /\ UNCHANGED <<profiles, revisions, current, hand, cut>>
  BY DEF ConfirmProfile, ConfirmedPlaces
<1>2. i \in Place(p)
  <2>1. current[p] \in 0..Len(revisions[p])
    BY DEF ProfilesIInv, ProfilesTypeOK
  <2> QED BY <1>1, <2>1, RevisionsAreSequences, ProfileParameters DEF PublishedOf
<1>3. ProfilesTypeOK'
  <2>1. \A q \in Profiles : Place(q)' = Place(q)
    BY <1>1 DEF Place
  <2>2. \A c \in confirmations' : c.profile \in profiles' /\ c.place \in Place(c.profile)
                                  /\ c.user \in Confirmers
    BY <1>1, <1>2 DEF ProfilesIInv, ProfilesTypeOK
  <2> QED BY <1>1, <2>1, <2>2 DEF ProfilesIInv, ProfilesTypeOK
<1> QED BY <1>1, <1>3 DEF ProfilesIInv, NumbersAreDense, HandIsInOrder,
            OneIsPublished, LapsedIsKnown, PublishedOf, Place

\* A stop remembers the publication it cut short.
LEMMA StopKeepsIInv ==
    ASSUME ProfilesIInv, StopRoutes PROVE ProfilesIInv'
<1>1. ProfilesTypeOK'
  BY DEF StopRoutes, ProfilesIInv, ProfilesTypeOK, HandIsInOrder, AtRest,
         Resting, Status, Place
<1>2. LapsedIsKnown'
  BY DEF StopRoutes, ProfilesIInv, LapsedIsKnown, PublishedOf, Place
<1> QED BY <1>1, <1>2 DEF StopRoutes, ProfilesIInv, NumbersAreDense,
            HandIsInOrder, OneIsPublished, PublishedOf, Place, Resting

\* Every step keeps the invariant.
LEMMA NextProfilesIInv == ProfilesIInv /\ [ProfilesNext]_profileVars => ProfilesIInv'
<1> SUFFICES ASSUME ProfilesIInv, [ProfilesNext]_profileVars PROVE ProfilesIInv'
  OBVIOUS
<1>1. ASSUME hand # Resting PROVE hand.profile \in Profiles
  BY <1>1 DEF ProfilesIInv, ProfilesTypeOK, HandIsInOrder
<1>2. CASE InsertRevision \/ PointToRevision
  BY <1>1, <1>2, InsertingKeepsIInv, PointingKeepsIInv
     DEF InsertRevision, PointToRevision, Resting
<1>3. CASE PublishCurrent \/ \E i \in 1..MaxRevisions : SupersedeOld(i)
  <2>1. hand # Resting
    <3>1. hand.doing = "supersede"
      BY <1>3 DEF PublishCurrent, SupersedeOld
    <3> QED BY <3>1 DEF Resting
  <2> QED BY <1>1, <1>3, <2>1, SupersedingKeepsIInv, PublishingKeepsIInv
<1>4. CASE UNCHANGED profileVars
  <2>1. ProfilesTypeOK'
    BY <1>4 DEF profileVars, ProfilesIInv, ProfilesTypeOK, Place
  <2> QED BY <1>4, <2>1 DEF profileVars, ProfilesIInv, NumbersAreDense,
              HandIsInOrder, OneIsPublished, LapsedIsKnown, PublishedOf, Place
<1> QED BY <1>2, <1>3, <1>4, BeginningKeepsIInv, ConfirmingKeepsIInv,
           StopKeepsIInv DEF ProfilesNext

\* A profile never has two published revisions, in between the statements of
\* publishing and after any stop, and one that had one keeps one.
THEOREM PublishingIsAlwaysSound == ProfilesSpec => []PublishingIsSound
<1>1. ProfilesIInv => PublishingIsSound
  <2> SUFFICES ASSUME ProfilesIInv PROVE AtMostOnePublished /\ StaysPublished
    BY DEF PublishingIsSound
  <2>1. ASSUME NEW p \in Profiles PROVE Cardinality(PublishedOf(p)) <= 1
    <3>1. CASE PublishedOf(p) = {}
      BY <3>1, FS_EmptySet
    <3>2. ASSUME NEW i \in PublishedOf(p) PROVE PublishedOf(p) = {i}
      BY <3>2 DEF ProfilesIInv, OneIsPublished
    <3> QED BY <3>1, <3>2, FS_Singleton
  <2> QED BY <2>1 DEF ProfilesIInv, LapsedIsKnown, AtMostOnePublished, StaysPublished
<1> QED BY <1>1, InitProfilesIInv, NextProfilesIInv, PTL DEF ProfilesSpec

\* The tables of profiles and the route at work are well typed.
THEOREM ProfilesTypeCorrect == ProfilesSpec => []ProfilesTypeOK
<1>1. ProfilesIInv => ProfilesTypeOK
  BY DEF ProfilesIInv
<1> QED BY <1>1, InitProfilesIInv, NextProfilesIInv, PTL DEF ProfilesSpec
-----------------------------------------------------------------------------
(* Catalog.  Rows of brands are never used twice, so that whatever a job   *)
(* read of one stays true of it until the row is gone.                     *)

BrandIds == Brands \cup {NoBrand}
KeyNames == Keys \cup {NoKey}
BrandJobs == [kind : {"none", "import", "merge"},
              step : {"work", "move", "fill", "done", "failed"},
              known : [Keys -> BrandIds], todo : SUBSET (Keys \cup Brands),
              winner : [Brands -> BrandIds], loser : BrandIds,
              moving : SUBSET Filaments, alone : BOOLEAN]

LiveIsSpent == Live \subseteq spent

\* A product has a brand when it was given one.
GivenABrand == \A p \in Filaments : product[p] = NoBrand <=> given[p] = NoKey

\* The row is called k, or is gone.
CalledOrGone(b, k) == b \in spent /\ brand[b] \in {k, NoKey}

\* What a job has read: the name of a row in its map, the one name of a loser and
\* of its winner, the names under which the products it moves were given.
KnownIsCalled(a) ==
    a.kind = "import" => \A k \in Keys : a.known[k] # NoBrand => CalledOrGone(a.known[k], k)
LosersAreCalled(a) ==
    a.kind = "merge" => \A l \in a.todo :
        l \in Brands /\ a.winner[l] \in Brands
          /\ \E k \in Keys : CalledOrGone(l, k) /\ CalledOrGone(a.winner[l], k)
MovedAreCalled(a) ==
    a.kind = "merge" /\ a.step = "move" =>
        /\ a.loser \in Brands /\ a.winner[a.loser] \in Brands
        /\ \A p \in a.moving : given[p] # NoKey /\ CalledOrGone(a.winner[a.loser], given[p])
JobIsTrue(a) ==
    KnownIsCalled(a) /\ LosersAreCalled(a) /\ MovedAreCalled(a)

\* A merge that nobody disturbed: every row that is not its own winner is still to
\* go, and its winner stays.
MergeGoesOn(a) ==
    a.kind = "merge" /\ a.alone /\ a.step # "failed" =>
        /\ \A b \in Live :
              /\ a.winner[b] \in Live /\ brand[a.winner[b]] = brand[b]
              /\ a.winner[a.winner[b]] = a.winner[b]
              /\ a.winner[b] # b => b \in a.todo \/ (a.step = "move" /\ b = a.loser)
        /\ \A b, c \in Live : brand[b] = brand[c] => a.winner[b] = a.winner[c]
        /\ \A l \in a.todo : a.winner[l] # l
        /\ a.step = "move" => a.winner[a.loser] # a.loser
        /\ a.step \in {"fill", "done"} => a.todo = {}
        /\ a.step = "fill" => indexed = {}
        /\ a.step = "done" => indexed = Live

CatalogIInv ==
    /\ CatalogTypeOK /\ LiveIsSpent /\ GivenABrand /\ ContributionsAreKept
    /\ \A j \in Jobs : JobIsTrue(brandJob[j]) /\ MergeGoesOn(brandJob[j])

LEMMA CatalogInitIsSound == CatalogInit => CatalogIInv
  <1> SUFFICES ASSUME CatalogInit PROVE CatalogIInv
      OBVIOUS
  <1>1. CatalogTypeOK
    BY DEF CatalogInit, CatalogTypeOK, NoAsk, NoJob
  <1>2. LiveIsSpent /\ GivenABrand /\ ContributionsAreKept
    BY DEF CatalogInit, LiveIsSpent, GivenABrand, ContributionsAreKept, Live
  <1>3. \A j \in Jobs : JobIsTrue(brandJob[j]) /\ MergeGoesOn(brandJob[j])
    BY DEF CatalogInit, NoJob, JobIsTrue, KnownIsCalled, LosersAreCalled, MovedAreCalled,
           MergeGoesOn
  <1> QED
    BY <1>1, <1>2, <1>3 DEF CatalogIInv

LEMMA JobIsTyped ==
  ASSUME CatalogIInv, NEW j \in Jobs
  PROVE  /\ brandJob[j] \in BrandJobs /\ JobIsTrue(brandJob[j]) /\ MergeGoesOn(brandJob[j])
         /\ brandJob \in [Jobs -> BrandJobs]
  BY DEF CatalogIInv, CatalogTypeOK, BrandJobs, BrandIds

\* No row is taken twice: what was called a name is called so, or is gone.
NamesLast == spent \subseteq spent' /\ \A b \in spent : brand'[b] \in {brand[b], NoKey}
\* And no product is given another.
GivenLasts == \A p \in Filaments : given[p] # NoKey => given'[p] = given[p]

LEMMA TrueStaysTrue ==
  ASSUME NamesLast, GivenLasts, NEW a \in BrandJobs, JobIsTrue(a)
  PROVE  JobIsTrue(a)'
  <1>1. \A b, k : CalledOrGone(b, k) => CalledOrGone(b, k)'
    BY DEF CalledOrGone, NamesLast
  <1>2. KnownIsCalled(a)'
    BY <1>1 DEF JobIsTrue, KnownIsCalled
  <1>3. LosersAreCalled(a)'
    BY <1>1 DEF JobIsTrue, LosersAreCalled
  <1>4. MovedAreCalled(a)'
    <2>1. ASSUME a.kind = "merge", a.step = "move", NEW p \in a.moving
          PROVE  given'[p] # NoKey /\ CalledOrGone(a.winner[a.loser], given[p])'
      <3>1. given[p] # NoKey /\ CalledOrGone(a.winner[a.loser], given[p]) /\ p \in Filaments
        BY <2>1 DEF JobIsTrue, MovedAreCalled, BrandJobs
      <3> QED
        BY <3>1 DEF CalledOrGone, NamesLast, GivenLasts
    <2> QED
      BY <2>1 DEF JobIsTrue, MovedAreCalled
  <1> QED
    BY <1>2, <1>3, <1>4 DEF JobIsTrue

\* The tables change, and one job: the others are disturbed, unless brands and
\* index stay as they are.
LEMMA OneJobGoesOn ==
  ASSUME CatalogIInv, NamesLast, GivenLasts, NEW j \in Jobs, NEW a \in BrandJobs,
         \/ brandJob' = [brandJob EXCEPT ![j] = a] /\ brand' = brand /\ indexed' = indexed
         \/ brandJob' = Disturbed([brandJob EXCEPT ![j] = a], Jobs \ {j}),
         JobIsTrue(a)', MergeGoesOn(a)'
  PROVE  /\ brandJob' \in [Jobs -> BrandJobs]
         /\ \A i \in Jobs : JobIsTrue(brandJob[i])' /\ MergeGoesOn(brandJob[i])'
  <1>1. CASE brandJob' = [brandJob EXCEPT ![j] = a] /\ brand' = brand /\ indexed' = indexed
    <2>1. brandJob' \in [Jobs -> BrandJobs]
      BY <1>1, JobIsTyped
    <2>2. ASSUME NEW i \in Jobs PROVE JobIsTrue(brandJob[i])' /\ MergeGoesOn(brandJob[i])'
      <3>1. PICK c \in BrandJobs : c = brandJob'[i] /\ c \in {a, brandJob[i]}
        BY <1>1, JobIsTyped
      <3>2. JobIsTrue(c)' /\ MergeGoesOn(c)'
        <4>1. CASE c = a
          BY <4>1
        <4>2. CASE c = brandJob[i]
          <5>1. JobIsTrue(c) /\ MergeGoesOn(c)
            BY <4>2, JobIsTyped
          <5> QED
            BY <5>1, <1>1, TrueStaysTrue DEF MergeGoesOn, Live
        <4> QED
          BY <3>1, <4>1, <4>2
      <3> QED
        BY <3>1, <3>2 DEF JobIsTrue, KnownIsCalled, LosersAreCalled, MovedAreCalled, MergeGoesOn,
                          CalledOrGone, Live
    <2> QED
      BY <2>1, <2>2
  <1>2. CASE brandJob' = Disturbed([brandJob EXCEPT ![j] = a], Jobs \ {j})
    <2>1. ASSUME NEW i \in Jobs
          PROVE  \E c \in BrandJobs : c = brandJob'[i] /\ JobIsTrue(c)' /\ MergeGoesOn(c)'
      <3>1. CASE i = j
        <4>1. brandJob'[i] = a
          BY <1>2, <3>1, JobIsTyped DEF Disturbed
        <4> QED
          BY <4>1
      <3>2. CASE i # j
        <4>1. brandJob'[i] = [brandJob[i] EXCEPT !.alone = FALSE]
          BY <1>2, <3>2, JobIsTyped DEF Disturbed
        <4>2. PICK d \in BrandJobs : d = brandJob[i] /\ JobIsTrue(d)
          BY JobIsTyped
        <4>3. PICK c \in BrandJobs : c = [d EXCEPT !.alone = FALSE]
          BY DEF BrandJobs
        <4>4. /\ c.kind = d.kind /\ c.step = d.step /\ c.known = d.known /\ c.todo = d.todo
              /\ c.winner = d.winner /\ c.loser = d.loser /\ c.moving = d.moving /\ ~c.alone
          BY <4>3 DEF BrandJobs
        <4>5. JobIsTrue(d)'
          BY <4>2, TrueStaysTrue
        <4>6. JobIsTrue(c)' /\ MergeGoesOn(c)'
          BY <4>4, <4>5 DEF JobIsTrue, KnownIsCalled, LosersAreCalled, MovedAreCalled, MergeGoesOn
        <4> QED
          BY <4>1, <4>2, <4>3, <4>6
      <3> QED
        BY <3>1, <3>2
    <2>2. DOMAIN brandJob' = Jobs /\ brandJob' = [i \in Jobs |-> brandJob'[i]]
      BY <1>2 DEF Disturbed
    <2>3. brandJob' \in [Jobs -> BrandJobs]
      BY <2>1, <2>2
    <2>4. ASSUME NEW i \in Jobs PROVE JobIsTrue(brandJob[i])' /\ MergeGoesOn(brandJob[i])'
      <3>1. PICK c \in BrandJobs : c = brandJob'[i] /\ JobIsTrue(c)' /\ MergeGoesOn(c)'
        BY <2>1
      <3> QED
        BY <3>1 DEF JobIsTrue, KnownIsCalled, LosersAreCalled, MovedAreCalled, MergeGoesOn,
                    CalledOrGone, Live
    <2> QED
      BY <2>3, <2>4
  <1> QED
    BY <1>1, <1>2

\* No job does anything: nobody notices, or everybody is disturbed.
LEMMA JobsGoOn ==
  ASSUME CatalogIInv, NamesLast, GivenLasts,
         \/ brandJob' = brandJob /\ brand' = brand /\ indexed' = indexed
         \/ brandJob' = Disturbed(brandJob, Jobs)
  PROVE  /\ brandJob' \in [Jobs -> BrandJobs]
         /\ \A i \in Jobs : JobIsTrue(brandJob[i])' /\ MergeGoesOn(brandJob[i])'
  <1>1. ASSUME NEW i \in Jobs
        PROVE  \E c \in BrandJobs : c = brandJob'[i] /\ JobIsTrue(c)' /\ MergeGoesOn(c)'
    <2>1. PICK d \in BrandJobs : d = brandJob[i] /\ JobIsTrue(d) /\ MergeGoesOn(d)
      BY JobIsTyped
    <2>2. JobIsTrue(d)'
      BY <2>1, TrueStaysTrue
    <2>3. CASE brandJob' = brandJob /\ brand' = brand /\ indexed' = indexed
      <3>1. MergeGoesOn(d)'
        BY <2>1, <2>3 DEF MergeGoesOn, Live
      <3> QED
        BY <2>1, <2>2, <2>3, <3>1
    <2>4. CASE brandJob' = Disturbed(brandJob, Jobs)
      <3>1. brandJob'[i] = [d EXCEPT !.alone = FALSE]
        BY <2>1, <2>4 DEF Disturbed
      <3>2. PICK c \in BrandJobs : c = [d EXCEPT !.alone = FALSE]
        BY DEF BrandJobs
      <3>3. /\ c.kind = d.kind /\ c.step = d.step /\ c.known = d.known /\ c.todo = d.todo
            /\ c.winner = d.winner /\ c.loser = d.loser /\ c.moving = d.moving /\ ~c.alone
        BY <3>2 DEF BrandJobs
      <3>4. JobIsTrue(c)' /\ MergeGoesOn(c)'
        BY <2>2, <3>3 DEF JobIsTrue, KnownIsCalled, LosersAreCalled, MovedAreCalled, MergeGoesOn
      <3> QED
        BY <3>1, <3>2, <3>4
    <2> QED
      BY <2>3, <2>4
  <1>2. DOMAIN brandJob' = Jobs /\ brandJob' = [i \in Jobs |-> brandJob'[i]]
    BY JobIsTyped DEF Disturbed, CatalogIInv, CatalogTypeOK
  <1>3. brandJob' \in [Jobs -> BrandJobs]
    BY <1>1, <1>2
  <1>4. ASSUME NEW i \in Jobs PROVE JobIsTrue(brandJob[i])' /\ MergeGoesOn(brandJob[i])'
    <2>1. PICK c \in BrandJobs : c = brandJob'[i] /\ JobIsTrue(c)' /\ MergeGoesOn(c)'
      BY <1>1
    <2> QED
      BY <2>1 DEF JobIsTrue, KnownIsCalled, LosersAreCalled, MovedAreCalled, MergeGoesOn,
                  CalledOrGone, Live
  <1> QED
    BY <1>3, <1>4

LEMMA NamesStay == brand' = brand /\ spent' = spent => NamesLast
  BY DEF NamesLast

LEMMA GivenStays == given' = given => GivenLasts
  BY DEF GivenLasts

\* A row is inserted: products and aliases refer to what they referred to.
LEMMA InsertKeepsThings ==
  ASSUME CatalogIInv, NEW b \in Brands, NEW k \in Keys, Insert(b, k),
         UNCHANGED <<product, given, alias>>
  PROVE  /\ NamesLast /\ GivenLasts /\ LiveIsSpent' /\ GivenABrand' /\ ContributionsAreKept'
         /\ brand' \in [Brands -> KeyNames] /\ spent' \subseteq Brands
  <1>0. /\ brand \in [Brands -> KeyNames] /\ b \notin spent /\ spent \subseteq Brands
        /\ \A c \in Brands : brand'[c] = IF c = b THEN k ELSE brand[c]
        /\ brand' \in [Brands -> KeyNames] /\ spent' = spent \cup {b} /\ k # NoKey
    BY CatalogParameters DEF CatalogIInv, CatalogTypeOK, Insert, KeyNames
  <1>1. NamesLast /\ GivenLasts
    BY <1>0 DEF NamesLast, GivenLasts
  <1>2. Live \subseteq Live' /\ b \notin Live /\ Live \subseteq Brands
    BY <1>0 DEF CatalogIInv, LiveIsSpent, Live
  <1>3. LiveIsSpent' /\ GivenABrand'
    BY <1>0 DEF CatalogIInv, LiveIsSpent, Live, GivenABrand
  <1>4. ContributionsAreKept'
    BY <1>0, <1>2 DEF CatalogIInv, ContributionsAreKept
  <1> QED
    BY <1>0, <1>1, <1>3, <1>4

LEMMA VisitorsAreSound ==
  ASSUME CatalogIInv,
         \/ \E k \in Keys : AskForBrand(k)
         \/ \E b \in Brands : InsertBrand(b)
         \/ InsertAlias
         \/ \E p \in Filaments, b \in Brands : AddProduct(p, b)
         \/ StopAsking
  PROVE  CatalogIInv'
  <1>t. /\ brand \in [Brands -> KeyNames] /\ spent \subseteq Brands
        /\ product \in [Filaments -> BrandIds] /\ given \in [Filaments -> KeyNames]
        /\ alias \in [Keys -> BrandIds] /\ asking \in [key : KeyNames, row : BrandIds]
        /\ indexed \subseteq Brands /\ LiveIsSpent /\ GivenABrand /\ ContributionsAreKept
    BY DEF CatalogIInv, CatalogTypeOK, KeyNames, BrandIds
  <1>1. CASE \/ \E k \in Keys : AskForBrand(k)
             \/ StopAsking
    <2>1. /\ UNCHANGED <<brand, spent, product, given, alias, brandJob, indexed>>
          /\ asking' \in [key : KeyNames, row : BrandIds]
      BY <1>1 DEF AskForBrand, StopAsking, NoAsk, KeyNames, BrandIds
    <2>2. /\ brandJob' \in [Jobs -> BrandJobs]
          /\ \A i \in Jobs : JobIsTrue(brandJob[i])' /\ MergeGoesOn(brandJob[i])'
      BY <2>1, JobsGoOn, NamesStay, GivenStays
    <2>3. CatalogTypeOK'
      BY <1>t, <2>1, <2>2 DEF CatalogTypeOK, KeyNames, BrandIds, BrandJobs
    <2> QED
      BY <1>t, <2>1, <2>2, <2>3 DEF CatalogIInv, LiveIsSpent, GivenABrand, ContributionsAreKept, Live
  <1>2. ASSUME NEW b \in Brands, InsertBrand(b) PROVE CatalogIInv'
    <2>0. PICK k \in Keys : k = asking.key
      BY <1>2, <1>t DEF InsertBrand, KeyNames
    <2>1. /\ Insert(b, k) /\ UNCHANGED <<product, given, alias, indexed>>
          /\ brandJob' = Disturbed(brandJob, Jobs) /\ asking' \in [key : KeyNames, row : BrandIds]
      BY <1>2, <1>t, <2>0 DEF InsertBrand, BrandIds
    <2>2. /\ NamesLast /\ GivenLasts /\ LiveIsSpent' /\ GivenABrand' /\ ContributionsAreKept'
          /\ brand' \in [Brands -> KeyNames] /\ spent' \subseteq Brands
      BY <2>1, InsertKeepsThings
    <2>3. /\ brandJob' \in [Jobs -> BrandJobs]
          /\ \A i \in Jobs : JobIsTrue(brandJob[i])' /\ MergeGoesOn(brandJob[i])'
      BY <2>1, <2>2, JobsGoOn
    <2>4. CatalogTypeOK'
      BY <1>t, <2>1, <2>2, <2>3 DEF CatalogTypeOK, KeyNames, BrandIds, BrandJobs
    <2> QED
      BY <2>2, <2>3, <2>4 DEF CatalogIInv
  <1>3. CASE InsertAlias
    <2>1. UNCHANGED <<brand, spent, product, given, brandJob, indexed>> /\ asking' = NoAsk
      BY <1>3 DEF InsertAlias
    <2>2. /\ alias' \in [Keys -> BrandIds]
          /\ \A k \in Keys : alias'[k] \in {alias[k]} \cup Live
      BY <1>3, <1>t DEF InsertAlias, Live, BrandIds
    <2>3. /\ brandJob' \in [Jobs -> BrandJobs]
          /\ \A i \in Jobs : JobIsTrue(brandJob[i])' /\ MergeGoesOn(brandJob[i])'
      BY <2>1, JobsGoOn, NamesStay, GivenStays
    <2>4. CatalogTypeOK'
      BY <1>t, <2>1, <2>2, <2>3 DEF CatalogTypeOK, KeyNames, BrandIds, BrandJobs, NoAsk
    <2>5. ContributionsAreKept'
      BY <1>t, <2>1, <2>2 DEF ContributionsAreKept, Live
    <2> QED
      BY <1>t, <2>1, <2>3, <2>4, <2>5 DEF CatalogIInv, LiveIsSpent, GivenABrand, Live
  <1>4. ASSUME NEW p \in Filaments, NEW b \in Brands, AddProduct(p, b) PROVE CatalogIInv'
    <2>1. /\ UNCHANGED <<brand, spent, alias, asking, brandJob, indexed>>
          /\ product[p] = NoBrand /\ b \in Live /\ brand[b] \in Keys
          /\ product' = [product EXCEPT ![p] = b] /\ given' = [given EXCEPT ![p] = brand[b]]
      BY <1>4, <1>t DEF AddProduct, Live, KeyNames
    <2>2. GivenLasts /\ given[p] = NoKey
      BY <1>t, <2>1 DEF GivenLasts, GivenABrand
    <2>3. /\ brandJob' \in [Jobs -> BrandJobs]
          /\ \A i \in Jobs : JobIsTrue(brandJob[i])' /\ MergeGoesOn(brandJob[i])'
      BY <2>1, <2>2, JobsGoOn, NamesStay
    <2>4. CatalogTypeOK'
      BY <1>t, <2>1, <2>3 DEF CatalogTypeOK, KeyNames, BrandIds, BrandJobs
    <2>5. ContributionsAreKept' /\ GivenABrand'
      BY <1>t, <2>1, CatalogParameters DEF ContributionsAreKept, GivenABrand, Live
    <2> QED
      BY <1>t, <2>1, <2>3, <2>4, <2>5 DEF CatalogIInv, LiveIsSpent, Live
  <1> QED
    BY <1>1, <1>2, <1>3, <1>4

\* A step of a job, from the job it leaves and the tables.
LEMMA JobStepIsSound ==
  ASSUME CatalogIInv, NamesLast, GivenLasts, NEW j \in Jobs, NEW a \in BrandJobs,
         \/ brandJob' = [brandJob EXCEPT ![j] = a] /\ brand' = brand /\ indexed' = indexed
         \/ brandJob' = Disturbed([brandJob EXCEPT ![j] = a], Jobs \ {j}),
         JobIsTrue(a)', MergeGoesOn(a)',
         brand' \in [Brands -> KeyNames], spent' \subseteq Brands,
         product' \in [Filaments -> BrandIds], given' \in [Filaments -> KeyNames],
         UNCHANGED <<alias, asking>>, indexed' \subseteq Brands,
         LiveIsSpent', GivenABrand', ContributionsAreKept'
  PROVE  CatalogIInv'
  <1>1. /\ brandJob' \in [Jobs -> BrandJobs]
        /\ \A i \in Jobs : JobIsTrue(brandJob[i])' /\ MergeGoesOn(brandJob[i])'
    BY OneJobGoesOn
  <1>2. CatalogTypeOK'
    BY <1>1 DEF CatalogIInv, CatalogTypeOK, KeyNames, BrandIds, BrandJobs
  <1> QED
    BY <1>1, <1>2 DEF CatalogIInv

\* And of one that writes no table but perhaps the index.
LEMMA QuietStepIsSound ==
  ASSUME CatalogIInv, NEW j \in Jobs, NEW a \in BrandJobs,
         \/ brandJob' = [brandJob EXCEPT ![j] = a] /\ indexed' = indexed
         \/ brandJob' = Disturbed([brandJob EXCEPT ![j] = a], Jobs \ {j}),
         JobIsTrue(a), MergeGoesOn(a)', indexed' \subseteq Brands,
         UNCHANGED <<brand, spent, product, given, alias, asking>>
  PROVE  CatalogIInv'
  <1>1. NamesLast /\ GivenLasts
    BY NamesStay, GivenStays
  <1>2. /\ brand' \in [Brands -> KeyNames] /\ spent' \subseteq Brands
        /\ product' \in [Filaments -> BrandIds] /\ given' \in [Filaments -> KeyNames]
        /\ LiveIsSpent' /\ GivenABrand' /\ ContributionsAreKept'
    BY DEF CatalogIInv, CatalogTypeOK, KeyNames, BrandIds, LiveIsSpent, GivenABrand,
           ContributionsAreKept, Live
  <1>3. JobIsTrue(a)'
    BY <1>1, TrueStaysTrue
  <1> QED
    BY <1>1, <1>2, <1>3, JobStepIsSound

\* The maps of brands are read: every name in them is the name of its row.
LEMMA StartImportIsSound ==
  ASSUME CatalogIInv, NEW j \in Jobs, StartImport(j)
  PROVE  CatalogIInv'
  <1>1. PICK names \in [Keys -> BrandIds], todo \in SUBSET Keys :
          /\ \A k \in Keys : names[k] = NoBrand \/ (names[k] \in Live /\ brand[names[k]] = k)
          /\ brandJob' = [brandJob EXCEPT ![j] = [NoJob EXCEPT !.kind = "import",
                             !.step = "work", !.known = names, !.todo = todo]]
    BY DEF StartImport, BrandIds
  <1>2. PICK a \in BrandJobs : a = [NoJob EXCEPT !.kind = "import",
                             !.step = "work", !.known = names, !.todo = todo]
    BY DEF NoJob, BrandJobs, BrandIds
  <1>3. a.kind = "import" /\ a.known = names
    BY <1>2 DEF NoJob
  <1>4. JobIsTrue(a)
    BY <1>1, <1>3 DEF JobIsTrue, KnownIsCalled, LosersAreCalled, MovedAreCalled, CalledOrGone,
                      CatalogIInv, LiveIsSpent
  <1>5. MergeGoesOn(a)'
    BY <1>3 DEF MergeGoesOn
  <1>6. /\ UNCHANGED <<brand, spent, product, given, alias, asking, indexed>>
        /\ brandJob' = [brandJob EXCEPT ![j] = a] /\ indexed' \subseteq Brands
    BY <1>1, <1>2 DEF StartImport, CatalogIInv, CatalogTypeOK
  <1> QED
    BY <1>4, <1>5, <1>6, QuietStepIsSound

\* A brand the map does not know is inserted under its name, and known.
LEMMA ImportBrandIsSound ==
  ASSUME CatalogIInv, NEW j \in Jobs, NEW k \in Keys, NEW b \in Brands, ImportBrand(j, k, b)
  PROVE  CatalogIInv'
  <1>1. PICK d \in BrandJobs : d = brandJob[j] /\ JobIsTrue(d)
    BY JobIsTyped
  <1>2. PICK a \in BrandJobs : a = [d EXCEPT !.known[k] = b]
    BY DEF BrandJobs, BrandIds
  <1>3. /\ d.kind = "import" /\ Insert(b, k) /\ UNCHANGED <<product, given, alias, asking, indexed>>
        /\ brandJob' = Disturbed([brandJob EXCEPT ![j] = a], Jobs \ {j})
    BY <1>1, <1>2 DEF ImportBrand
  <1>4. /\ NamesLast /\ GivenLasts /\ LiveIsSpent' /\ GivenABrand' /\ ContributionsAreKept'
        /\ brand' \in [Brands -> KeyNames] /\ spent' \subseteq Brands
    BY <1>3, InsertKeepsThings
  <1>5. a.kind = "import" /\ \A n \in Keys : a.known[n] = IF n = k THEN b ELSE d.known[n]
    BY <1>2, <1>3 DEF BrandJobs, BrandIds
  <1>6. KnownIsCalled(d)'
    BY <1>1, <1>4, TrueStaysTrue DEF JobIsTrue
  <1>7. CalledOrGone(b, k)'
    BY <1>3 DEF Insert, CalledOrGone, CatalogIInv, CatalogTypeOK
  <1>8. JobIsTrue(a)' /\ MergeGoesOn(a)'
    BY <1>3, <1>5, <1>6, <1>7 DEF JobIsTrue, KnownIsCalled, LosersAreCalled, MovedAreCalled,
                                  MergeGoesOn
  <1>9. /\ product' \in [Filaments -> BrandIds] /\ given' \in [Filaments -> KeyNames]
        /\ indexed' \subseteq Brands
    BY <1>3 DEF CatalogIInv, CatalogTypeOK, KeyNames, BrandIds
  <1> QED
    BY <1>3, <1>4, <1>8, <1>9, JobStepIsSound

\* A product goes under the row of its name.
LEMMA ImportProductIsSound ==
  ASSUME CatalogIInv, NEW j \in Jobs, NEW k \in Keys, NEW p \in Filaments, ImportProduct(j, k, p)
  PROVE  CatalogIInv'
  <1>1. PICK d \in BrandJobs : d = brandJob[j] /\ JobIsTrue(d)
    BY JobIsTyped
  <1>2. PICK a \in BrandJobs : a = [d EXCEPT !.todo = @ \ {k}]
    BY DEF BrandJobs
  <1>3. PICK b \in BrandIds : b = d.known[k]
    BY DEF BrandJobs
  <1>4. /\ d.kind = "import" /\ given[p] \in {NoKey, k} /\ b \in Live
        /\ product' = [product EXCEPT ![p] = b] /\ given' = [given EXCEPT ![p] = k]
        /\ UNCHANGED <<brand, spent, alias, asking, indexed>>
        /\ brandJob' = [brandJob EXCEPT ![j] = a]
    BY <1>1, <1>2, <1>3 DEF ImportProduct
  <1>5. /\ brand \in [Brands -> KeyNames] /\ spent \subseteq Brands /\ indexed \subseteq Brands
        /\ product \in [Filaments -> BrandIds] /\ given \in [Filaments -> KeyNames]
        /\ LiveIsSpent /\ GivenABrand /\ ContributionsAreKept
    BY DEF CatalogIInv, CatalogTypeOK, KeyNames, BrandIds
  <1>6. b \in Brands /\ b # NoBrand /\ brand[b] = k /\ k # NoKey
    BY <1>1, <1>3, <1>4, CatalogParameters DEF JobIsTrue, KnownIsCalled, CalledOrGone, Live
  <1>7. NamesLast /\ GivenLasts
    BY <1>4, <1>5, NamesStay DEF GivenLasts
  <1>8. /\ LiveIsSpent' /\ GivenABrand' /\ ContributionsAreKept'
        /\ product' \in [Filaments -> BrandIds] /\ given' \in [Filaments -> KeyNames]
    BY <1>4, <1>5, <1>6 DEF LiveIsSpent, GivenABrand, ContributionsAreKept, Live, KeyNames
  <1>9. a.kind = "import" /\ a.known = d.known
    BY <1>2, <1>4 DEF BrandJobs
  <1>10. JobIsTrue(a)' /\ MergeGoesOn(a)'
    <2>1. JobIsTrue(d)'
      BY <1>1, <1>7, TrueStaysTrue
    <2> QED
      BY <2>1, <1>4, <1>9 DEF JobIsTrue, KnownIsCalled, LosersAreCalled, MovedAreCalled, MergeGoesOn
  <1> QED
    BY <1>4, <1>5, <1>7, <1>8, <1>10, JobStepIsSound

\* Every group has its winner, and whoever is not it is to go.
LEMMA StartMergeIsSound ==
  ASSUME CatalogIInv, NEW j \in Jobs, StartMerge(j)
  PROVE  CatalogIInv'
  <1>1. PICK winner \in [Brands -> BrandIds] :
          /\ \A b \in Live : /\ winner[b] \in Live /\ brand[winner[b]] = brand[b]
                             /\ \A c \in Live : brand[c] = brand[b] => winner[c] = winner[b]
          /\ brandJob' = [brandJob EXCEPT ![j] = [NoJob EXCEPT !.kind = "merge",
                             !.step = "work", !.winner = winner, !.todo = Losers(winner)]]
    <2>1. PICK winner \in [Brands -> Brands \cup {NoBrand}] :
          /\ \A b \in Brands :
                LET group == {c \in Live : brand[c] = brand[b]}
                IN IF b \notin Live THEN winner[b] = NoBrand
                   ELSE /\ winner[b] \in group
                        /\ \A c \in group :
                              /\ winner[c] = winner[b]
                              /\ Cardinality(ProductsOf(c))
                                   <= Cardinality(ProductsOf(winner[b]))
          /\ brandJob' = [brandJob EXCEPT ![j] = [NoJob EXCEPT !.kind = "merge",
                             !.step = "work", !.winner = winner, !.todo = Losers(winner)]]
      BY DEF StartMerge
    <2>2. ASSUME NEW b \in Live
          PROVE  /\ winner[b] \in Live /\ brand[winner[b]] = brand[b]
                 /\ \A c \in Live : brand[c] = brand[b] => winner[c] = winner[b]
      <3>1. b \in Brands
        BY DEF Live
      <3>2. /\ winner[b] \in {c \in Live : brand[c] = brand[b]}
            /\ \A c \in {d \in Live : brand[d] = brand[b]} : winner[c] = winner[b]
        BY <2>1, <3>1
      <3> QED
        BY <3>2
    <2> QED
      BY <2>1, <2>2 DEF BrandIds
  <1>2. Losers(winner) \subseteq Live /\ Live \subseteq Brands
    BY DEF Losers, Live
  <1>3. PICK a \in BrandJobs : a = [NoJob EXCEPT !.kind = "merge",
                             !.step = "work", !.winner = winner, !.todo = Losers(winner)]
    BY <1>2 DEF NoJob, BrandJobs, BrandIds
  <1>4. a.kind = "merge" /\ a.step = "work" /\ a.winner = winner /\ a.todo = Losers(winner)
    BY <1>3 DEF NoJob
  <1>5. \A b \in Live : b \in Brands /\ b \in spent /\ brand[b] \in Keys
    BY DEF CatalogIInv, CatalogTypeOK, LiveIsSpent, Live
  <1>6. JobIsTrue(a)
    <2>1. ASSUME NEW l \in a.todo
          PROVE  /\ l \in Brands /\ a.winner[l] \in Brands
                 /\ \E k \in Keys : CalledOrGone(l, k) /\ CalledOrGone(a.winner[l], k)
      <3>1. l \in Live /\ winner[l] \in Live /\ brand[winner[l]] = brand[l]
        BY <1>1, <1>2, <1>4
      <3>2. CalledOrGone(l, brand[l]) /\ CalledOrGone(winner[l], brand[l])
        BY <1>5, <3>1 DEF CalledOrGone
      <3> QED
        BY <1>4, <1>5, <3>1, <3>2
    <2> QED
      BY <1>4, <2>1 DEF JobIsTrue, KnownIsCalled, LosersAreCalled, MovedAreCalled
  <1>7. /\ UNCHANGED <<brand, spent, product, given, alias, asking, indexed>>
        /\ brandJob' = [brandJob EXCEPT ![j] = a] /\ indexed' \subseteq Brands
    BY <1>1, <1>3 DEF StartMerge, CatalogIInv, CatalogTypeOK
  <1>8. MergeGoesOn(a)
    <2>1. \A b \in Live : winner[b] # b => b \in Losers(winner)
      BY <1>1, <1>5, CatalogParameters DEF Losers
    <2>2. \A l \in Losers(winner) : winner[l] # l
      BY DEF Losers
    <2> QED
      BY <1>1, <1>4, <2>1, <2>2 DEF MergeGoesOn
  <1>9. MergeGoesOn(a)'
    BY <1>7, <1>8 DEF MergeGoesOn, Live
  <1> QED
    BY <1>6, <1>7, <1>9, QuietStepIsSound

\* The products of a loser were given its name, which is that of its winner.
LEMMA TakeLoserIsSound ==
  ASSUME CatalogIInv, NEW j \in Jobs, NEW l \in Brands, TakeLoser(j, l)
  PROVE  CatalogIInv'
  <1>1. PICK d \in BrandJobs : d = brandJob[j] /\ JobIsTrue(d) /\ MergeGoesOn(d)
    BY JobIsTyped
  <1>2. PICK a \in BrandJobs : a = [d EXCEPT !.step = "move", !.loser = l, !.todo = @ \ {l},
                                           !.moving = ProductsOf(l)]
    BY DEF BrandJobs, BrandIds, ProductsOf
  <1>3. /\ d.kind = "merge" /\ d.step = "work" /\ l \in d.todo
        /\ UNCHANGED <<brand, spent, product, given, alias, asking, indexed>>
        /\ brandJob' = [brandJob EXCEPT ![j] = a] /\ indexed' \subseteq Brands
    BY <1>1, <1>2 DEF TakeLoser, CatalogIInv, CatalogTypeOK
  <1>4. /\ a.kind = "merge" /\ a.step = "move" /\ a.loser = l /\ a.todo = d.todo \ {l}
        /\ a.moving = ProductsOf(l) /\ a.winner = d.winner /\ a.alone = d.alone
    BY <1>2, <1>3 DEF BrandJobs
  <1>5. /\ a.winner[l] \in Brands
        /\ \E k \in Keys : CalledOrGone(l, k) /\ CalledOrGone(a.winner[l], k)
    BY <1>1, <1>3, <1>4 DEF JobIsTrue, LosersAreCalled
  <1>6. ASSUME NEW p \in ProductsOf(l)
        PROVE  given[p] # NoKey /\ CalledOrGone(a.winner[l], given[p])
    <2>1. p \in Filaments /\ product[p] = l /\ product[p] # NoBrand
      BY CatalogParameters DEF ProductsOf
    <2>2. given[p] # NoKey /\ brand[l] = given[p]
      BY <2>1 DEF CatalogIInv, GivenABrand, ContributionsAreKept
    <2> QED
      BY <1>5, <2>2 DEF CalledOrGone
  <1>7. JobIsTrue(a)
    BY <1>1, <1>3, <1>4, <1>5, <1>6 DEF JobIsTrue, KnownIsCalled, LosersAreCalled, MovedAreCalled
  <1>8. MergeGoesOn(a)
    BY <1>1, <1>3, <1>4 DEF MergeGoesOn
  <1>9. MergeGoesOn(a)'
    BY <1>3, <1>8 DEF MergeGoesOn, Live
  <1> QED
    BY <1>3, <1>7, <1>9, QuietStepIsSound

\* A product moves to the winner, under the name it was given.
LEMMA MoveProductIsSound ==
  ASSUME CatalogIInv, NEW j \in Jobs, NEW p \in Filaments, MoveProduct(j, p)
  PROVE  CatalogIInv'
  <1>1. PICK d \in BrandJobs : d = brandJob[j] /\ JobIsTrue(d) /\ MergeGoesOn(d)
    BY JobIsTyped
  <1>2. PICK a \in BrandJobs : a = [d EXCEPT !.moving = @ \ {p}]
    BY DEF BrandJobs
  <1>3. PICK w \in BrandIds : w = d.winner[d.loser] /\ w \in Live
    BY <1>1 DEF MoveProduct, Live, BrandIds
  <1>4. /\ d.kind = "merge" /\ d.step = "move" /\ p \in d.moving
        /\ product' = [product EXCEPT ![p] = w]
        /\ UNCHANGED <<brand, spent, given, alias, asking, indexed>>
        /\ brandJob' = [brandJob EXCEPT ![j] = a]
    BY <1>1, <1>2, <1>3 DEF MoveProduct, Moving
  <1>5. /\ brand \in [Brands -> KeyNames] /\ spent \subseteq Brands /\ indexed \subseteq Brands
        /\ product \in [Filaments -> BrandIds] /\ given \in [Filaments -> KeyNames]
        /\ LiveIsSpent /\ GivenABrand /\ ContributionsAreKept
    BY DEF CatalogIInv, CatalogTypeOK, KeyNames, BrandIds
  <1>6. given[p] # NoKey /\ brand[w] = given[p] /\ w # NoBrand
    BY <1>1, <1>3, <1>4, CatalogParameters DEF JobIsTrue, MovedAreCalled, CalledOrGone, Live
  <1>7. NamesLast /\ GivenLasts
    BY <1>4, NamesStay, GivenStays
  <1>8. /\ LiveIsSpent' /\ GivenABrand' /\ ContributionsAreKept'
        /\ product' \in [Filaments -> BrandIds]
    BY <1>3, <1>4, <1>5, <1>6 DEF LiveIsSpent, GivenABrand, ContributionsAreKept, Live
  <1>9. /\ a.kind = "merge" /\ a.step = "move" /\ a.loser = d.loser /\ a.todo = d.todo
        /\ a.moving = d.moving \ {p} /\ a.winner = d.winner /\ a.alone = d.alone
    BY <1>2, <1>4 DEF BrandJobs
  <1>10. JobIsTrue(a)'
    <2>1. JobIsTrue(d)'
      BY <1>1, <1>7, TrueStaysTrue
    <2> QED
      BY <2>1, <1>4, <1>9 DEF JobIsTrue, KnownIsCalled, LosersAreCalled, MovedAreCalled
  <1>11. MergeGoesOn(a)'
    BY <1>1, <1>4, <1>9 DEF MergeGoesOn, Live
  <1> QED
    BY <1>4, <1>5, <1>7, <1>8, <1>10, <1>11, JobStepIsSound

\* An alias less: no job has read any.
LEMMA DropAliasIsSound ==
  ASSUME CatalogIInv, NEW j \in Jobs, NEW k \in Keys, DropAlias(j, k)
  PROVE  CatalogIInv'
  <1>1. /\ UNCHANGED <<brand, spent, product, given, asking, brandJob, indexed>>
        /\ alias' = [alias EXCEPT ![k] = NoBrand]
    BY DEF DropAlias
  <1>2. /\ brandJob' \in [Jobs -> BrandJobs]
        /\ \A i \in Jobs : JobIsTrue(brandJob[i])' /\ MergeGoesOn(brandJob[i])'
    BY <1>1, JobsGoOn, NamesStay, GivenStays
  <1>3. CatalogTypeOK'
    BY <1>1 DEF CatalogIInv, CatalogTypeOK
  <1>4. LiveIsSpent' /\ GivenABrand' /\ ContributionsAreKept'
    BY <1>1 DEF CatalogIInv, CatalogTypeOK, LiveIsSpent, GivenABrand, ContributionsAreKept, Live
  <1> QED
    BY <1>2, <1>3, <1>4 DEF CatalogIInv

\* A loser goes that nothing refers to; the winners stay.
LEMMA DeleteLoserIsSound ==
  ASSUME CatalogIInv, NEW j \in Jobs, DeleteLoser(j)
  PROVE  CatalogIInv'
  <1>1. PICK d \in BrandJobs : d = brandJob[j] /\ JobIsTrue(d) /\ MergeGoesOn(d)
    BY JobIsTyped
  <1>2. PICK a \in BrandJobs : a = [d EXCEPT !.step = "work", !.loser = NoBrand]
    BY DEF BrandJobs, BrandIds
  <1>3. PICK l \in Brands : l = d.loser
    BY <1>1 DEF DeleteLoser, Moving, JobIsTrue, MovedAreCalled
  <1>4. /\ d.kind = "merge" /\ d.step = "move" /\ MayGo(l)
        /\ brand' = [brand EXCEPT ![l] = NoKey]
        /\ UNCHANGED <<spent, product, given, alias, asking, indexed>>
        /\ brandJob' = Disturbed([brandJob EXCEPT ![j] = a], Jobs \ {j})
    BY <1>1, <1>2, <1>3 DEF DeleteLoser, Moving
  <1>5. /\ brand \in [Brands -> KeyNames] /\ spent \subseteq Brands /\ indexed \subseteq Brands
        /\ product \in [Filaments -> BrandIds] /\ given \in [Filaments -> KeyNames]
        /\ LiveIsSpent /\ GivenABrand /\ ContributionsAreKept
    BY DEF CatalogIInv, CatalogTypeOK, KeyNames, BrandIds
  <1>6. /\ \A b \in Brands : brand'[b] = IF b = l THEN NoKey ELSE brand[b]
        /\ Live' = Live \ {l} /\ brand' \in [Brands -> KeyNames]
    BY <1>4, <1>5 DEF Live, KeyNames
  <1>7. NamesLast /\ GivenLasts
    BY <1>4, <1>5, <1>6, GivenStays DEF NamesLast
  <1>8. LiveIsSpent' /\ GivenABrand'
    BY <1>4, <1>5, <1>6 DEF LiveIsSpent, GivenABrand
  <1>9. ContributionsAreKept'
    <2>1. (\A p \in Filaments : product[p] # l) /\ (\A k \in Keys : alias[k] # l)
      BY <1>4 DEF MayGo, ProductsOf, AliasesOf
    <2> QED
      BY <2>1, <1>4, <1>5, <1>6 DEF ContributionsAreKept, Live
  <1>10. /\ a.kind = "merge" /\ a.step = "work" /\ a.todo = d.todo
         /\ a.winner = d.winner /\ a.alone = d.alone
    BY <1>2, <1>4 DEF BrandJobs
  <1>11. JobIsTrue(a)'
    <2>1. JobIsTrue(d)'
      BY <1>1, <1>7, TrueStaysTrue
    <2> QED
      BY <2>1, <1>4, <1>10 DEF JobIsTrue, KnownIsCalled, LosersAreCalled, MovedAreCalled
  <1>12. ASSUME d.alone PROVE MergeGoesOn(a)'
    <2>1. /\ \A b \in Live :
              /\ d.winner[b] \in Live /\ brand[d.winner[b]] = brand[b]
              /\ d.winner[d.winner[b]] = d.winner[b]
              /\ d.winner[b] # b => b \in d.todo \/ b = l
          /\ \A b, c \in Live : brand[b] = brand[c] => d.winner[b] = d.winner[c]
          /\ \A n \in d.todo : d.winner[n] # n
          /\ d.winner[l] # l
      BY <1>1, <1>3, <1>4, <1>12 DEF MergeGoesOn
    <2>2. \A b \in Live' : b \in Live /\ b # l /\ d.winner[b] # l /\ b \in Brands
                             /\ d.winner[b] \in Live' /\ d.winner[b] \in Brands
      BY <1>6, <2>1 DEF Live
    <2>3. /\ \A b \in Live' :
              /\ d.winner[b] \in Live' /\ brand'[d.winner[b]] = brand'[b]
              /\ d.winner[d.winner[b]] = d.winner[b]
              /\ d.winner[b] # b => b \in d.todo
          /\ \A b, c \in Live' : brand'[b] = brand'[c] => d.winner[b] = d.winner[c]
      BY <1>6, <2>1, <2>2
    <2> QED
      BY <1>10, <2>1, <2>3 DEF MergeGoesOn
  <1>13. MergeGoesOn(a)'
    BY <1>10, <1>12 DEF MergeGoesOn
  <1> QED
    BY <1>4, <1>5, <1>6, <1>7, <1>8, <1>9, <1>11, <1>13, JobStepIsSound

\* The index is cleared and filled: the brands are then what it lists.
LEMMA IndexIsSound ==
  ASSUME CatalogIInv, NEW j \in Jobs, ClearIndex(j) \/ FillIndex(j)
  PROVE  CatalogIInv'
  <1>1. PICK d \in BrandJobs : d = brandJob[j] /\ JobIsTrue(d) /\ MergeGoesOn(d)
    BY JobIsTyped
  <1>2. indexed \subseteq Brands /\ Live \subseteq Brands
    BY DEF CatalogIInv, CatalogTypeOK, Live
  <1>3. CASE ClearIndex(j)
    <2>1. PICK a \in BrandJobs : a = [d EXCEPT !.step = "fill"]
      BY DEF BrandJobs
    <2>2. /\ d.step = "work" /\ d.todo = {} /\ indexed' = {}
          /\ UNCHANGED <<brand, spent, product, given, alias, asking>>
          /\ brandJob' = Disturbed([brandJob EXCEPT ![j] = a], Jobs \ {j})
      BY <1>1, <1>3, <2>1 DEF ClearIndex
    <2>3. /\ a.kind = d.kind /\ a.step = "fill" /\ a.todo = {} /\ a.known = d.known
          /\ a.winner = d.winner /\ a.alone = d.alone
      BY <2>1, <2>2 DEF BrandJobs
    <2>4. JobIsTrue(a)
      BY <1>1, <2>2, <2>3 DEF JobIsTrue, KnownIsCalled, LosersAreCalled, MovedAreCalled
    <2>5. MergeGoesOn(a)'
      BY <1>1, <2>2, <2>3 DEF MergeGoesOn, Live
    <2> QED
      BY <2>2, <2>4, <2>5, QuietStepIsSound
  <1>4. CASE FillIndex(j)
    <2>1. PICK a \in BrandJobs : a = [d EXCEPT !.step = "done"]
      BY DEF BrandJobs
    <2>2. /\ d.step = "fill" /\ indexed' = indexed \cup Live
          /\ UNCHANGED <<brand, spent, product, given, alias, asking>>
          /\ brandJob' = Disturbed([brandJob EXCEPT ![j] = a], Jobs \ {j})
      BY <1>1, <1>4, <2>1 DEF FillIndex
    <2>3. /\ a.kind = d.kind /\ a.step = "done" /\ a.todo = d.todo /\ a.known = d.known
          /\ a.winner = d.winner /\ a.alone = d.alone
      BY <2>1, <2>2 DEF BrandJobs
    <2>4. JobIsTrue(a)
      BY <1>1, <2>2, <2>3 DEF JobIsTrue, KnownIsCalled, LosersAreCalled, MovedAreCalled
    <2>5. Live' = Live
      BY <2>2 DEF Live
    <2>6. MergeGoesOn(a)'
      BY <1>1, <2>2, <2>3, <2>5 DEF MergeGoesOn
    <2>7. indexed' \subseteq Brands
      BY <1>2, <2>2
    <2> QED
      BY <2>2, <2>4, <2>6, <2>7, QuietStepIsSound
  <1> QED
    BY <1>3, <1>4

\* What is written is written, and the job forgets what it read.
LEMMA StopJobIsSound ==
  ASSUME CatalogIInv, NEW j \in Jobs, StopJob(j)
  PROVE  CatalogIInv'
  <1>1. PICK a \in BrandJobs : a = [NoJob EXCEPT !.step = "failed"]
    BY DEF NoJob, BrandJobs, BrandIds
  <1>2. /\ UNCHANGED <<brand, spent, product, given, alias, asking, indexed>>
        /\ brandJob' = [brandJob EXCEPT ![j] = a] /\ indexed' \subseteq Brands
    BY <1>1 DEF StopJob, CatalogIInv, CatalogTypeOK
  <1>3. a.kind = "none"
    BY <1>1 DEF NoJob
  <1>4. JobIsTrue(a) /\ MergeGoesOn(a)'
    BY <1>3 DEF JobIsTrue, KnownIsCalled, LosersAreCalled, MovedAreCalled, MergeGoesOn
  <1> QED
    BY <1>2, <1>4, QuietStepIsSound

LEMMA CatalogStepIsSound == CatalogIInv /\ [CatalogNext]_catalogVars => CatalogIInv'
  <1> SUFFICES ASSUME CatalogIInv, [CatalogNext]_catalogVars PROVE CatalogIInv'
      OBVIOUS
  <1>1. CASE \/ \E k \in Keys : AskForBrand(k)
             \/ \E b \in Brands : InsertBrand(b)
             \/ InsertAlias
             \/ \E p \in Filaments, b \in Brands : AddProduct(p, b)
             \/ StopAsking
    BY <1>1, VisitorsAreSound
  <1>2. ASSUME NEW j \in Jobs,
               \/ StartImport(j)
               \/ \E k \in Keys, b \in Brands : ImportBrand(j, k, b)
               \/ \E k \in Keys, p \in Filaments : ImportProduct(j, k, p)
        PROVE  CatalogIInv'
    BY <1>2, StartImportIsSound, ImportBrandIsSound, ImportProductIsSound
  <1>3. ASSUME NEW j \in Jobs,
               \/ StartMerge(j)
               \/ \E l \in Brands : TakeLoser(j, l)
               \/ \E p \in Filaments : MoveProduct(j, p)
               \/ \E k \in Keys : DropAlias(j, k)
               \/ DeleteLoser(j)
        PROVE  CatalogIInv'
    BY <1>3, StartMergeIsSound, TakeLoserIsSound, MoveProductIsSound, DropAliasIsSound,
       DeleteLoserIsSound
  <1>4. ASSUME NEW j \in Jobs, ClearIndex(j) \/ FillIndex(j) \/ StopJob(j)
        PROVE  CatalogIInv'
    BY <1>4, IndexIsSound, StopJobIsSound
  <1>5. CASE UNCHANGED catalogVars
    <2>1. UNCHANGED <<brand, spent, product, given, alias, asking, brandJob, indexed>>
      BY <1>5 DEF catalogVars
    <2>2. \A i \in Jobs : JobIsTrue(brandJob[i])' /\ MergeGoesOn(brandJob[i])'
      BY <2>1, JobsGoOn, NamesStay, GivenStays
    <2> QED
      BY <2>1, <2>2 DEF CatalogIInv, CatalogTypeOK, LiveIsSpent, GivenABrand,
                        ContributionsAreKept, Live
  <1> QED
    BY <1>1, <1>2, <1>3, <1>4, <1>5 DEF CatalogNext

\* For any number of brands, products and jobs, whatever runs side by side and
\* wherever it stops: a contributed product stays under a brand of its name, an
\* alias names a brand that is there, and a merge that nobody disturbed has left
\* one brand of each name, and just those in the index.
THEOREM MergingAlwaysIsSound == CatalogSpec => []MergingIsSound
  <1>1. CatalogIInv => MergingIsSound
    <2> SUFFICES ASSUME CatalogIInv PROVE MergedIsMerged
      BY DEF CatalogIInv, MergingIsSound
    <2>1. ASSUME NEW j \in Jobs, brandJob[j].kind = "merge", brandJob[j].step = "done",
                 brandJob[j].alone
          PROVE  (\A b, c \in Live : brand[b] = brand[c] => b = c) /\ indexed = Live
      <3>1. PICK d \in BrandJobs : d = brandJob[j] /\ MergeGoesOn(d)
        BY JobIsTyped
      <3>2. /\ \A b \in Live : d.winner[b] = b
            /\ \A b, c \in Live : brand[b] = brand[c] => d.winner[b] = d.winner[c]
            /\ indexed = Live
        BY <2>1, <3>1 DEF MergeGoesOn
      <3> QED
        BY <3>2
    <2> QED
      BY <2>1 DEF MergedIsMerged
  <1> QED
    BY <1>1, CatalogInitIsSound, CatalogStepIsSound, PTL DEF CatalogSpec
-----------------------------------------------------------------------------
(* The presets of a slicer (SlicerBridge), file by file: a copy stays      *)
(* unless it is crossed, and a request alone at its preset has its copy.   *)

Requests == [doing : {"nothing", "install", "remove", "rollback"},
             at : {"backup", "backup_info", "json", "info", "end"},
             preset : Presets \cup {NoPreset}, second : 0..MaxSecond, version : Versions]

\* Installs and removes are at work on a preset; nothing else takes a copy first.
Sensible(r) ==
    IF r.doing \in {"install", "remove"} THEN r.preset \in Presets
    ELSE r.preset = NoPreset /\ r.at \in {"json", "end"}

Files == [Presets -> [Kinds -> Written]]

FilesAreTyped ==
    /\ second \in 0..MaxSecond /\ begun \in Versions
    /\ file \in Files /\ backup \in [0..MaxSecond -> Files]
    /\ request \in [Handlers -> Requests]
    /\ \A h \in Handlers : Sensible(request[h])
    /\ overwritten \subseteq Presets \X Versions /\ crossed \subseteq Presets

\* Of a preset that is not crossed there is one request at most.
AloneAtWork ==
    \A h, g \in Handlers :
        h # g /\ request[h].preset = request[g].preset /\ request[h].preset \in Presets
            => request[h].preset \in crossed

Copied(p, c) == \E s \in 0..MaxSecond : backup[s][p].json = c

\* In the next state.
CopiedAfter(p, c) == \E s \in 0..MaxSecond : backup'[s][p].json = c

\* What was replaced is in a backup, and so is what a request is about to replace.
ReplacedAreCopied ==
    /\ \A w \in overwritten : w[1] \in crossed \/ Copied(w[1], w[2])
    /\ \A h \in Handlers :
          LET p == request[h].preset IN
          p \in Presets \ crossed /\ request[h].at \in {"backup_info", "json"}
          /\ file[p].json \in Versions => Copied(p, file[p].json)

FilesIInv == FilesAreTyped /\ AloneAtWork /\ ReplacedAreCopied

LEMMA PresetsInitIsSound == PresetsInit => FilesIInv
  <1> SUFFICES ASSUME PresetsInit PROVE FilesIInv
      OBVIOUS
  <1>1. Pair \in [Kinds -> Written] /\ [json |-> 0, info |-> 0] \in [Kinds -> Written]
    BY PresetParameters DEF Pair, Kinds, Written, Versions
  <1>2. \A p \in Presets : file[p] \in [Kinds -> Written]
    BY <1>1 DEF PresetsInit
  <1>3. NoRequest \in Requests /\ Sensible(NoRequest)
    BY PresetParameters DEF Requests, NoRequest, Versions, Sensible
  <1>4. FilesAreTyped
    BY <1>1, <1>2, <1>3, PresetParameters
    DEF PresetsInit, FilesAreTyped, Files, AllIdle, Versions
  <1>5. AloneAtWork /\ ReplacedAreCopied
    BY PresetParameters DEF PresetsInit, AloneAtWork, ReplacedAreCopied, AllIdle, NoRequest
  <1> QED
    BY <1>4, <1>5 DEF FilesIInv

\* What a step of one request must see to: that the copies of a preset that is not
\* crossed stay, that what it replaced is one of them, and that what it puts in place
\* of another's preset is one too.
LEMMA HandlerStepIsSound ==
  ASSUME FilesIInv, NEW h \in Handlers, NEW r \in Requests, Sensible(r),
         request' = [request EXCEPT ![h] = r],
         second' = second, begun' \in Versions,
         file' \in Files, backup' \in [0..MaxSecond -> Files],
         overwritten' \subseteq Presets \X Versions,
         crossed' \subseteq Presets, crossed \subseteq crossed',
         \A w \in overwritten' : w[1] \in crossed' \/ CopiedAfter(w[1], w[2]),
         \A g \in Handlers \ {h} :
             r.preset \in Presets /\ request[g].preset = r.preset => r.preset \in crossed',
         \A q \in Presets \ crossed', c \in Versions : Copied(q, c) => CopiedAfter(q, c),
         \A q \in Presets \ crossed' :
             \/ q = request[h].preset \/ file'[q].json = file[q].json
             \/ CopiedAfter(q, file'[q].json),
         r.at \in {"backup_info", "json"} /\ r.preset \in Presets \ crossed'
             /\ file'[r.preset].json \in Versions
             => CopiedAfter(r.preset, file'[r.preset].json)
  PROVE  FilesIInv'
  <1> USE DEF FilesIInv
  <1>1. /\ request' \in [Handlers -> Requests] /\ request'[h] = r
        /\ \A g \in Handlers \ {h} : request'[g] = request[g]
    BY DEF FilesAreTyped
  <1>2. FilesAreTyped'
    BY <1>1 DEF FilesAreTyped
  <1>3. AloneAtWork'
    BY <1>1 DEF AloneAtWork
  <1>4. ASSUME NEW g \in Handlers, request'[g].preset \in Presets \ crossed',
               request'[g].at \in {"backup_info", "json"},
               file'[request'[g].preset].json \in Versions
        PROVE  CopiedAfter(request'[g].preset, file'[request'[g].preset].json)
    <2>1. CASE g = h
      BY <1>1, <1>4, <2>1
    <2>2. CASE g # h
      <3>1. PICK q \in Presets \ crossed' : q = request'[g].preset
        BY <1>4
      <3>2. q = request[g].preset /\ q # request[h].preset /\ request[g].at = request'[g].at
        BY <1>1, <2>2, <3>1 DEF AloneAtWork
      <3>3. file[q].json \in Versions => Copied(q, file[q].json)
        BY <1>4, <3>1, <3>2 DEF ReplacedAreCopied
      <3>4. CASE file'[q].json = file[q].json
        BY <1>4, <3>1, <3>3, <3>4
      <3>5. CASE CopiedAfter(q, file'[q].json)
        BY <3>1, <3>5
      <3> QED
        BY <3>2, <3>4, <3>5
    <2> QED
      BY <2>1, <2>2
  <1>5. ReplacedAreCopied'
    BY <1>4 DEF ReplacedAreCopied, Copied, CopiedAfter
  <1> QED
    BY <1>2, <1>3, <1>5

\* A request goes on or ends, and leaves what is in place and the backups.
LEMMA NothingTouched ==
  ASSUME FilesIInv, NEW h \in Handlers, NEW r \in Requests, Sensible(r),
         request' = [request EXCEPT ![h] = r],
         UNCHANGED <<second, backup, overwritten, crossed>>, begun' \in Versions,
         file' \in Files, \A q \in Presets : file'[q].json = file[q].json,
         r.preset # NoPreset => /\ r.preset = request[h].preset
                                /\ r.at = "info" \/ r.at = request[h].at
  PROVE  FilesIInv'
  <1> USE DEF FilesIInv
  <1>1. /\ \A w \in overwritten' : w[1] \in crossed' \/ CopiedAfter(w[1], w[2])
        /\ \A q \in Presets \ crossed', c \in Versions : Copied(q, c) => CopiedAfter(q, c)
    BY DEF ReplacedAreCopied, Copied, CopiedAfter
  <1>2. r.preset \in Presets => r.preset = request[h].preset
    BY PresetParameters
  <1>3. \A g \in Handlers \ {h} :
            r.preset \in Presets /\ request[g].preset = r.preset => r.preset \in crossed'
    BY <1>2 DEF AloneAtWork
  <1>4. r.at \in {"backup_info", "json"} /\ r.preset \in Presets \ crossed'
        /\ file'[r.preset].json \in Versions => CopiedAfter(r.preset, file'[r.preset].json)
    BY <1>2, PresetParameters DEF ReplacedAreCopied, Copied, CopiedAfter
  <1> QED
    BY <1>1, <1>3, <1>4, HandlerStepIsSound DEF FilesAreTyped

LEMMA AnswersAreSound ==
  ASSUME FilesIInv, NEW h \in Handlers, Answer(h),
         UNCHANGED <<second, begun, backup, overwritten, crossed>>,
         file' \in Files, \A q \in Presets : file'[q].json = file[q].json
  PROVE  FilesIInv'
  <1>1. NoRequest \in Requests /\ Sensible(NoRequest) /\ NoRequest.preset = NoPreset
    BY PresetParameters DEF Requests, NoRequest, Versions, Sensible
  <1> QED
    BY <1>1, NothingTouched DEF Answer, FilesIInv, FilesAreTyped

LEMMA FailuresAreSound ==
  ASSUME FilesIInv, NEW h \in Handlers, Fail(h), UNCHANGED <<second, begun, crossed>>
  PROVE  FilesIInv'
  BY AnswersAreSound DEF Fail, FilesIInv, FilesAreTyped

\* One file is put in place.
LEMMA FilePut ==
  ASSUME file \in Files, NEW p \in Presets, NEW k \in Kinds, NEW c \in Written,
         file' = [file EXCEPT ![p][k] = c]
  PROVE  /\ file' \in Files /\ file'[p][k] = c
         /\ \A q \in Presets : q # p => file'[q] = file[q]
         /\ \A l \in Kinds : l # k => file'[p][l] = file[p][l]
  <1>1. PICK row : row = [file[p] EXCEPT ![k] = c]
    OBVIOUS
  <1>2. file' = [file EXCEPT ![p] = row]
    BY <1>1
  <1>3. row \in [Kinds -> Written]
    BY <1>1 DEF Files
  <1> QED
    BY <1>1, <1>2, <1>3 DEF Files

LEMMA BeginsAreSound ==
  ASSUME FilesIInv, NEW h \in Handlers, NEW p \in Presets, BeginInstall(h, p) \/ BeginRemove(h, p)
  PROVE  FilesIInv'
  <1> USE PresetParameters DEF FilesIInv
  <1>1. PICK r \in Requests :
           /\ request' = [request EXCEPT ![h] = r] /\ request[h] = NoRequest
           /\ r.doing \in {"install", "remove"} /\ r.preset = p
           /\ r.at = "backup" \/ (r.at = "json" /\ file[p].json = Absent)
           /\ begun' = begun + 1 /\ begun' \in Versions /\ Cross(p)
           /\ UNCHANGED <<second, file, backup, overwritten>>
    <2>1. begun < MaxRequests /\ begun' = begun + 1 /\ begun' \in Versions /\ 0 \in Versions
      BY DEF BeginInstall, BeginRemove, Begin, FilesAreTyped, Versions
    <2>2. CASE BeginInstall(h, p)
      <3> DEFINE r == [doing |-> "install", preset |-> p, second |-> second,
                       version |-> begun + 1,
                       at |-> IF file[p].json = Absent THEN "json" ELSE "backup"]
      <3>1. r \in Requests
        BY <2>1 DEF Requests, FilesAreTyped
      <3> QED
        BY <2>1, <2>2, <3>1 DEF BeginInstall, Begin
    <2>3. CASE BeginRemove(h, p)
      <3> DEFINE r == [doing |-> "remove", preset |-> p, second |-> second, version |-> 0,
                       at |-> "backup"]
      <3>1. r \in Requests
        BY <2>1 DEF Requests, FilesAreTyped
      <3> QED
        BY <2>1, <2>3, <3>1 DEF BeginRemove, Begin
    <2> QED
      BY <2>2, <2>3
  <1>2. crossed \subseteq crossed' /\ crossed' \subseteq Presets
    BY <1>1 DEF Cross, FilesAreTyped
  <1>3. Absent \notin Versions
    BY DEF Versions
  <1>4. \A g \in Handlers \ {h} : request[g].preset = r.preset => r.preset \in crossed'
    BY <1>1 DEF Cross
  <1>5. /\ \A w \in overwritten' : w[1] \in crossed' \/ CopiedAfter(w[1], w[2])
        /\ \A q \in Presets \ crossed', c \in Versions : Copied(q, c) => CopiedAfter(q, c)
    BY <1>1, <1>2 DEF ReplacedAreCopied, Copied, CopiedAfter
  <1>6. Sensible(r)
    BY <1>1 DEF Sensible
  <1> QED
    <2>1. \A q \in Presets \ crossed' : file'[q].json = file[q].json
      BY <1>1
    <2>2. /\ r.at \in {"backup_info", "json"} => file'[r.preset].json \notin Versions
          /\ file' \in Files /\ backup' \in [0..MaxSecond -> Files] /\ second' = second
          /\ overwritten' \subseteq Presets \X Versions
      BY <1>1, <1>3 DEF FilesAreTyped
    <2>3. begun' \in Versions /\ request' = [request EXCEPT ![h] = r]
      BY <1>1
    <2> QED
      BY <1>2, <1>4, <1>5, <1>6, <2>1, <2>2, <2>3, HandlerStepIsSound

\* A copy over another of the same second crosses the preset.
LEMMA BackupJsonIsSound ==
  ASSUME FilesIInv, NEW h \in Handlers, BackupJson(h)
  PROVE  FilesIInv'
  <1> USE DEF FilesIInv
  <1>1. CASE Fail(h) /\ UNCHANGED <<second, begun, crossed>>
    BY <1>1, FailuresAreSound
  <1>2. CASE ~(Fail(h) /\ UNCHANGED <<second, begun, crossed>>)
    <2>1. /\ request[h] \in Requests /\ Sensible(request[h]) /\ request[h].at = "backup"
      BY DEF BackupJson, FilesAreTyped
    <2>2. PICK p \in Presets, s \in 0..MaxSecond :
             p = request[h].preset /\ s = request[h].second
      BY <2>1 DEF Sensible, Requests
    <2>3. /\ backup' = [backup EXCEPT ![s][p]["json"] = file[p].json]
          /\ crossed' = IF backup[s][p].json = Absent THEN crossed ELSE crossed \cup {p}
          /\ Goto(h, "backup_info") /\ UNCHANGED <<file, overwritten, second, begun>>
      BY <1>2, <2>2 DEF BackupJson
    <2>4. PICK r \in Requests : /\ r.at = "backup_info" /\ r.preset = p /\ Sensible(r)
                                /\ request' = [request EXCEPT ![h] = r]
      <3> DEFINE r == [request[h] EXCEPT !.at = "backup_info"]
      <3>1. r \in Requests /\ r.preset = p /\ r.at = "backup_info" /\ Sensible(r)
        BY <2>1, <2>2, PresetParameters DEF Requests, Sensible
      <3>2. request' = [request EXCEPT ![h] = r]
        BY <2>3 DEF Goto
      <3> QED
        BY <3>1, <3>2
    <2>5. file[p].json \in Written /\ "json" \in Kinds
      BY DEF FilesAreTyped, Files, Kinds
    <2>6. /\ backup' \in [0..MaxSecond -> Files] /\ backup'[s][p].json = file[p].json
          /\ \A t \in 0..MaxSecond, q \in Presets :
                t # s \/ q # p => backup'[t][q].json = backup[t][q].json
      <3>1. PICK c \in Written, k \in Kinds : c = file[p].json /\ k = "json"
        BY <2>5
      <3>2. backup' = [backup EXCEPT ![s][p][k] = c] /\ backup \in [0..MaxSecond -> Files]
        BY <2>3, <3>1 DEF FilesAreTyped
      <3>r. PICK row : row = [backup[s][p] EXCEPT ![k] = c]
        OBVIOUS
      <3>a. PICK all : all = [backup[s] EXCEPT ![p] = row]
        OBVIOUS
      <3>b. backup' = [backup EXCEPT ![s] = all]
        BY <3>2, <3>r, <3>a
      <3>c. /\ row \in [Kinds -> Written] /\ row[k] = c
           /\ \A l \in Kinds : l # k => row[l] = backup[s][p][l]
        BY <3>2, <3>r DEF Files
      <3>d. /\ all \in Files /\ all[p] = row
           /\ \A q \in Presets : q # p => all[q] = backup[s][q]
        BY <3>2, <3>a, <3>c DEF Files
      <3>3. /\ backup' \in [0..MaxSecond -> Files] /\ backup'[s][p][k] = c
            /\ \A t \in 0..MaxSecond, q \in Presets : t # s \/ q # p => backup'[t][q] = backup[t][q]
        BY <3>2, <3>b, <3>c, <3>d DEF Files
      <3> QED
        BY <3>1, <3>3
    <2>7. crossed \subseteq crossed' /\ crossed' \subseteq Presets
      BY <2>3 DEF FilesAreTyped
    <2>8. ASSUME NEW q \in Presets \ crossed', NEW c \in Versions, Copied(q, c)
          PROVE  CopiedAfter(q, c)
      <3>1. PICK t \in 0..MaxSecond : backup[t][q].json = c
        BY <2>8 DEF Copied, CopiedAfter
      <3>2. t # s \/ q # p
        BY <2>3, <3>1, PresetParameters DEF Versions
      <3> QED
        BY <2>6, <3>1, <3>2 DEF Copied, CopiedAfter
    <2>9. CopiedAfter(p, file[p].json)
      BY <2>3, <2>6 DEF Copied, CopiedAfter
    <2>10. \A w \in overwritten' : w[1] \in crossed' \/ CopiedAfter(w[1], w[2])
      BY <2>3, <2>7, <2>8 DEF ReplacedAreCopied, FilesAreTyped
    <2>11. \A g \in Handlers \ {h} : request[g].preset = p => p \in crossed'
      BY <2>2, <2>7 DEF AloneAtWork
    <2> QED
      <3>1. /\ second' = second /\ begun' \in Versions /\ file' \in Files
            /\ overwritten' \subseteq Presets \X Versions
            /\ \A q \in Presets : file'[q].json = file[q].json
        BY <2>3 DEF FilesAreTyped
      <3>2. \A g \in Handlers \ {h} : request[g].preset = r.preset => r.preset \in crossed'
        BY <2>4, <2>11
      <3>3. CopiedAfter(r.preset, file'[r.preset].json)
        BY <2>3, <2>4, <2>9
      <3> QED
        BY <2>4, <2>6, <2>7, <2>8, <2>10, <3>1, <3>2, <3>3, HandlerStepIsSound
  <1> QED
    BY <1>1, <1>2

LEMMA BackupInfoIsSound ==
  ASSUME FilesIInv, NEW h \in Handlers, BackupInfo(h)
  PROVE  FilesIInv'
  <1> USE DEF FilesIInv
  <1>1. /\ request[h] \in Requests /\ Sensible(request[h]) /\ request[h].at = "backup_info"
        /\ Goto(h, "json") /\ UNCHANGED <<second, file, begun, overwritten, crossed>>
    BY DEF BackupInfo, FilesAreTyped
  <1>2. PICK p \in Presets, s \in 0..MaxSecond : p = request[h].preset /\ s = request[h].second
    BY <1>1 DEF Sensible, Requests
  <1>3. PICK r \in Requests : /\ r.at = "json" /\ r.preset = p /\ Sensible(r)
                              /\ request' = [request EXCEPT ![h] = r]
    <2> DEFINE r == [request[h] EXCEPT !.at = "json"]
    <2>1. r \in Requests /\ r.preset = p /\ r.at = "json" /\ Sensible(r)
      BY <1>1, <1>2, PresetParameters DEF Requests, Sensible
    <2>2. request' = [request EXCEPT ![h] = r]
      BY <1>1 DEF Goto
    <2> QED
      BY <2>1, <2>2
  <1>4. backup' = backup \/ backup' = [backup EXCEPT ![s][p]["info"] = file[p].info]
    BY <1>2 DEF BackupInfo
  <1>5. file[p].info \in Written /\ "info" \in Kinds /\ "json" \in Kinds
    BY DEF FilesAreTyped, Files, Kinds
  <1>6. /\ backup' \in [0..MaxSecond -> Files]
        /\ \A t \in 0..MaxSecond, q \in Presets : backup'[t][q].json = backup[t][q].json
    <2>1. CASE backup' = backup
      BY <2>1 DEF FilesAreTyped
    <2>2. CASE backup' = [backup EXCEPT ![s][p]["info"] = file[p].info]
      <3>1. /\ backup' \in [0..MaxSecond -> Files] /\ backup'[s][p]["json"] = backup[s][p]["json"]
            /\ \A t \in 0..MaxSecond, q \in Presets : t # s \/ q # p => backup'[t][q] = backup[t][q]
        <4>1. PICK c \in Written, k \in Kinds : c = file[p].info /\ k = "info"
          BY <1>5
        <4>2. backup' = [backup EXCEPT ![s][p][k] = c] /\ backup \in [0..MaxSecond -> Files]
          BY <2>2, <4>1 DEF FilesAreTyped
        <4>r. PICK row : row = [backup[s][p] EXCEPT ![k] = c]
          OBVIOUS
        <4>a. PICK all : all = [backup[s] EXCEPT ![p] = row]
          OBVIOUS
        <4>b. backup' = [backup EXCEPT ![s] = all]
          BY <4>2, <4>r, <4>a
        <4>c. /\ row \in [Kinds -> Written] /\ row[k] = c
             /\ \A l \in Kinds : l # k => row[l] = backup[s][p][l]
          BY <4>2, <4>r DEF Files
        <4>d. /\ all \in Files /\ all[p] = row
             /\ \A q \in Presets : q # p => all[q] = backup[s][q]
          BY <4>2, <4>a, <4>c DEF Files
        <4>3. /\ backup' \in [0..MaxSecond -> Files]
              /\ \A t \in 0..MaxSecond, q \in Presets : t # s \/ q # p => backup'[t][q] = backup[t][q]
              /\ \A l \in Kinds : l # k => backup'[s][p][l] = backup[s][p][l]
          BY <4>2, <4>b, <4>c, <4>d DEF Files
        <4> QED
          BY <1>5, <4>1, <4>3
      <3> QED
        BY <3>1
    <2> QED
      BY <1>4, <2>1, <2>2
  <1>7. \A q \in Presets : \A c : CopiedAfter(q, c) <=> Copied(q, c)
    BY <1>6 DEF Copied, CopiedAfter
  <1>8. p \notin crossed /\ file[p].json \in Versions => CopiedAfter(p, file[p].json)
    BY <1>1, <1>2, <1>7 DEF ReplacedAreCopied
  <1>9. \A w \in overwritten' : w[1] \in crossed' \/ CopiedAfter(w[1], w[2])
    BY <1>1, <1>7 DEF ReplacedAreCopied, FilesAreTyped
  <1>10. \A g \in Handlers \ {h} : request[g].preset = p => p \in crossed'
    BY <1>1, <1>2 DEF AloneAtWork
  <1> QED
    BY <1>1, <1>3, <1>6, <1>7, <1>8, <1>9, <1>10, HandlerStepIsSound DEF FilesAreTyped

\* The json is replaced or removed: what was there has its copy.
LEMMA ReplacingIsSound ==
  ASSUME FilesIInv, NEW h \in Handlers, NEW c \in Written, request[h].at = "json",
         request[h].doing \in {"install", "remove"}, Lose(request[h].preset),
         file' = [file EXCEPT ![request[h].preset]["json"] = c],
         Goto(h, "info") \/ Answer(h), UNCHANGED <<second, begun, backup, crossed>>
  PROVE  FilesIInv'
  <1> USE DEF FilesIInv
  <1>1. request[h] \in Requests /\ Sensible(request[h]) /\ "json" \in Kinds
    BY DEF FilesAreTyped, Kinds
  <1>2. PICK p \in Presets : p = request[h].preset
    BY <1>1 DEF Sensible
  <1>3. PICK r \in Requests : /\ Sensible(r) /\ request' = [request EXCEPT ![h] = r]
                              /\ r.at = "info" \/ r.preset = NoPreset
                              /\ r.preset \in {p, NoPreset}
    <2>1. CASE Goto(h, "info")
      <3> DEFINE r == [request[h] EXCEPT !.at = "info"]
      <3>1. r \in Requests /\ r.preset = p /\ r.at = "info" /\ Sensible(r)
        BY <1>1, <1>2, PresetParameters DEF Requests, Sensible
      <3>2. request' = [request EXCEPT ![h] = r]
        BY <2>1 DEF Goto
      <3> QED
        BY <3>1, <3>2
    <2>2. CASE Answer(h)
      <3>1. NoRequest \in Requests /\ Sensible(NoRequest) /\ NoRequest.preset = NoPreset
        BY PresetParameters DEF Requests, NoRequest, Versions, Sensible
      <3> QED
        BY <2>2, <3>1 DEF Answer
    <2> QED
      BY <2>1, <2>2
  <1>4. /\ file' \in Files
        /\ \A q \in Presets : q # p => file'[q].json = file[q].json
    BY <1>1, <1>2, FilePut DEF FilesAreTyped
  <1>5. p \notin crossed /\ file[p].json \in Versions => Copied(p, file[p].json)
    BY <1>2 DEF ReplacedAreCopied
  <1>6. /\ overwritten' \subseteq Presets \X Versions
        /\ \A w \in overwritten' : w[1] \in crossed' \/ CopiedAfter(w[1], w[2])
    BY <1>2, <1>5 DEF Lose, ReplacedAreCopied, FilesAreTyped, Copied, CopiedAfter
  <1>7. \A q \in Presets \ crossed', v \in Versions : Copied(q, v) => CopiedAfter(q, v)
    BY DEF Copied, CopiedAfter
  <1>8. \A g \in Handlers \ {h} : request[g].preset = p => p \in crossed'
    BY <1>2 DEF AloneAtWork
  <1>9. \A g \in Handlers \ {h} :
            r.preset \in Presets /\ request[g].preset = r.preset => r.preset \in crossed'
    BY <1>3, <1>8, PresetParameters
  <1>10. ~(r.at \in {"backup_info", "json"} /\ r.preset \in Presets \ crossed')
    BY <1>3, PresetParameters
  <1> QED
    BY <1>2, <1>3, <1>4, <1>6, <1>7, <1>9, <1>10, HandlerStepIsSound DEF FilesAreTyped

LEMMA WriteJsonIsSound ==
  ASSUME FilesIInv, NEW h \in Handlers, WriteJson(h)
  PROVE  FilesIInv'
  <1>1. CASE Fail(h)
    BY <1>1, FailuresAreSound DEF WriteJson
  <1>2. CASE ~Fail(h)
    <2>1. request[h].version \in Written /\ Torn \in Written
      BY DEF FilesIInv, FilesAreTyped, Requests, Written
    <2>2. PICK c \in Written : file' = [file EXCEPT ![request[h].preset]["json"] = c]
      BY <1>2, <2>1 DEF WriteJson
    <2> QED
      BY <1>2, <2>2, ReplacingIsSound DEF WriteJson
  <1> QED
    BY <1>1, <1>2

LEMMA WriteInfoIsSound ==
  ASSUME FilesIInv, NEW h \in Handlers, NEW text \in BOOLEAN, WriteInfo(h, text)
  PROVE  FilesIInv'
  <1>1. CASE Fail(h)
    BY <1>1, FailuresAreSound DEF WriteInfo
  <1>2. CASE ~Fail(h)
    <2>1. /\ request[h].version \in Written /\ "info" \in Kinds /\ request[h].preset \in Presets
          /\ file \in Files
      BY DEF FilesIInv, FilesAreTyped, Requests, Written, Kinds, Sensible, WriteInfo
    <2>2. /\ file' = file \/ file' = [file EXCEPT ![request[h].preset]["info"] = request[h].version]
          /\ Answer(h) /\ UNCHANGED <<second, begun, backup, overwritten, crossed>>
      BY <1>2 DEF WriteInfo
    <2>3. file' \in Files /\ \A q \in Presets : file'[q].json = file[q].json
      <3>1. PICK p \in Presets : p = request[h].preset
        BY <2>1
      <3>2. \/ file' = file
            \/ /\ file' \in Files /\ \A q \in Presets : q # p => file'[q] = file[q]
               /\ file'[p]["json"] = file[p]["json"]
        BY <2>1, <2>2, <3>1, FilePut DEF Kinds
      <3> QED
        BY <2>1, <3>2
    <2> QED
      BY <2>2, <2>3, AnswersAreSound
  <1> QED
    BY <1>1, <1>2

LEMMA RemoveFilesIsSound ==
  ASSUME FilesIInv, NEW h \in Handlers, RemoveFiles(h)
  PROVE  FilesIInv'
  <1>1. CASE Fail(h)
    BY <1>1, FailuresAreSound DEF RemoveFiles
  <1>2. CASE ~Fail(h) /\ request[h].at = "json"
    <2>1. Absent \in Written
      BY DEF Written
    <2>2. file' = [file EXCEPT ![request[h].preset]["json"] = Absent]
      BY <1>2 DEF RemoveFiles
    <2> QED
      BY <1>2, <2>1, <2>2, ReplacingIsSound DEF RemoveFiles
  <1>3. CASE ~Fail(h) /\ request[h].at # "json"
    <2>1. /\ Absent \in Written /\ "info" \in Kinds /\ request[h].preset \in Presets
          /\ file \in Files
      BY DEF FilesIInv, FilesAreTyped, Written, Kinds, Sensible, RemoveFiles
    <2>2. /\ file' = [file EXCEPT ![request[h].preset]["info"] = Absent]
          /\ Answer(h) /\ UNCHANGED <<second, begun, backup, overwritten, crossed>>
      BY <1>3 DEF RemoveFiles
    <2>3. file' \in Files /\ \A q \in Presets : file'[q].json = file[q].json
      <3>1. PICK p \in Presets : p = request[h].preset
        BY <2>1
      <3>2. \/ file' = file
            \/ /\ file' \in Files /\ \A q \in Presets : q # p => file'[q] = file[q]
               /\ file'[p]["json"] = file[p]["json"]
        BY <2>1, <2>2, <3>1, FilePut DEF Kinds
      <3> QED
        BY <2>1, <3>2
    <2> QED
      BY <2>2, <2>3, AnswersAreSound
  <1> QED
    BY <1>1, <1>2, <1>3

LEMMA BeginRollbackIsSound ==
  ASSUME FilesIInv, NEW h \in Handlers, NEW s \in 0..MaxSecond, BeginRollback(h, s)
  PROVE  FilesIInv'
  <1> DEFINE r == [doing |-> "rollback", preset |-> NoPreset, second |-> s, version |-> 0,
                   at |-> "json"]
  <1>1. r \in Requests /\ Sensible(r) /\ r.preset = NoPreset
    BY PresetParameters DEF Requests, Versions, Sensible
  <1>2. begun' \in Versions
    BY PresetParameters DEF BeginRollback, Begin, FilesIInv, FilesAreTyped, Versions
  <1>3. request' = [request EXCEPT ![h] = r]
    BY DEF BeginRollback, Begin
  <1> QED
    BY <1>1, <1>2, <1>3, NothingTouched DEF BeginRollback, FilesIInv, FilesAreTyped

\* What a rollback puts in place is a copy.
LEMMA RestoreIsSound ==
  ASSUME FilesIInv, NEW h \in Handlers, NEW p \in Presets, NEW k \in Kinds, Restore(h, p, k)
  PROVE  FilesIInv'
  <1> USE DEF FilesIInv
  <1>1. request[h] \in Requests /\ Sensible(request[h]) /\ request[h].doing = "rollback"
    BY DEF Restore, FilesAreTyped
  <1>2. PICK s \in 0..MaxSecond : s = request[h].second
    BY <1>1 DEF Requests
  <1>3. backup[s][p][k] \in Written
    BY DEF FilesAreTyped, Files
  <1>4. file' = [file EXCEPT ![p][k] = backup[s][p][k]]
    BY <1>2 DEF Restore
  <1>5. /\ file' \in Files /\ file'[p][k] = backup[s][p][k]
        /\ \A q \in Presets : q # p => file'[q] = file[q]
        /\ \A l \in Kinds : l # k => file'[p][l] = file[p][l]
    <2>1. file \in Files
      BY DEF FilesAreTyped
    <2> QED
      BY <1>3, <1>4, <2>1, FilePut
  <1>6. \A q \in Presets : file'[q].json = file[q].json \/ CopiedAfter(q, file'[q].json)
    BY <1>5 DEF Copied, CopiedAfter, Restore, Kinds
  <1>7. /\ \A w \in overwritten' : w[1] \in crossed' \/ CopiedAfter(w[1], w[2])
        /\ \A q \in Presets \ crossed', c \in Versions : Copied(q, c) => CopiedAfter(q, c)
    BY DEF Restore, ReplacedAreCopied, Copied, CopiedAfter
  <1>8. request[h].preset = NoPreset /\ NoPreset \notin Presets
    BY <1>1, PresetParameters DEF Sensible
  <1>9. request' = [request EXCEPT ![h] = request[h]]
    BY DEF Restore, FilesAreTyped
  <1> QED
    BY <1>1, <1>5, <1>6, <1>7, <1>8, <1>9, HandlerStepIsSound DEF Restore, FilesAreTyped

LEMMA PresetsStepIsSound == FilesIInv /\ [PresetsNext]_presetVars => FilesIInv'
  <1> SUFFICES ASSUME FilesIInv, [PresetsNext]_presetVars PROVE FilesIInv'
      OBVIOUS
  <1>1. ASSUME NEW h \in Handlers, NEW p \in Presets, BeginInstall(h, p) \/ BeginRemove(h, p)
        PROVE  FilesIInv'
    BY <1>1, BeginsAreSound
  <1>2. ASSUME NEW h \in Handlers, BackupJson(h) \/ BackupInfo(h) \/ WriteJson(h) \/ RemoveFiles(h)
        PROVE  FilesIInv'
    BY <1>2, BackupJsonIsSound, BackupInfoIsSound, WriteJsonIsSound, RemoveFilesIsSound
  <1>3. ASSUME NEW h \in Handlers, NEW text \in BOOLEAN, WriteInfo(h, text) PROVE FilesIInv'
    BY <1>3, WriteInfoIsSound
  <1>4. ASSUME NEW h \in Handlers, NEW s \in 0..MaxSecond, BeginRollback(h, s) PROVE FilesIInv'
    BY <1>4, BeginRollbackIsSound
  <1>5. ASSUME NEW h \in Handlers, NEW p \in Presets, NEW k \in Kinds, Restore(h, p, k)
        PROVE  FilesIInv'
    BY <1>5, RestoreIsSound
  <1>6. ASSUME NEW h \in Handlers, EndRollback(h) PROVE FilesIInv'
    BY <1>6, AnswersAreSound DEF EndRollback, FilesIInv, FilesAreTyped
  <1>7. CASE StopBridge
    <2>1. NoRequest \in Requests /\ Sensible(NoRequest) /\ NoRequest.preset \notin Presets
      BY PresetParameters DEF Requests, NoRequest, Versions, Sensible
    <2>2. request' \in [Handlers -> Requests] /\ \A h \in Handlers : request'[h] = NoRequest
      BY <1>7, <2>1 DEF StopBridge, AllIdle
    <2>3. FilesAreTyped'
      BY <1>7, <2>1, <2>2 DEF StopBridge, FilesIInv, FilesAreTyped
    <2> QED
      BY <1>7, <2>1, <2>2, <2>3
      DEF StopBridge, FilesIInv, AloneAtWork, ReplacedAreCopied, Copied, CopiedAfter
  <1>8. CASE TickSecond
    <2>1. UNCHANGED <<file, backup, request, begun, overwritten, crossed>> /\ second' \in 0..MaxSecond
      BY <1>8, PresetParameters DEF TickSecond, FilesIInv, FilesAreTyped
    <2> QED
      BY <2>1 DEF FilesIInv, FilesAreTyped, AloneAtWork, ReplacedAreCopied, Copied, CopiedAfter
  <1>9. CASE UNCHANGED presetVars
    BY <1>9 DEF presetVars, FilesIInv, FilesAreTyped, AloneAtWork, ReplacedAreCopied, Copied, CopiedAfter
  <1> QED
    BY <1>1, <1>2, <1>3, <1>4, <1>5, <1>6, <1>7, <1>8, <1>9 DEF PresetsNext

\* For any number of presets and of requests at once, each stopped or failing anywhere:
\* what an install or a remove replaced is in place again or in a backup, unless two
\* requests were at work on that preset at once or it was backed up twice in a second.
THEOREM ReplacedIsNeverGone == PresetsSpec => []PresetsAreBackedUp
  <1>1. FilesIInv => PresetsAreBackedUp
    BY DEF FilesIInv, FilesAreTyped, ReplacedAreCopied, Copied, CopiedAfter, PresetsAreBackedUp, InPlaceOrBackup
  <1> QED
    BY <1>1, PresetsStepIsSound, PresetsInitIsSound, PTL DEF PresetsSpec

-----------------------------------------------------------------------------
(* And folder by folder: as long as none comes that sorts before the one   *)
(* in use, the first stays the first.                                      *)

\* The folders are the slicers' own, or the one that takes their place.
FoldersAreTyped ==
    /\ override \in BOOLEAN /\ roots \subseteq Slicers \X (1..Roots)
    /\ folders \subseteq {Over} \cup UNION {Folder(s) : s \in Slicers}

\* What the bridge answered is about the folder it would still take, unless one came
\* before it.
KnownIsThere(k) ==
    /\ k.slicer \in Slicers /\ k.folder # NoFolder
    /\ k.slicer \in displaced \/ k.folder = ResolveInstallDir(k.slicer)
    /\ \E p \in PresetNames : k.name = SanitizeFileName(p, k.slicer)
    /\ k.left # Missing => k.left.by = "bridge"

FolderIInv == FoldersAreTyped /\ \A k \in known : KnownIsThere(k)

\* The least number of a set: the library proves the naturals well-founded.
LEMMA SmallestExists ==
  ASSUME NEW T \in SUBSET Nat, T # {}
  PROVE  \E m \in T : \A n \in T : m <= n
  <1>1. PICK m \in T : \A n \in T : ~(<<n, m>> \in OpToRel(<, Nat))
    BY NatLessThanWellFounded, WFMin
  <1>2. ASSUME NEW n \in T PROVE m <= n
    <2>1. ~(n < m)
      BY <1>1 DEF OpToRel
    <2> QED
      BY <2>1
  <1> QED
    BY <1>2

\* Digits of a number: the higher decides.
LEMMA HigherDigitDecides ==
  ASSUME NEW n \in Nat, NEW a \in Nat, NEW b \in Nat, NEW x \in 0..(n - 1), NEW y \in 0..(n - 1),
         a * n + x <= b * n + y
  PROVE  a <= b
  <1> SUFFICES ASSUME b < a PROVE FALSE
      OBVIOUS
  <1>1. a - b - 1 \in Nat
    OBVIOUS
  <1>2. PICK c \in Nat : a = b + 1 + c
    BY <1>1
  <1>3. a * n = b * n + n + c * n /\ c * n \in Nat /\ b * n \in Nat
    BY <1>2
  <1> QED
    BY <1>3

LEMMA EqualDigits ==
  ASSUME NEW n \in Nat, NEW a \in Nat, NEW b \in Nat, NEW x \in 0..(n - 1), NEW y \in 0..(n - 1),
         a * n + x = b * n + y
  PROVE  a = b /\ x = y
  <1>1. a * n \in Nat /\ b * n \in Nat
    OBVIOUS
  <1>2. a <= b
    BY <1>1, HigherDigitDecides
  <1>3. b <= a
    BY <1>1, HigherDigitDecides
  <1>4. a = b
    BY <1>2, <1>3
  <1> QED
    BY <1>1, <1>4

LEMMA PathIsNumber ==
  ASSUME NEW s, NEW d \in Folder(s)
  PROVE  /\ Path(d) \in Nat /\ d.slicer = s /\ d.root \in 1..Roots
         /\ d.release \in 0..(Releases + 1) /\ d.account \in 0..SignIns
         /\ d.root * (Releases + 2) + d.release \in Nat
  <1>1. /\ Releases \in Nat /\ SignIns \in Nat /\ Roots \in Nat
    BY FolderParameters
  <1>2. /\ d.slicer = s /\ d.root \in 1..Roots
        /\ d.release \in 0..(Releases + 1) /\ d.account \in 0..SignIns
    BY <1>1 DEF Folder
  <1>3. d.root * (Releases + 2) + d.release \in Nat
    BY <1>1, <1>2
  <1>4. Path(d) \in Nat
    BY <1>1, <1>2, <1>3 DEF Path
  <1> QED
    BY <1>2, <1>3, <1>4

\* No two folders of a slicer sort alike.
LEMMA PathsDiffer ==
  ASSUME NEW s, NEW d \in Folder(s), NEW e \in Folder(s), Path(d) = Path(e)
  PROVE  d = e
  <1>1. Releases + 2 \in Nat /\ SignIns + 1 \in Nat /\ Releases \in Nat /\ SignIns \in Nat
    BY FolderParameters
  <1>2. /\ d.root \in Nat /\ d.release \in 0..(Releases + 1) /\ d.account \in 0..SignIns
        /\ e.root \in Nat /\ e.release \in 0..(Releases + 1) /\ e.account \in 0..SignIns
        /\ d.slicer = s /\ e.slicer = s
    BY PathIsNumber
  <1>3. PICK a \in Nat, b \in Nat : /\ a = d.root * (Releases + 2) + d.release
                                    /\ b = e.root * (Releases + 2) + e.release
    BY PathIsNumber
  <1>4. a * (SignIns + 1) + d.account = b * (SignIns + 1) + e.account
    BY <1>3 DEF Path
  <1>5. a = b /\ d.account = e.account
    <2>1. d.account \in 0..((SignIns + 1) - 1) /\ e.account \in 0..((SignIns + 1) - 1)
      BY <1>1, <1>2
    <2> QED
      BY <1>1, <1>4, <2>1, EqualDigits
  <1>6. d.root = e.root /\ d.release = e.release
    <2>1. d.release \in 0..((Releases + 2) - 1) /\ e.release \in 0..((Releases + 2) - 1)
      BY <1>1, <1>2
    <2>2. PICK x \in Nat, y \in Nat, u \in 0..(Releases + 1), v \in 0..(Releases + 1) :
            x = d.root /\ y = e.root /\ u = d.release /\ v = e.release
      BY <1>2
    <2>3. x * (Releases + 2) + u = y * (Releases + 2) + v
      BY <1>3, <1>5, <2>2
    <2>4. u \in 0..((Releases + 2) - 1) /\ v \in 0..((Releases + 2) - 1)
      BY <1>1
    <2>5. x = y /\ u = v
      BY <1>1, <2>3, <2>4, EqualDigits
    <2> QED
      BY <2>2, <2>5
  <1> QED
    BY <1>2, <1>5, <1>6 DEF Folder

LEMMA FirstIsThere ==
  ASSUME NEW s, NEW dirs \in SUBSET Folder(s), dirs # {}
  PROVE  /\ FirstDir(dirs) \in dirs
         /\ \A e \in dirs : Path(FirstDir(dirs)) <= Path(e)
  <1>1. {Path(d) : d \in dirs} \in SUBSET Nat /\ {Path(d) : d \in dirs} # {}
    BY PathIsNumber
  <1>2. \E d \in dirs : \A e \in dirs : Path(d) <= Path(e)
    <2>1. PICK m \in {Path(d) : d \in dirs} : \A n \in {Path(d) : d \in dirs} : m <= n
      BY <1>1, SmallestExists
    <2> QED
      BY <2>1
  <1> QED
    BY <1>2 DEF FirstDir

\* Folders that sort after the first leave it the first.
LEMMA FirstStays ==
  ASSUME NEW s, NEW dirs \in SUBSET Folder(s), dirs # {}, NEW more \in SUBSET Folder(s),
         dirs \subseteq more, \A d \in more \ dirs : Path(FirstDir(dirs)) <= Path(d)
  PROVE  FirstDir(more) = FirstDir(dirs)
  <1>1. PICK m \in dirs : m = FirstDir(dirs) /\ \A e \in dirs : Path(m) <= Path(e)
    BY FirstIsThere
  <1>2. PICK n \in more : n = FirstDir(more) /\ \A e \in more : Path(n) <= Path(e)
    BY FirstIsThere
  <1>3. Path(m) <= Path(n)
    BY <1>1, <1>2
  <1>4. Path(n) <= Path(m) /\ Path(m) \in Nat /\ Path(n) \in Nat
    BY <1>1, <1>2, PathIsNumber
  <1>5. m = n
    BY <1>3, <1>4, PathsDiffer
  <1> QED
    BY <1>1, <1>2, <1>5

LEMMA FoundIsTyped ==
  ASSUME FoldersAreTyped, NEW s \in Slicers
  PROVE  /\ FindFilamentDirs(s) \in SUBSET Folder(s)
         /\ override => ResolveInstallDir(s) = Over
         /\ ~override /\ FindFilamentDirs(s) = {} => ResolveInstallDir(s) = NoFolder
         /\ ~override /\ FindFilamentDirs(s) # {} =>
               /\ ResolveInstallDir(s) = FirstDir(FindFilamentDirs(s))
               /\ ResolveInstallDir(s) \in FindFilamentDirs(s)
         /\ ResolveInstallDir(s) # NoFolder <=> override \/ FindFilamentDirs(s) # {}
  <1>1. FindFilamentDirs(s) \in SUBSET Folder(s)
    <2>1. s # "any" /\ \A t : \A d \in Folder(t) : d.slicer = t
      BY FolderParameters DEF Folder
    <2> QED
      BY <2>1 DEF FindFilamentDirs, FoldersAreTyped, Over
  <1>2. NoFolder # Over /\ NoFolder \notin Folder(s)
    BY NoFolderIsNone
  <1>3. ~override => DetectDirs(s) = FindFilamentDirs(s)
    BY DEF DetectDirs
  <1>4. FindFilamentDirs(s) # {} => FirstDir(FindFilamentDirs(s)) \in FindFilamentDirs(s)
    BY <1>1, FirstIsThere
  <1> QED
    BY <1>1, <1>2, <1>3, <1>4 DEF ResolveInstallDir, FoldersAreTyped

LEMMA TheFirstStaysFirst ==
  ASSUME FoldersAreTyped, FoldersAreTyped', UNCHANGED override,
         NEW s \in Slicers, ResolveInstallDir(s) # NoFolder,
         FindFilamentDirs(s) \subseteq FindFilamentDirs(s)',
         \A d \in FindFilamentDirs(s)' \ FindFilamentDirs(s) :
             Path(ResolveInstallDir(s)) <= Path(d)
  PROVE  ResolveInstallDir(s)' = ResolveInstallDir(s)
  <1>1. CASE override
    BY <1>1 DEF ResolveInstallDir
  <1>2. CASE ~override
    <2>1. PICK dirs \in SUBSET Folder(s) :
            /\ dirs = FindFilamentDirs(s) /\ dirs # {} /\ ResolveInstallDir(s) = FirstDir(dirs)
      BY <1>2, FoundIsTyped
    <2>2. FindFilamentDirs(s)' \in SUBSET Folder(s)
      <3>1. s # "any" /\ \A t : \A d \in Folder(t) : d.slicer = t
        BY FolderParameters DEF Folder
      <3> QED
        BY <3>1 DEF FindFilamentDirs, FoldersAreTyped, Over
    <2>3. PICK more \in SUBSET Folder(s) : more = FindFilamentDirs(s)'
      BY <2>2
    <2>4. dirs \subseteq more /\ \A d \in more \ dirs : Path(FirstDir(dirs)) <= Path(d)
      BY <2>1, <2>3
    <2>5. FirstDir(more) = FirstDir(dirs)
      BY <2>1, <2>4, FirstStays
    <2>6. ResolveInstallDir(s)' = FirstDir(more)
      BY <1>2, <2>1, <2>3, <2>4 DEF ResolveInstallDir, DetectDirs
    <2> QED
      BY <2>1, <2>5, <2>6
  <1> QED
    BY <1>1, <1>2 DEF FoldersAreTyped

\* A step may add folders of a slicer; one that sorts before the folder of an answer is
\* taken down.
FoldersAreWatched ==
    /\ displaced \subseteq displaced'
    /\ \A s \in Slicers : FindFilamentDirs(s) \subseteq FindFilamentDirs(s)'
    /\ \A k \in known :
          /\ k.slicer \notin displaced' /\ k.folder \in Folder(k.slicer)
          => \A d \in FindFilamentDirs(k.slicer)' \ FindFilamentDirs(k.slicer) :
                Path(k.folder) <= Path(d)

LEMMA AnswersStayTrue ==
  ASSUME FolderIInv, FoldersAreTyped', UNCHANGED override, FoldersAreWatched
  PROVE  \A k \in known : KnownIsThere(k)'
  <1> SUFFICES ASSUME NEW k \in known PROVE KnownIsThere(k)'
      OBVIOUS
  <1>1. KnownIsThere(k) /\ FoldersAreTyped
    BY DEF FolderIInv
  <1>2. CASE k.slicer \in displaced'
    BY <1>1, <1>2 DEF KnownIsThere
  <1>3. CASE k.slicer \notin displaced'
    <2>1. k.slicer \in Slicers /\ k.folder = ResolveInstallDir(k.slicer) /\ k.folder # NoFolder
      BY <1>1, <1>3 DEF KnownIsThere, FoldersAreWatched
    <2>2. ResolveInstallDir(k.slicer)' = ResolveInstallDir(k.slicer)
      <3>1. CASE override
        BY <3>1 DEF ResolveInstallDir
      <3>2. CASE ~override
        <4>1. k.folder \in Folder(k.slicer)
          BY <1>1, <2>1, <3>2, FoundIsTyped
        <4> QED
          BY <1>1, <1>3, <2>1, <4>1, TheFirstStaysFirst DEF FoldersAreWatched
      <3> QED
        BY <3>1, <3>2
    <2> QED
      BY <1>1, <2>1, <2>2 DEF KnownIsThere
  <1> QED
    BY <1>2, <1>3

LEMMA FoldersStepIsSound ==
  ASSUME FolderIInv, [FoldersNext]_folderVars
  PROVE  FolderIInv'
  <1>t. FoldersAreTyped /\ \A k \in known : KnownIsThere(k)
    BY DEF FolderIInv
  <1>s. \A s \in Slicers : s # "any" /\ \A d \in Folder(s) : d.slicer = s
    BY FolderParameters DEF Folder
  <1>1. ASSUME UNCHANGED <<override, roots, folders, displaced>>
        PROVE  FoldersAreTyped' /\ FoldersAreWatched
    BY <1>1, <1>t DEF FoldersAreTyped, FoldersAreWatched, FindFilamentDirs
  <1>2. ASSUME NEW s \in Slicers, NEW p \in PresetNames, InstallPreset(s, p) PROVE FolderIInv'
    <2>1. PICK d : d = ResolveInstallDir(s) /\ d # NoFolder
      BY <1>2 DEF InstallPreset
    <2>2. d \in {Over} \cup Folder(s)
      BY <1>t, <2>1, FoundIsTyped DEF FoldersAreTyped
    <2>3. folders' = folders \cup {d} /\ UNCHANGED <<override, roots, displaced>>
      BY <1>2, <2>1 DEF InstallPreset
    <2>4. FoldersAreTyped'
      BY <1>t, <2>2, <2>3 DEF FoldersAreTyped
    <2>5. \A t \in Slicers : FindFilamentDirs(t)' = FindFilamentDirs(t)
      <3>1. CASE d = Over
        <4>1. d.slicer = "any"
          BY <3>1 DEF Over
        <4>2. ASSUME NEW t \in Slicers PROVE FindFilamentDirs(t)' = FindFilamentDirs(t)
          BY <1>s, <2>3, <4>1 DEF FindFilamentDirs
        <4> QED
          BY <4>2
      <3>2. CASE d \in Folder(s) /\ s = "prusaslicer"
        BY <1>s, <2>3, <3>2 DEF FindFilamentDirs
      <3>3. CASE d \in Folder(s) /\ s # "prusaslicer" /\ d # Over
        <4>1. d \in FindFilamentDirs(s)
          BY <1>t, <2>1, <3>3, FoundIsTyped DEF FoldersAreTyped
        <4>2. folders' = folders
          BY <2>3, <3>3, <4>1 DEF FindFilamentDirs
        <4> QED
          BY <2>3, <4>2 DEF FindFilamentDirs
      <3> QED
        BY <2>2, <3>1, <3>2, <3>3
    <2>6. FoldersAreWatched
      BY <1>t, <2>3, <2>5 DEF FoldersAreWatched, KnownIsThere
    <2>7. \A k \in known : KnownIsThere(k)'
      BY <2>3, <2>4, <2>6, AnswersStayTrue
    <2>8. ResolveInstallDir(s)' = d
      BY <1>t, <2>1, <2>3, <2>4, <2>5, TheFirstStaysFirst
    <2>9. PICK k : /\ known' = known \cup {k} /\ k.slicer = s /\ k.folder = d
                   /\ k.name = SanitizeFileName(p, s) /\ k.left.by = "bridge"
      <3>1. PICK c, n, b : /\ c.by = "bridge" /\ n = SanitizeFileName(p, s)
                           /\ known' = known \cup {[slicer |-> s, folder |-> d, name |-> n,
                                                   left |-> c, backup |-> b]}
        BY <1>2, <2>1 DEF InstallPreset
      <3>2. PICK k : k = [slicer |-> s, folder |-> d, name |-> n, left |-> c, backup |-> b]
        OBVIOUS
      <3> QED
        BY <3>1, <3>2
    <2>10. KnownIsThere(k)'
      BY <2>1, <2>8, <2>9 DEF KnownIsThere
    <2> QED
      BY <2>4, <2>7, <2>9, <2>10 DEF FolderIInv
  <1>3. ASSUME NEW s \in Slicers, NEW p \in PresetNames, RemovePreset(s, p) PROVE FolderIInv'
    <2>1. PICK d : d = ResolveInstallDir(s) /\ d # NoFolder
      BY <1>3 DEF RemovePreset
    <2>2. UNCHANGED <<override, roots, folders, displaced>>
      BY <1>3 DEF RemovePreset
    <2>3. FoldersAreTyped' /\ FoldersAreWatched
      BY <2>2, <1>1
    <2>4. PICK k : /\ known' = known \cup {k} /\ k.slicer = s /\ k.folder = d
                   /\ k.name = SanitizeFileName(p, s) /\ k.left = Missing
      <3>1. PICK n, b : /\ n = SanitizeFileName(p, s)
                        /\ known' = known \cup {[slicer |-> s, folder |-> d, name |-> n,
                                                left |-> Missing, backup |-> b]}
        BY <1>3, <2>1 DEF RemovePreset
      <3>2. PICK k : k = [slicer |-> s, folder |-> d, name |-> n, left |-> Missing, backup |-> b]
        OBVIOUS
      <3> QED
        BY <3>1, <3>2
    <2>5. ResolveInstallDir(s)' = d
      BY <2>1, <2>2 DEF ResolveInstallDir, DetectDirs, FindFilamentDirs
    <2>6. KnownIsThere(k)'
      BY <2>1, <2>4, <2>5 DEF KnownIsThere
    <2> QED
      BY <2>2, <2>3, <2>4, <2>6, AnswersStayTrue DEF FolderIInv
  <1>n. ASSUME NEW s \in Slicers, NEW d \in Folder(s), Comes(s, Path(d)), NEW k \in known,
               k.slicer = s, k.slicer \notin displaced', k.folder \in Folder(s)
        PROVE  Path(k.folder) <= Path(d)
    BY <1>n, PathIsNumber DEF Comes
  <1>4. ASSUME NEW s \in Slicers, NEW r \in 1..Roots, SlicerStarts(s, r) PROVE FolderIInv'
    <2>1. PICK c : c = [slicer |-> s, root |-> r, release |-> 0, account |-> 0]
      OBVIOUS
    <2>2. /\ roots' = roots \cup {<<s, r>>} /\ UNCHANGED <<override, folders, known>>
          /\ Comes(s, Path(c)) /\ displaced \subseteq displaced'
      BY <1>4, <2>1 DEF SlicerStarts, Comes
    <2>3. FoldersAreTyped'
      BY <1>t, <2>2 DEF FoldersAreTyped
    <2>4. \A t \in Slicers : FindFilamentDirs(t) \subseteq FindFilamentDirs(t)'
      BY <2>2 DEF FindFilamentDirs
    <2>5. ASSUME NEW t \in Slicers, NEW d \in FindFilamentDirs(t)' \ FindFilamentDirs(t)
          PROVE  t = s /\ d = c /\ d \in Folder(s)
      <3>1. t = "prusaslicer" /\ d \in Folder(t) /\ <<t, d.root>> = <<s, r>>
        BY <2>2, <2>5 DEF FindFilamentDirs
      <3> QED
        BY <2>1, <3>1 DEF Folder
    <2>6. FoldersAreWatched
      BY <1>n, <1>t, <2>2, <2>4, <2>5 DEF FoldersAreWatched, KnownIsThere
    <2> QED
      BY <2>2, <2>3, <2>6, AnswersStayTrue DEF FolderIInv
  <1>5. ASSUME NEW s \in Slicers, NEW d \in Folder(s), FolderComes(d) PROVE FolderIInv'
    <2>1. /\ folders' = folders \cup {d} /\ UNCHANGED <<override, roots, known>> /\ d.slicer = s
          /\ Comes(s, Path(d)) /\ displaced \subseteq displaced'
      BY <1>5, <1>s DEF FolderComes, Comes
    <2>2. FoldersAreTyped'
      BY <1>t, <2>1 DEF FoldersAreTyped
    <2>3. ASSUME NEW t \in Slicers
          PROVE  /\ FindFilamentDirs(t) \subseteq FindFilamentDirs(t)'
                 /\ FindFilamentDirs(t)' \ FindFilamentDirs(t) \subseteq {d}
                 /\ t # s => FindFilamentDirs(t)' = FindFilamentDirs(t)
      BY <2>1 DEF FindFilamentDirs
    <2>4. FoldersAreWatched
      BY <1>n, <1>t, <2>1, <2>3 DEF FoldersAreWatched, KnownIsThere
    <2> QED
      BY <2>1, <2>2, <2>4, AnswersStayTrue DEF FolderIInv
  <1>6. ASSUME UNCHANGED <<override, roots, folders, known, displaced>> PROVE FolderIInv'
    BY <1>6, <1>1, AnswersStayTrue DEF FolderIInv
  <1> QED
    BY <1>2, <1>3, <1>4, <1>5, <1>6
       DEF FoldersNext, RollbackPreset, UserSaves, folderVars

LEMMA FoldersInvIsSound == FolderIInv => FoldersAreSound
  <1> SUFFICES ASSUME FolderIInv PROVE FoldersAreSound
      OBVIOUS
  <1>1. ASSUME NEW s \in Slicers PROVE Found(s) <=> ResolveInstallDir(s) # NoFolder
    <2>1. ResolveInstallDir(s) # NoFolder <=> override \/ FindFilamentDirs(s) # {}
      BY FoundIsTyped DEF FolderIInv
    <2>2. CASE s # "prusaslicer"
      BY <2>1, <2>2 DEF Found, DetectDirs
    <2>3. CASE s = "prusaslicer"
      <3>1. FindFilamentDirs(s) = {d \in Folder(s) : <<s, d.root>> \in roots}
        BY <2>3 DEF FindFilamentDirs
      <3>2. \A r \in 1..Roots : \E d \in Folder(s) : d.root = r
        <4>1. \A r \in 1..Roots :
                  [slicer |-> s, root |-> r, release |-> 0, account |-> 0] \in Folder(s)
          BY <2>3 DEF Folder
        <4> QED
          BY <4>1
      <3>3. \A d \in Folder(s) : d.root \in 1..Roots
        BY DEF Folder
      <3>4. FindFilamentDirs(s) # {} <=> \E r \in 1..Roots : <<s, r>> \in roots
        BY <3>1, <3>2, <3>3
      <3> QED
        BY <2>1, <2>3, <3>4 DEF Found
    <2> QED
      BY <2>2, <2>3
  <1>2. ASSUME NEW k \in known, k.slicer \notin displaced, k.left # Missing,
               Contents(k.folder, k.name) = k.left
        PROVE  /\ ByBridge(k.folder, k.name)
               /\ CanList(k.slicer) => k.name \in ListPresets(k.slicer, TRUE)
    <2>1. PICK f \in At(k.folder, k.name) : f.by = k.left.by
      <3>1. At(k.folder, k.name) # {}
        BY <1>2 DEF Contents
      <3>2. PICK f \in At(k.folder, k.name) : k.left = [save |-> f.save, by |-> f.by]
        BY <1>2, <3>1 DEF Contents
      <3> QED
        BY <3>2
    <2>2. KnownIsThere(k)
      BY DEF FolderIInv
    <2>3. f.by = "bridge" /\ f \in saved /\ f.folder = k.folder /\ f.name = k.name
      BY <1>2, <2>1, <2>2 DEF KnownIsThere, At
    <2>4. CanList(k.slicer) => k.name.ext = "json"
      BY <2>2 DEF KnownIsThere, SanitizeFileName, CanList
    <2> QED
      <3>1. ByBridge(k.folder, k.name)
        BY <2>1, <2>3 DEF ByBridge
      <3>2. k.folder = ResolveInstallDir(k.slicer)
        BY <1>2, <2>2 DEF KnownIsThere
      <3>3. CanList(k.slicer) => k.name \in ListPresets(k.slicer, TRUE)
        BY <2>3, <2>4, <3>2 DEF ListPresets
      <3> QED
        BY <3>1, <3>3
  <1>3. InstalledIsReached
    BY <1>2 DEF InstalledIsReached, FolderIInv, KnownIsThere, CanRollBack
  <1> QED
    BY <1>1, <1>3 DEF FoldersAreSound, FoundCanInstall

\* For any number of folders and presets: what the bridge installed is listed, can
\* be removed and rolled back, and the slicers it says it found are those it can
\* install for; unless a folder came that sorts before the one it was installed in.
THEOREM InstalledIsAlwaysReached == FoldersSpec => []FoldersAreSound
  <1>1. FoldersInit => FolderIInv
    BY DEF FoldersInit, FolderIInv, FoldersAreTyped
  <1>2. FolderIInv /\ [FoldersNext]_folderVars => FolderIInv'
    BY FoldersStepIsSound
  <1> QED
    BY <1>1, <1>2, FoldersInvIsSound, PTL DEF FoldersSpec

\* Both at once, as the run checks them.
THEOREM BridgeIsAlwaysSound == PresetsSpec /\ FoldersSpec => []BridgeIsSound
  BY ReplacedIsNeverGone, InstalledIsAlwaysReached, PTL DEF BridgeIsSound
-----------------------------------------------------------------------------
(* The imports of colours (ColourImport).  Rows are filled in order and    *)
(* none is emptied, so that what a job has read is there when it writes;   *)
(* and as long as nobody else writes, it is what it was.                   *)

ColourRecords ==
    [product : 0..MaxProducts, name : Shades \cup {"none"},
     source : {"none", "ofd", "spoolman", "visitor"}, value : Swatches \cup {Null},
     mark : BOOLEAN, links : SUBSET ShopLinks]
ColourTable == {r \in ColourRecords : r.product = 0 => r = NoColour}
ImportRecords ==
    [kind : {"none", "ofd", "spoolman"}, step : {"idle", "product", "colours", "failed"},
     product : 0..MaxProducts, found : 0..MaxProducts, empty : BOOLEAN,
     had : [1..MaxColours -> ColourRecords], todo : SUBSET Shades,
     alone : BOOLEAN, calm : BOOLEAN, inserted : BOOLEAN]

TablesAreTyped ==
    /\ madeBy \in [1..MaxProducts -> {"none", "ofd", "spoolman", "visitor"}]
    /\ colour \in [1..MaxColours -> ColourTable]
    /\ \E k \in 0..MaxColours : ColourRows = 1..k
    /\ settled \in BOOLEAN

\* A row a job has read is there still, and the other dataset's rows keep names.
ReadIsThere(a) ==
    a.kind # "none" => \A c \in 1..MaxColours :
        /\ a.had[c].product # 0 => colour[c].product # 0
        /\ a.had[c].source = "ofd" => colour[c].source = "ofd" /\ colour[c].name = a.had[c].name

\* Undisturbed, it has the product that came last, every colour it is done with is
\* on it, and the others are as they were.
ReadIsTrue(a) ==
    a.kind = "spoolman" /\ a.alone =>
        /\ a.todo \subseteq SpoolColours
        /\ a.step = "product" => a.found = LastOf(ProductRows) /\ a.todo = SpoolColours
        /\ a.step = "colours" =>
              /\ a.product = LastOf(ProductRows)
              /\ \A n \in SpoolColours \ a.todo : Named(colour, a.product, n) # {}
        /\ \A c \in 1..MaxColours : a.had[c].product # 0 =>
              /\ colour[c].product = a.had[c].product /\ colour[c].name = a.had[c].name
              /\ a.had[c].name \in a.todo => colour[c].value = a.had[c].value

\* And if it began where another had settled, it has nothing to insert.
CalmInsertsNothing(a) ==
    a.kind = "spoolman" /\ a.alone /\ a.calm =>
        /\ ~a.inserted /\ a.found # 0
        /\ \A n \in SpoolColours : Named(a.had, a.found, n) # {}
        /\ a.step = "colours" => a.product = a.found

JobIsSound(a) ==
    /\ a.step = "colours" => a.product # 0
    /\ a.kind = "none" <=> a.step \in {"idle", "failed"}
    /\ ReadIsThere(a) /\ ReadIsTrue(a) /\ CalmInsertsNothing(a)

\* Where a run settled, the product that came last has all colours of the dataset.
SettledIsComplete ==
    settled => /\ LastOf(ProductRows) # 0
               /\ \A n \in SpoolColours : Named(colour, LastOf(ProductRows), n) # {}

ImportIInv ==
    /\ TablesAreTyped /\ OneRowForEach /\ NothingIsTaken /\ SettledIsComplete
    /\ importer \in [ImportJobs -> ImportRecords]
    /\ \A j \in ImportJobs : JobIsSound(importer[j])

\* The last row of some is one of them.
LEMMA LastIsThere ==
  ASSUME NEW N \in Nat, NEW S \in SUBSET (1..N)
  PROVE  /\ S = {} => LastOf(S) = 0
         /\ S # {} => LastOf(S) \in S /\ LastOf(S) # 0
         /\ LastOf(S) \in 0..N
  <1>1. ASSUME S # {} PROVE \E n \in S : \A m \in S : m <= n
    <2>1. {N - n : n \in S} \in SUBSET Nat /\ {N - n : n \in S} # {}
      <3>1. \A n \in S : N - n \in Nat
        OBVIOUS
      <3> QED
        BY <1>1, <3>1, Zenon
    <2>2. PICK d \in {N - n : n \in S} : \A e \in {N - n : n \in S} : d <= e
      BY <2>1, SmallestExists
    <2>3. PICK n \in S : d = N - n
      BY <2>2
    <2>4. ASSUME NEW m \in S PROVE m <= n
      <3>1. N - n <= N - m
        BY <2>2, <2>3
      <3> QED
        BY <3>1
    <2> QED
      BY <2>4
  <1>2. S # {} => LastOf(S) \in S
    BY <1>1 DEF LastOf
  <1>3. S = {} => LastOf(S) = 0
    BY DEF LastOf
  <1>4. CASE S = {}
    BY <1>3, <1>4
  <1>5. CASE S # {}
    <2>1. LastOf(S) \in 1..N
      BY <1>2, <1>5
    <2> QED
      BY <1>2, <1>5, <2>1
  <1> QED
    BY <1>4, <1>5

\* The next row is free.
LEMMA NextColourIsFree ==
  ASSUME TablesAreTyped, NextColour <= MaxColours
  PROVE  /\ NextColour \in 1..MaxColours /\ colour[NextColour].product = 0
         /\ colour[NextColour] = NoColour /\ ColourRows = 1..(NextColour - 1)
  <1>1. PICK k \in 0..MaxColours : ColourRows = 1..k
    BY DEF TablesAreTyped
  <1>2. Cardinality(ColourRows) = k
    BY <1>1, FS_Interval
  <1>3. NextColour = k + 1 /\ NextColour \notin ColourRows /\ NextColour \in 1..MaxColours
    BY <1>1, <1>2, ImportParameters DEF NextColour
  <1>4. colour[NextColour] = NoColour
    BY <1>3 DEF ColourRows
  <1> QED
    BY <1>1, <1>3, <1>4 DEF NoColour

LEMMA RowOrNone ==
  ASSUME TablesAreTyped, NEW c \in 1..MaxColours
  PROVE  colour[c] \in ColourTable /\ (c \in ColourRows <=> colour[c].product # 0)
  BY DEF TablesAreTyped, ColourRows, ColourTable, NoColour

NextProductIsNumber == NextProduct \in Nat /\ NextProduct # 0

LEMMA NextProductCounts ==
  ASSUME TablesAreTyped
  PROVE  NextProductIsNumber /\ (ProductRows = {} => NextProduct = 1)
  <1>1. IsFiniteSet(ProductRows)
    <2>1. IsFiniteSet(1..MaxProducts)
      BY FS_Interval, ImportParameters
    <2> QED
      BY <2>1, FS_Subset DEF ProductRows
  <1>2. Cardinality(ProductRows) \in Nat
    BY <1>1, FS_CardinalityType
  <1>3. ProductRows = {} => Cardinality(ProductRows) = 0
    BY FS_EmptySet
  <1> QED
    BY <1>2, <1>3 DEF NextProduct, NextProductIsNumber

LEMMA ImportInitIsSound == ImportInit => ImportIInv
  <1> SUFFICES ASSUME ImportInit PROVE ImportIInv
      OBVIOUS
  <1>0. NoColour \in ColourTable /\ NoColour \in ColourRecords /\ MaxProducts \in Nat /\ MaxColours \in Nat
    BY ImportParameters DEF NoColour, ColourTable, ColourRecords
  <1>1. NoImport \in ImportRecords
    BY <1>0 DEF NoImport, ImportRecords
  <1>2. ColourRows = {} /\ ColourRows = 1..0
    BY DEF ImportInit, ColourRows
  <1>3. TablesAreTyped
    <2>1. \E k \in 0..MaxColours : ColourRows = 1..k
      BY <1>0, <1>2
    <2> QED
      BY <1>0, <2>1 DEF ImportInit, TablesAreTyped
  <1>4. OneRowForEach /\ NothingIsTaken /\ SettledIsComplete
    BY <1>2 DEF ImportInit, OneRowForEach, NothingIsTaken, SettledIsComplete
  <1>5. \A j \in ImportJobs : JobIsSound(importer[j])
    BY DEF ImportInit, NoImport, JobIsSound, ReadIsThere, ReadIsTrue, CalmInsertsNothing
  <1> QED
    BY <1>1, <1>3, <1>4, <1>5 DEF ImportInit, ImportIInv

\* No step empties a row, nor does it take one from the Open Filament Database.
RowsStay ==
    \A c \in 1..MaxColours :
        /\ colour[c].product # 0 => colour'[c].product # 0
        /\ colour[c].source = "ofd" => colour'[c].source = "ofd" /\ colour'[c].name = colour[c].name

\* A job that is disturbed.
LEMMA DisturbedIsSound ==
  ASSUME RowsStay, NEW d \in ImportRecords, JobIsSound(d),
         NEW a \in ImportRecords, a = [d EXCEPT !.alone = FALSE]
  PROVE  JobIsSound(a)'
  <1>1. /\ a.kind = d.kind /\ a.step = d.step /\ a.product = d.product /\ a.had = d.had /\ ~a.alone
    BY DEF ImportRecords
  <1>2. ReadIsThere(a)'
    BY <1>1 DEF JobIsSound, ReadIsThere, RowsStay
  <1> QED
    BY <1>1, <1>2 DEF JobIsSound, ReadIsTrue, CalmInsertsNothing

LEMMA SoundOf ==
  ASSUME NEW S, NEW f, S = ImportJobs, f = importer', DOMAIN f = S,
         \A i \in S : \E c \in ImportRecords : c = f[i] /\ JobIsSound(c)',
         importer' = [i \in ImportJobs |-> importer'[i]]
  PROVE  importer' \in [ImportJobs -> ImportRecords] /\ \A i \in ImportJobs : JobIsSound(importer[i])'
  <1>1. importer' \in [ImportJobs -> ImportRecords]
    OBVIOUS
  <1>2. ASSUME NEW i \in ImportJobs PROVE JobIsSound(importer[i])'
    <2>1. PICK c \in ImportRecords : c = importer'[i] /\ JobIsSound(c)'
      OBVIOUS
    <2> QED
      BY <2>1 DEF JobIsSound, ReadIsThere, ReadIsTrue, CalmInsertsNothing
  <1> QED
    BY <1>1, <1>2

\* One job writes, or a visitor does, and the others are disturbed.
LEMMA WritersDisturb ==
  ASSUME ImportIInv, RowsStay, NEW changed \in [ImportJobs -> ImportRecords], NEW by,
         importer' = Beheld(changed, by),
         \A i \in ImportJobs : i \notin by => changed[i] = importer[i],
         \A i \in ImportJobs : i \in by => JobIsSound(changed[i])'
  PROVE  importer' \in [ImportJobs -> ImportRecords] /\ \A i \in ImportJobs : JobIsSound(importer[i])'
  <1>1. ASSUME NEW i \in ImportJobs PROVE \E c \in ImportRecords : c = importer'[i] /\ JobIsSound(c)'
    <2>1. CASE i \in by
      BY <2>1 DEF Beheld
    <2>2. CASE i \notin by
      <3>1. PICK d \in ImportRecords : d = importer[i] /\ JobIsSound(d)
        BY DEF ImportIInv
      <3>2. CASE d.kind = "none"
        <4>1. importer'[i] = d
          BY <2>2, <3>1, <3>2 DEF Beheld
        <4>2. JobIsSound(d)'
          BY <3>1, <3>2 DEF JobIsSound, ReadIsThere, ReadIsTrue, CalmInsertsNothing
        <4> QED
          BY <4>1, <4>2
      <3>3. CASE d.kind # "none"
        <4>1. importer'[i] = [d EXCEPT !.alone = FALSE]
          BY <2>2, <3>1, <3>3 DEF Beheld
        <4>2. PICK a \in ImportRecords : a = [d EXCEPT !.alone = FALSE]
          BY DEF ImportRecords
        <4> QED
          BY <3>1, <4>1, <4>2, DisturbedIsSound
      <3> QED
        BY <3>2, <3>3
    <2> QED
      BY <2>1, <2>2
  <1>2. DOMAIN importer' = ImportJobs /\ importer' = [i \in ImportJobs |-> importer'[i]]
    BY DEF Beheld
  <1> QED
    BY <1>1, <1>2, SoundOf

\* One job goes on, and nobody notices: the tables stay.
LEMMA QuietJobsStay ==
  ASSUME ImportIInv, NEW j \in ImportJobs, NEW a \in ImportRecords, JobIsSound(a),
         importer' = [importer EXCEPT ![j] = a], UNCHANGED <<madeBy, colour>>
  PROVE  importer' \in [ImportJobs -> ImportRecords] /\ \A i \in ImportJobs : JobIsSound(importer[i])'
  <1>1. ASSUME NEW i \in ImportJobs PROVE \E c \in ImportRecords : c = importer'[i] /\ JobIsSound(c)'
    <2>1. PICK c \in ImportRecords : c = importer'[i] /\ JobIsSound(c)
      BY DEF ImportIInv
    <2>2. JobIsSound(c)'
      BY <2>1 DEF JobIsSound, ReadIsThere, ReadIsTrue, CalmInsertsNothing, ProductRows, Named
    <2> QED
      BY <2>1, <2>2
  <1>2. DOMAIN importer' = ImportJobs /\ importer' = [i \in ImportJobs |-> importer'[i]]
    BY DEF ImportIInv
  <1> QED
    BY <1>1, <1>2, SoundOf

\* A row is written, a new one or one there is.
LEMMA RowIsWritten ==
  ASSUME ImportIInv, NEW c \in 1..MaxColours, NEW row \in ColourTable, row.product # 0,
         colour[c].product # 0 \/ (c = NextColour /\ colour[c].product = 0),
         colour' = [colour EXCEPT ![c] = row], UNCHANGED madeBy, settled' = FALSE,
         colour[c].source = "ofd" => row.source = "ofd" /\ row.name = colour[c].name,
         row.source = "ofd" =>
            \/ colour[c].source = "ofd"
            \/ \A d \in ColourRows : colour[d].source = "ofd" => colour[d].name # row.name
  PROVE  /\ TablesAreTyped' /\ RowsStay /\ OneRowForEach' /\ SettledIsComplete'
         /\ \A d \in 1..MaxColours : colour'[d] = IF d = c THEN row ELSE colour[d]
  <1>t. TablesAreTyped /\ OneRowForEach /\ MaxColours \in Nat
    BY ImportParameters DEF ImportIInv
  <1>1. /\ \A d \in 1..MaxColours : colour'[d] = IF d = c THEN row ELSE colour[d]
        /\ colour' \in [1..MaxColours -> ColourTable]
    BY <1>t DEF TablesAreTyped
  <1>2. RowsStay
    BY <1>1 DEF RowsStay
  <1>3. ColourRows' = ColourRows \cup {c} /\ row # NoColour
    BY <1>1 DEF ColourRows, NoColour
  <1>4. \E k \in 0..MaxColours : ColourRows' = 1..k
    <2>1. CASE colour[c].product # 0
      <3>1. c \in ColourRows
        BY <1>t, <2>1, RowOrNone
      <3> QED
        BY <1>t, <1>3, <3>1 DEF TablesAreTyped
    <2>2. CASE c = NextColour /\ colour[c].product = 0
      <3>1. NextColour <= MaxColours /\ NextColour \in Nat
        BY <2>2, <1>t
      <3>2. ColourRows = 1..(c - 1)
        BY <1>t, <2>2, <3>1, NextColourIsFree
      <3>3. ColourRows' = 1..c
        BY <1>3, <3>2, <1>t
      <3> QED
        BY <3>3, <1>t
    <2> QED
      BY <2>1, <2>2
  <1>5. TablesAreTyped'
    BY <1>1, <1>4, <1>t DEF TablesAreTyped
  <1>6. OneRowForEach'
    <2> SUFFICES ASSUME NEW d \in 1..MaxColours, NEW e \in 1..MaxColours,
                        d \in ColourRows', e \in ColourRows', d # e,
                        colour'[d].source = "ofd", colour'[e].source = "ofd",
                        colour'[d].name = colour'[e].name
                 PROVE  FALSE
      BY DEF OneRowForEach, ColourRows
    <2>1. ASSUME NEW f \in ColourRows, NEW g \in ColourRows, colour[f].source = "ofd",
                 colour[g].source = "ofd", colour[f].name = colour[g].name
          PROVE  f = g
      BY <1>t, <2>1 DEF OneRowForEach
    <2>2. CASE d # c /\ e # c
      BY <1>1, <1>3, <2>1, <2>2
    <2>3. ASSUME NEW f \in ColourRows, f # c, colour[f].source = "ofd", colour[f].name = row.name,
                 row.source = "ofd"
          PROVE  FALSE
      <3>1. colour[c].source = "ofd" /\ row.name = colour[c].name
        BY <2>3
      <3>2. c \in ColourRows
        BY <3>1 DEF ColourRows, NoColour
      <3> QED
        BY <2>1, <2>3, <3>1, <3>2
    <2>4. CASE d = c
      BY <1>1, <1>3, <2>3, <2>4
    <2>5. CASE e = c
      BY <1>1, <1>3, <2>3, <2>5
    <2> QED
      BY <2>2, <2>4, <2>5
  <1>7. SettledIsComplete'
    BY DEF SettledIsComplete
  <1> QED
    BY <1>1, <1>2, <1>5, <1>6, <1>7

\* Visitors.
LEMMA VisitorProductIsSound == ImportIInv /\ VisitorProduct => ImportIInv'
  <1> SUFFICES ASSUME ImportIInv, VisitorProduct PROVE ImportIInv'
      OBVIOUS
  <1>1. /\ madeBy' = [madeBy EXCEPT ![NextProduct] = "visitor"] /\ settled' = FALSE
        /\ importer' = Beheld(importer, {}) /\ UNCHANGED <<colour, lost>>
    BY DEF VisitorProduct
  <1>2. RowsStay
    BY <1>1 DEF RowsStay
  <1>3. importer' \in [ImportJobs -> ImportRecords] /\ \A i \in ImportJobs : JobIsSound(importer[i])'
    BY <1>1, <1>2, WritersDisturb DEF ImportIInv
  <1>4. TablesAreTyped'
    BY <1>1 DEF ImportIInv, TablesAreTyped, ColourRows
  <1> QED
    BY <1>1, <1>3, <1>4 DEF ImportIInv, OneRowForEach, NothingIsTaken, SettledIsComplete, ColourRows

LEMMA VisitorColourIsSound ==
  ASSUME ImportIInv, NEW p \in 1..MaxProducts, NEW n \in Shades, VisitorColour(p, n)
  PROVE  ImportIInv'
  <1>1. PICK row : row = [NoColour EXCEPT !.product = p, !.name = n, !.source = "visitor",
                                          !.value = VisitorValue]
    OBVIOUS
  <1>2. row \in ColourTable /\ row.product # 0 /\ row.source = "visitor"
    <2>1. row = [product |-> p, name |-> n, source |-> "visitor", value |-> VisitorValue,
                 mark |-> FALSE, links |-> {}]
      BY <1>1 DEF NoColour
    <2>2. row \in ColourRecords
      BY <2>1, ImportParameters DEF ColourRecords
    <2>3. row.product = p /\ row.source = "visitor" /\ row.product # 0
      BY <2>1
    <2> QED
      BY <2>2, <2>3 DEF ColourTable
  <1>3. PICK c : c = NextColour
    OBVIOUS
  <1>4. /\ c <= MaxColours /\ colour' = [colour EXCEPT ![c] = row]
        /\ importer' = Beheld(importer, {}) /\ settled' = FALSE /\ UNCHANGED <<madeBy, lost>>
    BY <1>1, <1>3 DEF VisitorColour
  <1>5. c \in 1..MaxColours /\ colour[c].product = 0 /\ colour[c].source = "none"
    BY <1>3, <1>4, NextColourIsFree DEF ImportIInv, NoColour
  <1>6. TablesAreTyped' /\ RowsStay /\ OneRowForEach' /\ SettledIsComplete'
    BY <1>2, <1>3, <1>4, <1>5, RowIsWritten
  <1>7. importer' \in [ImportJobs -> ImportRecords] /\ \A i \in ImportJobs : JobIsSound(importer[i])'
    BY <1>4, <1>6, WritersDisturb DEF ImportIInv
  <1> QED
    BY <1>4, <1>6, <1>7 DEF ImportIInv, NothingIsTaken

\* A link is added: nothing a job looks at.
LEMMA AddLinkIsSound ==
  ASSUME ImportIInv, NEW c \in 1..MaxColours, NEW l \in ShopLinks, AddLink(c, l)
  PROVE  ImportIInv'
  <1>1. /\ UNCHANGED <<madeBy, importer, settled, lost>> /\ c \in ColourRows
        /\ colour' = [colour EXCEPT ![c].links = @ \cup {l}]
    BY DEF AddLink
  <1>2. colour \in [1..MaxColours -> ColourTable] /\ colour[c].product # 0
    BY <1>1, RowOrNone DEF ImportIInv, TablesAreTyped
  <1>3. /\ colour' \in [1..MaxColours -> ColourTable]
        /\ \A d \in 1..MaxColours :
              /\ colour'[d].product = colour[d].product /\ colour'[d].name = colour[d].name
              /\ colour'[d].source = colour[d].source /\ colour'[d].value = colour[d].value
    BY <1>1, <1>2 DEF ColourTable, ColourRecords
  <1>4. \A d \in 1..MaxColours : d \in ColourRows <=> d \in ColourRows'
    BY <1>2, <1>3 DEF ColourRows, ColourTable, NoColour
  <1>5. ColourRows' = ColourRows
    BY <1>4 DEF ColourRows
  <1>6. \A p, n : Named(colour, p, n)' = Named(colour, p, n)
    BY <1>2, <1>3 DEF Named
  <1>7. TablesAreTyped'
    BY <1>1, <1>3, <1>5 DEF ImportIInv, TablesAreTyped
  <1>8. OneRowForEach'
    BY <1>3, <1>5 DEF ImportIInv, OneRowForEach, ColourRows
  <1>9. SettledIsComplete'
    BY <1>1, <1>6 DEF ImportIInv, SettledIsComplete, ProductRows
  <1>10. ASSUME NEW i \in ImportJobs PROVE JobIsSound(importer[i])'
    <2>1. PICK a \in ImportRecords : a = importer[i] /\ a = importer'[i] /\ JobIsSound(a)
      BY <1>1 DEF ImportIInv
    <2>2. ReadIsThere(a)'
      BY <1>3, <2>1 DEF JobIsSound, ReadIsThere
    <2>3. ReadIsTrue(a)'
      <3>1. LastOf(ProductRows)' = LastOf(ProductRows)
        BY <1>1 DEF ProductRows
      <3>2. ASSUME a.kind = "spoolman", a.alone, NEW d \in 1..MaxColours, a.had[d].product # 0
            PROVE  /\ colour'[d].product = a.had[d].product /\ colour'[d].name = a.had[d].name
                   /\ a.had[d].name \in a.todo => colour'[d].value = a.had[d].value
        BY <1>3, <2>1, <3>2 DEF JobIsSound, ReadIsTrue
      <3>3. ASSUME a.kind = "spoolman", a.alone, a.step = "colours", NEW n \in SpoolColours \ a.todo
            PROVE  Named(colour, a.product, n)' # {}
        BY <1>6, <2>1, <3>3 DEF JobIsSound, ReadIsTrue
      <3> QED
        BY <2>1, <3>1, <3>2, <3>3 DEF JobIsSound, ReadIsTrue
    <2>4. JobIsSound(a)'
      BY <2>1, <2>2, <2>3 DEF JobIsSound, CalmInsertsNothing, Named
    <2> QED
      BY <1>1, <2>1, <2>4
  <1> QED
    BY <1>1, <1>7, <1>8, <1>9, <1>10 DEF ImportIInv, NothingIsTaken

\* A job goes on without writing: it starts, ends, or stops.
LEMMA QuietStepStays ==
  ASSUME ImportIInv, NEW j \in ImportJobs, NEW a \in ImportRecords, JobIsSound(a),
         importer' = [importer EXCEPT ![j] = a], UNCHANGED <<madeBy, colour, lost>>,
         settled' \in BOOLEAN, SettledIsComplete'
  PROVE  ImportIInv'
  <1>1. importer' \in [ImportJobs -> ImportRecords] /\ \A i \in ImportJobs : JobIsSound(importer[i])'
    BY QuietJobsStay
  <1>2. TablesAreTyped' /\ OneRowForEach' /\ NothingIsTaken'
    BY DEF ImportIInv, TablesAreTyped, OneRowForEach, NothingIsTaken, ColourRows
  <1> QED
    BY <1>1, <1>2 DEF ImportIInv

LEMMA SettledStays ==
  ASSUME ImportIInv, UNCHANGED <<madeBy, colour, settled>>
  PROVE  settled' \in BOOLEAN /\ SettledIsComplete'
  <1>1. ProductRows' = ProductRows /\ \A p, n : Named(colour, p, n)' = Named(colour, p, n)
    BY DEF ProductRows, Named
  <1>2. LastOf(ProductRows)' = LastOf(ProductRows)
    BY <1>1
  <1> QED
    BY <1>1, <1>2 DEF ImportIInv, TablesAreTyped, SettledIsComplete

LEMMA StoppedImportIsSound ==
  ASSUME ImportIInv, NEW j \in ImportJobs, NEW a,
         a = NoImport \/ a = [NoImport EXCEPT !.step = "failed"],
         importer' = [importer EXCEPT ![j] = a],
         UNCHANGED <<madeBy, colour, lost>>, settled' \in BOOLEAN, SettledIsComplete'
  PROVE  ImportIInv'
  <1>1. NoColour \in ColourRecords /\ MaxProducts \in Nat
    BY ImportParameters DEF NoColour, ColourRecords
  <1>2. PICK s \in {"idle", "failed"} : a.step = s
    BY DEF NoImport
  <1>3. a = [kind |-> "none", step |-> s, product |-> 0, found |-> 0,
             empty |-> FALSE, had |-> [c \in 1..MaxColours |-> NoColour], todo |-> {},
             alone |-> TRUE, calm |-> FALSE, inserted |-> FALSE]
    BY <1>2 DEF NoImport
  <1>4. a \in ImportRecords
    BY <1>1, <1>3 DEF ImportRecords
  <1>5. JobIsSound(a)
    BY <1>3 DEF JobIsSound, ReadIsThere, ReadIsTrue, CalmInsertsNothing
  <1> QED
    BY <1>4, <1>5, QuietStepStays

LEMMA FailedImportIsSound ==
  ASSUME ImportIInv, NEW j \in ImportJobs, StopsOrFails(j)
  PROVE  ImportIInv'
  <1>1. settled' \in BOOLEAN /\ SettledIsComplete'
    BY SettledStays DEF StopsOrFails
  <1> QED
    BY <1>1, StoppedImportIsSound DEF StopsOrFails

\* A job reads the tables.
LEMMA BeganIsSound ==
  ASSUME ImportIInv, NEW j \in ImportJobs, NEW kind \in {"ofd", "spoolman"},
         NEW found \in 0..MaxProducts, NEW todo \in SUBSET Shades, Began(j, kind, found, todo),
         kind = "spoolman" => found = LastOf(ProductRows) /\ todo = SpoolColours
  PROVE  ImportIInv'
  <1>t. colour \in [1..MaxColours -> ColourTable] /\ settled \in BOOLEAN /\ SettledIsComplete
    BY DEF ImportIInv, TablesAreTyped
  <1>1. PICK had : had = Reading
    OBVIOUS
  <1>2. \A c \in 1..MaxColours :
           had[c] \in ColourRecords /\ had[c].product = colour[c].product
             /\ had[c].name = colour[c].name /\ had[c].source = colour[c].source
             /\ had[c].value = colour[c].value
    <2> SUFFICES ASSUME NEW c \in 1..MaxColours
                 PROVE  had[c] \in ColourRecords /\ had[c].product = colour[c].product
                          /\ had[c].name = colour[c].name /\ had[c].source = colour[c].source
                          /\ had[c].value = colour[c].value
      OBVIOUS
    <2>1. PICK r \in ColourTable : r = colour[c]
      BY <1>t
    <2>2. PICK q : q = had[c] /\ q = [r EXCEPT !.links = {}]
      BY <1>1, <2>1 DEF Reading
    <2>3. /\ q.product = r.product /\ q.name = r.name /\ q.source = r.source /\ q.value = r.value
          /\ q \in ColourRecords
      BY <2>2 DEF ColourTable, ColourRecords
    <2> QED
      BY <2>1, <2>2, <2>3
  <1>3. had \in [1..MaxColours -> ColourRecords]
    BY <1>1, <1>2 DEF Reading
  <1>4. PICK e \in BOOLEAN : e = (ProductRows = {})
    OBVIOUS
  <1>5. PICK a : a = [kind |-> kind, step |-> "product", product |-> 0, found |-> found,
                      empty |-> e, had |-> had, todo |-> todo,
                      alone |-> TRUE, calm |-> settled, inserted |-> FALSE]
    OBVIOUS
  <1>6. importer' = [importer EXCEPT ![j] = a] /\ UNCHANGED <<madeBy, colour, settled, lost>>
    <2>1. PICK b : b = [NoImport EXCEPT !.kind = kind, !.step = "product", !.found = found,
                           !.empty = e, !.had = had, !.todo = todo, !.calm = settled]
      OBVIOUS
    <2>2. importer' = [importer EXCEPT ![j] = b]
      BY <1>1, <1>4, <2>1, Zenon DEF Began
    <2>3. b = [kind |-> kind, step |-> "product", product |-> 0, found |-> found,
               empty |-> e, had |-> had, todo |-> todo,
               alone |-> TRUE, calm |-> settled, inserted |-> FALSE]
      BY <2>1 DEF NoImport
    <2> QED
      BY <1>5, <2>2, <2>3 DEF Began
  <1>7. a \in ImportRecords
    BY <1>t, <1>3, <1>5, ImportParameters DEF ImportRecords
  <1>8. ReadIsThere(a)
    BY <1>2, <1>5 DEF ReadIsThere
  <1>9. ReadIsTrue(a)
    BY <1>2, <1>5 DEF ReadIsTrue
  <1>10. \A p, n : Named(had, p, n) = Named(colour, p, n)
    BY <1>t, <1>2, <1>3 DEF Named
  <1>11. CalmInsertsNothing(a)
    BY <1>t, <1>5, <1>10 DEF CalmInsertsNothing, SettledIsComplete
  <1>12. JobIsSound(a)
    BY <1>5, <1>8, <1>9, <1>11 DEF JobIsSound
  <1> QED
    BY <1>6, <1>7, <1>12, SettledStays, QuietStepStays

LEMMA StartIsSound ==
  ASSUME ImportIInv, NEW j \in ImportJobs, StartOfd(j) \/ StartSpoolman(j)
  PROVE  ImportIInv'
  <1>0. MaxProducts \in Nat /\ OfdColours \subseteq Shades /\ SpoolColours \subseteq Shades
    BY ImportParameters
  <1>1. CASE StartOfd(j)
    <2>1. LastOf({p \in ProductRows : madeBy[p] = "ofd"}) \in 0..MaxProducts
      BY <1>0, LastIsThere DEF ProductRows
    <2> QED
      BY <1>0, <1>1, <2>1, BeganIsSound DEF StartOfd
  <1>2. CASE StartSpoolman(j)
    <2>1. LastOf(ProductRows) \in 0..MaxProducts
      BY <1>0, LastIsThere DEF ProductRows
    <2> QED
      BY <1>0, <1>2, <2>1, BeganIsSound DEF StartSpoolman
  <1> QED
    BY <1>1, <1>2

\* A run ends; undisturbed, it leaves every colour of its dataset.
LEMMA FinishIsSound ==
  ASSUME ImportIInv, NEW j \in ImportJobs, Finish(j)
  PROVE  ImportIInv'
  <1>1. PICK d \in ImportRecords : d = importer[j] /\ JobIsSound(d)
    BY DEF ImportIInv
  <1>2. /\ d.step = "colours" /\ d.todo = {} /\ UNCHANGED <<madeBy, colour, lost>>
        /\ importer' = [importer EXCEPT ![j] = NoImport]
        /\ settled' = (settled \/ (d.kind = "spoolman" /\ d.alone))
    BY <1>1 DEF Finish
  <1>4. settled' \in BOOLEAN
    BY <1>2
  <1>5. ProductRows' = ProductRows /\ \A p, n : Named(colour, p, n)' = Named(colour, p, n)
    BY <1>2 DEF ProductRows, Named
  <1>6. LastOf(ProductRows)' = LastOf(ProductRows)
    BY <1>5
  <1>7. ASSUME settled PROVE SettledIsComplete'
    BY <1>5, <1>6, <1>7 DEF ImportIInv, SettledIsComplete
  <1>8. ASSUME d.kind = "spoolman", d.alone PROVE SettledIsComplete'
    <2>1. d.product = LastOf(ProductRows) /\ d.product # 0
      BY <1>1, <1>2, <1>8 DEF JobIsSound, ReadIsTrue
    <2>2. \A n \in SpoolColours : Named(colour, d.product, n) # {}
      BY <1>1, <1>2, <1>8 DEF JobIsSound, ReadIsTrue
    <2> QED
      BY <1>5, <1>6, <2>1, <2>2 DEF SettledIsComplete
  <1>9. SettledIsComplete'
    BY <1>2, <1>7, <1>8 DEF SettledIsComplete
  <1> QED
    BY <1>2, <1>4, <1>9, StoppedImportIsSound

\* One job writes, and notices nothing.
LEMMA WriterGoesOn ==
  ASSUME ImportIInv, RowsStay, NEW j \in ImportJobs, NEW a \in ImportRecords, JobIsSound(a)',
         importer' = Beheld([importer EXCEPT ![j] = a], {j})
  PROVE  importer' \in [ImportJobs -> ImportRecords] /\ \A i \in ImportJobs : JobIsSound(importer[i])'
  <1>1. PICK changed \in [ImportJobs -> ImportRecords] : changed = [importer EXCEPT ![j] = a]
    BY DEF ImportIInv
  <1>2. \A i \in ImportJobs : i \notin {j} => changed[i] = importer[i]
    BY <1>1 DEF ImportIInv
  <1>3. changed[j] = a
    BY <1>1 DEF ImportIInv
  <1>4. \A i \in ImportJobs : i \in {j} => JobIsSound(changed[i])'
    BY <1>3
  <1>5. importer' = Beheld(changed, {j})
    BY <1>1
  <1> QED
    BY <1>2, <1>4, <1>5, WritersDisturb

\* The product is found, or its row written.
LEMMA WriteProductIsSound ==
  ASSUME ImportIInv, NEW j \in ImportJobs, NEW source \in {"ofd", "spoolman"},
         WriteProduct(j, source)
  PROVE  ImportIInv'
  <1>0. MaxProducts \in Nat /\ TablesAreTyped
    BY ImportParameters DEF ImportIInv
  <1>1. PICK d \in ImportRecords : d = importer[j] /\ JobIsSound(d)
    BY DEF ImportIInv
  <1>2. d.step = "product" /\ d.kind = source
    BY <1>1 DEF WriteProduct
  <1>3. ASSUME NEW p \in 1..MaxProducts, NEW inserts \in BOOLEAN, importer' = Atop(j, p, inserts),
               settled' = FALSE, UNCHANGED <<colour, lost>>,
               madeBy' \in [1..MaxProducts -> {"none", "ofd", "spoolman", "visitor"}],
               d.kind = "spoolman" /\ d.alone => p = LastOf(ProductRows)',
               d.kind = "spoolman" /\ d.alone /\ d.calm => p = d.found /\ ~inserts
        PROVE  ImportIInv'
    <2>1. PICK i \in BOOLEAN : i = (d.inserted \/ inserts)
      OBVIOUS
    <2>2. PICK a : a = [d EXCEPT !.step = "colours", !.product = p, !.inserted = i]
      OBVIOUS
    <2>3. /\ a.step = "colours" /\ a.product = p /\ a.inserted = i /\ a.kind = d.kind /\ a.had = d.had
          /\ a.found = d.found /\ a.todo = d.todo /\ a.alone = d.alone /\ a.calm = d.calm
      BY <2>2 DEF ImportRecords
    <2>r. a \in ImportRecords
      <3>1. p \in 0..MaxProducts
        BY <1>0
      <3> QED
        BY <2>1, <2>2, <3>1 DEF ImportRecords
    <2>4. [importer EXCEPT ![j].step = "colours", ![j].product = p, ![j].inserted = @ \/ inserts]
            = [importer EXCEPT ![j] = a]
      <3>1. [importer EXCEPT ![j].step = "colours", ![j].product = p, ![j].inserted = @ \/ inserts]
              = [importer EXCEPT ![j].step = "colours", ![j].product = p, ![j].inserted = i]
        BY <1>1, <2>1 DEF ImportIInv
      <3> QED
        BY <1>1, <2>2, <3>1 DEF ImportIInv
    <2>5. importer' = Beheld([importer EXCEPT ![j] = a], {j})
      BY <1>3, <2>4 DEF Atop
    <2>6. RowsStay
      BY <1>3 DEF RowsStay
    <2>7. ReadIsThere(a)'
      BY <1>1, <1>3, <2>3 DEF JobIsSound, ReadIsThere
    <2>8. ReadIsTrue(a)'
      BY <1>1, <1>2, <1>3, <2>3 DEF JobIsSound, ReadIsTrue
    <2>9. CalmInsertsNothing(a)'
      BY <1>1, <1>2, <1>3, <2>1, <2>3 DEF JobIsSound, CalmInsertsNothing
    <2>10. JobIsSound(a)'
      BY <1>1, <1>2, <2>3, <2>7, <2>8, <2>9 DEF JobIsSound
    <2>11. importer' \in [ImportJobs -> ImportRecords] /\ \A k \in ImportJobs : JobIsSound(importer[k])'
      BY <2>r, <2>5, <2>6, <2>10, WriterGoesOn
    <2>12. TablesAreTyped' /\ OneRowForEach' /\ NothingIsTaken' /\ SettledIsComplete'
      BY <1>3 DEF ImportIInv, TablesAreTyped, OneRowForEach, NothingIsTaken, SettledIsComplete, ColourRows
    <2> QED
      BY <2>11, <2>12 DEF ImportIInv
  <1>4. CASE d.found # 0
    <2>1. /\ importer' = Atop(j, d.found, FALSE) /\ settled' = FALSE /\ UNCHANGED <<madeBy, colour, lost>>
      BY <1>1, <1>4 DEF WriteProduct
    <2>2. d.found \in 1..MaxProducts
      BY <1>0, <1>4 DEF ImportRecords
    <2>3. ProductRows' = ProductRows
      BY <2>1 DEF ProductRows
    <2>4. d.kind = "spoolman" /\ d.alone => d.found = LastOf(ProductRows)
      BY <1>1, <1>2 DEF JobIsSound, ReadIsTrue
    <2>5. madeBy' \in [1..MaxProducts -> {"none", "ofd", "spoolman", "visitor"}]
      BY <1>0, <2>1 DEF TablesAreTyped
    <2> QED
      BY <1>3, <2>1, <2>2, <2>3, <2>4, <2>5
  <1>5. CASE d.found = 0 /\ ProductClash(j, source)
    BY <1>1, <1>5, FailedImportIsSound DEF WriteProduct
  <1>6. CASE d.found = 0 /\ ~ProductClash(j, source)
    <2>1. PICK p : p = NextProduct
      OBVIOUS
    <2>2. /\ p <= MaxProducts /\ madeBy' = [madeBy EXCEPT ![p] = source]
          /\ importer' = Atop(j, p, TRUE) /\ settled' = FALSE /\ UNCHANGED <<colour, lost>>
      BY <1>1, <1>6, <2>1 DEF WriteProduct
    <2>3. p \in 1..MaxProducts /\ (ProductRows = {} => p = 1)
      BY <1>0, <2>1, <2>2, NextProductCounts DEF NextProductIsNumber
    <2>4. madeBy' \in [1..MaxProducts -> {"none", "ofd", "spoolman", "visitor"}]
      BY <1>0, <2>2 DEF TablesAreTyped
    <2>5. ASSUME d.kind = "spoolman", d.alone PROVE p = LastOf(ProductRows)'
      <3>1. LastOf(ProductRows) = 0
        BY <1>1, <1>2, <1>6, <2>5 DEF JobIsSound, ReadIsTrue
      <3>2. ProductRows = {}
        BY <1>0, <3>1, LastIsThere DEF ProductRows
      <3>3. PICK S : S = ProductRows'
        OBVIOUS
      <3>4. S = {1}
        BY <1>0, <2>2, <2>3, <3>2, <3>3 DEF ProductRows, TablesAreTyped
      <3>5. LastOf(S) = 1
        BY <3>4, LastIsThere
      <3> QED
        BY <2>3, <3>2, <3>3, <3>5
    <2>6. ~(d.kind = "spoolman" /\ d.alone /\ d.calm)
      BY <1>1, <1>6 DEF JobIsSound, CalmInsertsNothing
    <2> QED
      BY <1>3, <2>2, <2>3, <2>4, <2>5, <2>6
  <1> QED
    BY <1>4, <1>5, <1>6

\* A job writes the row of a colour and is done with it.
RowIsFor(c, row) ==
    /\ row.product # 0
    /\ colour[c].product # 0 \/ (c = NextColour /\ colour[c].product = 0)
    /\ colour' = [colour EXCEPT ![c] = row]
    /\ colour[c].source = "ofd" => row.source = "ofd" /\ row.name = colour[c].name
    /\ row.source = "ofd" =>
          \/ colour[c].source = "ofd"
          \/ \A e \in ColourRows : colour[e].source = "ofd" => colour[e].name # row.name

IsDoneWith(d, n, inserts, c, row) ==
    d.kind = "spoolman" /\ d.alone =>
        /\ row.product = d.product /\ row.name = n
        /\ colour[c].product # 0 => row.product = colour[c].product /\ row.name = colour[c].name
        /\ d.calm => ~inserts

LEMMA ColourIsWritten ==
  ASSUME ImportIInv, NEW j \in ImportJobs, NEW d \in ImportRecords, d = importer[j],
         JobIsSound(d), d.step = "colours", NEW n \in d.todo, NEW inserts \in BOOLEAN,
         Ticked(j, n, inserts), NEW c \in 1..MaxColours, NEW row \in ColourTable,
         RowIsFor(c, row), IsDoneWith(d, n, inserts, c, row),
         UNCHANGED madeBy, settled' = FALSE, lost' = {}
  PROVE  ImportIInv'
  <1>1. /\ TablesAreTyped' /\ RowsStay /\ OneRowForEach' /\ SettledIsComplete'
        /\ \A e \in 1..MaxColours : colour'[e] = IF e = c THEN row ELSE colour[e]
    BY RowIsWritten DEF RowIsFor
  <1>2. PICK i \in BOOLEAN : i = (d.inserted \/ inserts)
    OBVIOUS
  <1>3. PICK left \in SUBSET Shades : left = d.todo \ {n}
    BY DEF ImportRecords
  <1>4. PICK a : a = [d EXCEPT !.todo = left, !.inserted = i]
    OBVIOUS
  <1>5. /\ a.step = d.step /\ a.product = d.product /\ a.inserted = i /\ a.kind = d.kind
        /\ a.had = d.had /\ a.found = d.found /\ a.todo = left /\ a.alone = d.alone /\ a.calm = d.calm
    BY <1>4 DEF ImportRecords
  <1>6. a \in ImportRecords
    BY <1>2, <1>3, <1>4 DEF ImportRecords
  <1>7. importer' = Beheld([importer EXCEPT ![j] = a], {j})
    <2>1. [importer EXCEPT ![j].todo = @ \ {n}, ![j].inserted = @ \/ inserts]
            = [importer EXCEPT ![j].todo = left, ![j].inserted = i]
      BY <1>2, <1>3 DEF ImportIInv
    <2>2. [importer EXCEPT ![j].todo = left, ![j].inserted = i] = [importer EXCEPT ![j] = a]
      BY <1>4 DEF ImportIInv
    <2> QED
      BY <2>1, <2>2 DEF Ticked
  <1>8. ReadIsThere(a)'
    BY <1>1, <1>5 DEF JobIsSound, ReadIsThere, RowsStay
  <1>9. ReadIsTrue(a)'
    <2> SUFFICES ASSUME a.kind = "spoolman", a.alone PROVE ReadIsTrue(a)'
      BY DEF ReadIsTrue
    <2>1. /\ a.todo \subseteq SpoolColours /\ a.product = LastOf(ProductRows)
          /\ \A m \in SpoolColours \ d.todo : Named(colour, d.product, m) # {}
          /\ \A e \in 1..MaxColours : d.had[e].product # 0 =>
                /\ colour[e].product = d.had[e].product /\ colour[e].name = d.had[e].name
                /\ d.had[e].name \in d.todo => colour[e].value = d.had[e].value
      BY <1>3, <1>5 DEF JobIsSound, ReadIsTrue
    <2>2. LastOf(ProductRows)' = LastOf(ProductRows)
      BY DEF ProductRows
    <2>3. /\ row.product = d.product /\ row.name = n /\ row.product # 0
          /\ colour[c].product # 0 => row.product = colour[c].product /\ row.name = colour[c].name
      BY <1>5 DEF IsDoneWith, RowIsFor
    <2>4. DOMAIN colour = 1..MaxColours /\ DOMAIN colour' = 1..MaxColours
      BY <1>1 DEF ImportIInv, TablesAreTyped
    <2>5. ASSUME NEW m \in SpoolColours \ a.todo PROVE Named(colour, a.product, m)' # {}
      <3>1. CASE m = n
        <4>1. c \in Named(colour, a.product, m)'
          BY <1>1, <1>5, <2>3, <2>4, <3>1 DEF Named
        <4> QED
          BY <4>1
      <3>2. CASE m # n
        <4>1. PICK e \in 1..MaxColours : colour[e].product = d.product /\ colour[e].name = m
          BY <1>3, <1>5, <2>1, <2>4, <2>5, <3>2 DEF Named
        <4>2. e # c
          BY <1>5, <2>3, <3>2, <4>1
        <4>3. e \in Named(colour, a.product, m)'
          BY <1>1, <1>5, <2>4, <4>1, <4>2 DEF Named
        <4> QED
          BY <4>3
      <3> QED
        BY <3>1, <3>2
    <2>6. ASSUME NEW e \in 1..MaxColours, a.had[e].product # 0
          PROVE  /\ colour'[e].product = a.had[e].product /\ colour'[e].name = a.had[e].name
                 /\ a.had[e].name \in a.todo => colour'[e].value = a.had[e].value
      <3>1. CASE e = c
        <4>1. colour[c].product = d.had[c].product /\ d.had[c].product # 0
          BY <1>5, <2>1, <2>6, <3>1
        <4>2. colour'[c].product = d.had[c].product /\ colour'[c].name = d.had[c].name
          BY <1>1, <2>1, <2>3, <4>1
        <4>3. d.had[c].name \notin left
          BY <1>1, <1>3, <2>3, <4>2
        <4> QED
          BY <1>5, <3>1, <4>2, <4>3
      <3>2. CASE e # c
        BY <1>1, <1>3, <1>5, <2>1, <2>6, <3>2
      <3> QED
        BY <3>1, <3>2
    <2> QED
      BY <1>5, <2>1, <2>2, <2>5, <2>6 DEF ReadIsTrue
  <1>10. CalmInsertsNothing(a)'
    BY <1>2, <1>5 DEF JobIsSound, CalmInsertsNothing, IsDoneWith, Named
  <1>11. JobIsSound(a)'
    BY <1>5, <1>8, <1>9, <1>10 DEF JobIsSound
  <1>12. importer' \in [ImportJobs -> ImportRecords] /\ \A k \in ImportJobs : JobIsSound(importer[k])'
    BY <1>1, <1>6, <1>7, <1>11, WriterGoesOn
  <1> QED
    BY <1>1, <1>12 DEF ImportIInv, NothingIsTaken

\* A row that the job did not find.
LEMMA InsertOfImportIsSound ==
  ASSUME ImportIInv, NEW j \in ImportJobs, NEW n \in importer[j].todo, NEW row \in ColourTable,
         importer[j].step = "colours", InsertOfImport(j, n, row),
         row.product = importer[j].product, row.name = n,
         row.source = "ofd" =>
            \A e \in ColourRows : colour[e].source = "ofd" => colour[e].name # row.name,
         importer[j].kind = "spoolman" => Named(importer[j].had, importer[j].product, n) = {}
  PROVE  ImportIInv'
  <1>1. PICK d \in ImportRecords : d = importer[j] /\ JobIsSound(d)
    BY DEF ImportIInv
  <1>2. CASE ColourClash(j, n)
    BY <1>2, FailedImportIsSound DEF InsertOfImport
  <1>3. CASE ~ColourClash(j, n)
    <2>1. PICK c : c = NextColour
      OBVIOUS
    <2>2. /\ c <= MaxColours /\ colour' = [colour EXCEPT ![c] = row] /\ Ticked(j, n, TRUE)
          /\ settled' = FALSE /\ UNCHANGED <<madeBy, lost>>
      BY <1>3, <2>1 DEF InsertOfImport
    <2>3. c \in 1..MaxColours /\ colour[c].product = 0 /\ colour[c].source = "none"
      BY <2>1, <2>2, NextColourIsFree DEF ImportIInv, NoColour
    <2>4. row.product # 0 /\ n \in d.todo /\ d.step = "colours"
      BY <1>1 DEF JobIsSound
    <2>5. ASSUME d.kind = "spoolman", d.alone PROVE ~d.calm
      <3>1. n \in SpoolColours
        BY <1>1, <2>4, <2>5 DEF JobIsSound, ReadIsTrue
      <3>2. d.calm => Named(d.had, d.product, n) # {}
        BY <1>1, <2>4, <2>5, <3>1 DEF JobIsSound, CalmInsertsNothing
      <3> QED
        BY <1>1, <2>5, <3>2
    <2>6. lost' = {}
      BY <2>2 DEF ImportIInv, NothingIsTaken
    <2>7. RowIsFor(c, row)
      BY <1>1, <2>1, <2>2, <2>3, <2>4 DEF RowIsFor
    <2>8. IsDoneWith(d, n, TRUE, c, row)
      BY <1>1, <2>3, <2>5 DEF IsDoneWith
    <2>9. UNCHANGED madeBy
      BY <2>2
    <2> QED
      BY <1>1, <2>1, <2>2, <2>3, <2>4, <2>6, <2>7, <2>8, <2>9, ColourIsWritten
  <1> QED
    BY <1>2, <1>3

\* What is missing is filled, and nothing else changes.
LEMMA SpoolmanColourIsSound ==
  ASSUME ImportIInv, NEW j \in ImportJobs, NEW n \in Shades, SpoolmanColour(j, n)
  PROVE  ImportIInv'
  <1>0. MaxColours \in Nat /\ SpoolValue[n] \in Swatches \cup {Null}
    BY ImportParameters
  <1>1. PICK d \in ImportRecords : d = importer[j] /\ JobIsSound(d)
    BY DEF ImportIInv
  <1>2. PICK S : S = Named(d.had, d.product, n)
    OBVIOUS
  <1>3. PICK c : c = LastOf(S)
    OBVIOUS
  <1>4. d.kind = "spoolman" /\ d.step = "colours" /\ n \in d.todo /\ d.product # 0
    BY <1>1 DEF SpoolmanColour, JobIsSound
  <1>5. S \in SUBSET (1..MaxColours)
    BY <1>2 DEF Named, ImportRecords
  <1>6. (S = {} => c = 0) /\ (c # 0 => c \in S)
    BY <1>0, <1>3, <1>5, LastIsThere
  <1>7. CASE c = 0
    <2>1. PICK row : row = [product |-> d.product, name |-> n, source |-> "spoolman",
                            value |-> SpoolValue[n], mark |-> TRUE, links |-> {}]
      OBVIOUS
    <2>2. row \in ColourTable /\ row.source # "ofd" /\ row.product = d.product /\ row.name = n
      <3>1. row.product = d.product /\ row.source = "spoolman" /\ row.name = n
        BY <2>1
      <3>2. row \in ColourRecords
        BY <1>0, <2>1 DEF ColourRecords, ImportRecords
      <3> QED
        BY <1>4, <3>1, <3>2 DEF ColourTable
    <2>3. InsertOfImport(j, n, row)
      BY <1>1, <1>2, <1>3, <1>7, <2>1 DEF SpoolmanColour
    <2>4. S = {}
      BY <1>0, <1>3, <1>5, <1>7, LastIsThere
    <2> QED
      BY <1>1, <1>2, <1>4, <2>2, <2>3, <2>4, InsertOfImportIsSound
  <1>8. CASE c # 0
    <2>1. c \in 1..MaxColours /\ d.had[c].product = d.product /\ d.had[c].name = n
      BY <1>2, <1>5, <1>6, <1>8 DEF Named
    <2>2. PICK old \in ColourTable : old = colour[c]
      BY <2>1 DEF ImportIInv, TablesAreTyped
    <2>3. old.product # 0
      BY <1>1, <1>4, <2>1, <2>2 DEF JobIsSound, ReadIsThere
    <2>4. PICK v \in Swatches \cup {Null} : v = Fill(d.had[c].value, SpoolValue[n])
      BY <1>0, <2>1 DEF Fill, ImportRecords, ColourRecords
    <2>5. PICK row : row = [old EXCEPT !.value = v, !.mark = TRUE]
      OBVIOUS
    <2>6. /\ row.product = old.product /\ row.name = old.name /\ row.source = old.source
          /\ row.value = v /\ row.links = old.links
      BY <2>5 DEF ColourTable, ColourRecords
    <2>7. row \in ColourTable
      <3>1. row \in ColourRecords
        BY <2>4, <2>5 DEF ColourTable, ColourRecords
      <3> QED
        BY <2>3, <2>6, <3>1 DEF ColourTable
    <2>8. /\ colour' = [colour EXCEPT ![c] = row] /\ Ticked(j, n, FALSE) /\ settled' = FALSE
          /\ UNCHANGED madeBy
      BY <1>1, <1>2, <1>3, <1>8, <2>2, <2>4, <2>5 DEF SpoolmanColour
    <2>9. lost' = {}
      <3>1. lost' = IF d.alone /\ ((old.value # Null /\ row.value # old.value)
                                     \/ ~(old.links \subseteq row.links))
                    THEN lost \cup {c} ELSE lost
        BY <1>1, <1>2, <1>3, <1>8, <2>2, <2>4, <2>5 DEF SpoolmanColour
      <3>2. d.alone => old.value = d.had[c].value
        BY <1>1, <1>4, <2>1, <2>2 DEF JobIsSound, ReadIsTrue
      <3>3. d.alone /\ old.value # Null => v = old.value
        BY <2>4, <3>2 DEF Fill
      <3> QED
        BY <2>6, <3>1, <3>3 DEF ImportIInv, NothingIsTaken
    <2>10. RowIsFor(c, row)
      BY <2>2, <2>3, <2>6, <2>8 DEF RowIsFor
    <2>11. IsDoneWith(d, n, FALSE, c, row)
      <3>1. d.alone => old.product = d.product /\ old.name = n
        BY <1>1, <1>4, <2>1, <2>2 DEF JobIsSound, ReadIsTrue
      <3> QED
        BY <2>2, <2>6, <3>1 DEF IsDoneWith
    <2> QED
      BY <1>1, <1>4, <2>1, <2>7, <2>8, <2>9, <2>10, <2>11, ColourIsWritten
  <1> QED
    BY <1>7, <1>8

\* By uuid: the row that has it, or a new one.
LEMMA OfdColourIsSound ==
  ASSUME ImportIInv, NEW j \in ImportJobs, NEW n \in Shades, NEW value \in OfdValues[n],
         OfdColour(j, n, value)
  PROVE  ImportIInv'
  <1>0. MaxColours \in Nat /\ value \in Swatches \cup {Null}
    BY ImportParameters
  <1>1. PICK d \in ImportRecords : d = importer[j] /\ JobIsSound(d)
    BY DEF ImportIInv
  <1>2. PICK S : S = {e \in DOMAIN colour : d.had[e].source = "ofd" /\ d.had[e].name = n}
    OBVIOUS
  <1>3. d.kind = "ofd" /\ d.step = "colours" /\ n \in d.todo /\ d.product # 0
    BY <1>1 DEF OfdColour, JobIsSound
  <1>4. DOMAIN colour = 1..MaxColours /\ colour \in [1..MaxColours -> ColourTable]
    BY DEF ImportIInv, TablesAreTyped
  <1>5. PICK row : row = [product |-> d.product, name |-> n, source |-> "ofd",
                          value |-> value, mark |-> FALSE, links |-> {}]
    OBVIOUS
  <1>6. row \in ColourTable /\ row.source = "ofd" /\ row.product = d.product /\ row.name = n
    <2>1. row.product = d.product /\ row.source = "ofd" /\ row.name = n
      BY <1>5
    <2>2. row \in ColourRecords
      BY <1>0, <1>5 DEF ColourRecords, ImportRecords
    <2> QED
      BY <1>3, <2>1, <2>2 DEF ColourTable
  <1>7. CASE S # {}
    <2>1. PICK c : c = LastOf(S)
      OBVIOUS
    <2>2. c \in 1..MaxColours /\ d.had[c].source = "ofd" /\ d.had[c].name = n
      BY <1>0, <1>2, <1>4, <1>7, <2>1, LastIsThere
    <2>3. colour[c].source = "ofd" /\ colour[c].name = n
      BY <1>1, <1>3, <2>2 DEF JobIsSound, ReadIsThere
    <2>4. colour[c].product # 0
      BY <1>4, <2>2, <2>3 DEF ColourTable, NoColour
    <2>5. /\ colour' = [colour EXCEPT ![c] = row] /\ Ticked(j, n, FALSE) /\ settled' = FALSE
          /\ UNCHANGED <<madeBy, lost>>
      BY <1>1, <1>2, <1>5, <1>7, <2>1 DEF OfdColour
    <2>6. RowIsFor(c, row)
      BY <1>3, <1>6, <2>3, <2>4, <2>5 DEF RowIsFor
    <2>7. IsDoneWith(d, n, FALSE, c, row)
      BY <1>3 DEF IsDoneWith
    <2>8. lost' = {} /\ UNCHANGED madeBy
      BY <2>5 DEF ImportIInv, NothingIsTaken
    <2> QED
      BY <1>1, <1>3, <1>6, <2>2, <2>5, <2>6, <2>7, <2>8, ColourIsWritten
  <1>8. CASE S = {} /\ \E e \in ColourRows : colour[e].source = "ofd" /\ colour[e].name = n
    <2>1. StopsOrFails(j)
      BY <1>1, <1>2, <1>8 DEF OfdColour
    <2> QED
      BY <2>1, FailedImportIsSound
  <1>9. CASE S = {} /\ ~\E e \in ColourRows : colour[e].source = "ofd" /\ colour[e].name = n
    <2>1. InsertOfImport(j, n, row)
      BY <1>1, <1>2, <1>5, <1>9 DEF OfdColour
    <2>2. row.source = "ofd" =>
             \A e \in ColourRows : colour[e].source = "ofd" => colour[e].name # row.name
      BY <1>6, <1>9
    <2> QED
      BY <1>1, <1>3, <1>6, <2>1, <2>2, InsertOfImportIsSound
  <1> QED
    BY <1>7, <1>8, <1>9

LEMMA ImportJobStepIsSound ==
  ASSUME ImportIInv, NEW j \in ImportJobs, JobStep(j)
  PROVE  ImportIInv'
  <1>1. CASE StartOfd(j) \/ StartSpoolman(j)
    BY <1>1, StartIsSound
  <1>2. CASE WriteProduct(j, "ofd") \/ WriteProduct(j, "spoolman")
    BY <1>2, WriteProductIsSound
  <1>3. CASE \E n \in Shades : SpoolmanColour(j, n) \/ \E v \in OfdValues[n] : OfdColour(j, n, v)
    BY <1>3, SpoolmanColourIsSound, OfdColourIsSound
  <1>4. CASE Finish(j)
    BY <1>4, FinishIsSound
  <1>5. CASE Stop(j)
    BY <1>5, FailedImportIsSound DEF Stop
  <1>6. CASE Again(j)
    <2>1. settled' \in BOOLEAN /\ SettledIsComplete'
      BY <1>6, SettledStays DEF Again
    <2> QED
      BY <1>6, <2>1, StoppedImportIsSound DEF Again
  <1> QED
    BY <1>1, <1>2, <1>3, <1>4, <1>5, <1>6 DEF JobStep

LEMMA ImportStepIsSound == ImportIInv /\ [ImportNext]_importVars => ImportIInv'
  <1> SUFFICES ASSUME ImportIInv, [ImportNext]_importVars PROVE ImportIInv'
      OBVIOUS
  <1>1. CASE VisitorProduct
    BY <1>1, VisitorProductIsSound
  <1>2. CASE \E p \in 1..MaxProducts, n \in Shades : VisitorColour(p, n)
    BY <1>2, VisitorColourIsSound
  <1>3. CASE \E c \in 1..MaxColours, l \in ShopLinks : AddLink(c, l)
    BY <1>3, AddLinkIsSound
  <1>4. CASE \E j \in ImportJobs : JobStep(j)
    BY <1>4, ImportJobStepIsSound
  <1>5. CASE UNCHANGED importVars
    <2>1. UNCHANGED <<madeBy, colour, importer, settled, lost>>
      BY <1>5 DEF importVars
    <2>2. settled' \in BOOLEAN /\ SettledIsComplete'
      BY <2>1, SettledStays
    <2>3. TablesAreTyped' /\ OneRowForEach' /\ NothingIsTaken'
      BY <2>1 DEF ImportIInv, TablesAreTyped, OneRowForEach, NothingIsTaken, ColourRows
    <2>4. \A j \in ImportJobs : JobIsSound(importer[j])'
      <3> SUFFICES ASSUME NEW j \in ImportJobs PROVE JobIsSound(importer[j])'
        OBVIOUS
      <3>1. PICK a \in ImportRecords : a = importer[j] /\ a = importer'[j] /\ JobIsSound(a)
        BY <2>1 DEF ImportIInv
      <3>2. JobIsSound(a)'
        BY <2>1, <3>1 DEF JobIsSound, ReadIsThere, ReadIsTrue, CalmInsertsNothing, ProductRows, Named
      <3> QED
        BY <3>1, <3>2
    <2> QED
      BY <2>1, <2>2, <2>3, <2>4 DEF ImportIInv
  <1> QED
    BY <1>1, <1>2, <1>3, <1>4, <1>5 DEF ImportNext

\* However the jobs and the visitors interleave, and wherever a job stops, importing
\* again neither loses what is there nor doubles it.
THEOREM ImportAlwaysIsSound == ImportSpec => []ImportIsSound
  <1>1. ImportIInv => ImportIsSound
    <2> SUFFICES ASSUME ImportIInv PROVE ImportIsSound
      OBVIOUS
    <2>1. AgainInsertsNothing
      BY DEF ImportIInv, JobIsSound, CalmInsertsNothing, AgainInsertsNothing
    <2> QED
      BY <2>1 DEF ImportIInv, ImportIsSound
  <1> QED
    BY <1>1, ImportInitIsSound, ImportStepIsSound, PTL DEF ImportSpec

-----------------------------------------------------------------------------
(* RfidForm: the fields of a spool, on a tag and in a slicer.              *)

\* A set of numbers has a least one.
LEMMA LowestIs ==
  ASSUME NEW T \in SUBSET Nat, T # {}
  PROVE  \E n \in T : \A m \in T : n <= m
  <1>1. PICK n \in T : \A m \in T : ~(<<m, n>> \in OpToRel(<, Nat))
    BY NatLessThanWellFounded, WFMin
  <1>2. ASSUME NEW m \in T PROVE n <= m
    <2>1. ~(m < n)
      BY <1>1 DEF OpToRel
    <2> QED
      BY <2>1
  <1> QED
    BY <1>1, <1>2

\* Every entry holds what its fields may.
EntrySet == [material : Fields.material, colour : Fields.colour, weight : Fields.weight,
             serial : Fields.serial, uid : Fields.uid]

\* Every request holds what was on the page when it was pressed.
AskedAreOfPage ==
    /\ entry \in EntrySet
    /\ \A r \in asked : r.entry \in EntrySet /\ OnPage(r.entry)
    /\ \A q, r \in asked : q.what = "write" /\ r.what = "write" => q = r
    /\ busy \in BOOLEAN /\ (busy <=> \E r \in asked : r.what = "write")

\* A tag holds what the site makes of its entry, a preset what it resolves to.
WrittenIsOfSite ==
    \A w \in written : /\ w.entry \in EntrySet /\ OnPage(w.entry)
                       /\ w.text = Site(w.entry) /\ Site(w.entry) # Refused
InstalledIsResolved ==
    \A i \in installed : i.profile = ProfileFor(i.entry) /\ ProfileFor(i.entry) # Refused

FormIInv == AskedAreOfPage /\ WrittenIsOfSite /\ InstalledIsResolved

LEMMA FormInitIsSound == RfidInit => FormIInv
  <1> SUFFICES ASSUME RfidInit PROVE FormIInv
    OBVIOUS
  <1>1. (CHOOSE c \in Codes : TRUE) \in Codes /\ (CHOOSE w \in Weights : TRUE) \in Weights
    BY RfidParameters
  <1>2. [i \in 1..SerialLength |-> One] \in Fields.serial
    <2>1. SerialLength \in 0..SerialLength + 1
      BY RfidParameters
    <2>2. [i \in 1..SerialLength |-> One] \in [1..SerialLength -> {Zero, One, Odd}]
      OBVIOUS
    <2>3. Fields.serial = UNION {[1..n -> {Zero, One, Odd}] : n \in 0..SerialLength + 1}
      BY DEF Fields
    <2> QED
      BY <2>1, <2>2, <2>3
  <1>3. Usual.material \in Fields.material /\ Usual.weight \in Fields.weight
    BY <1>1 DEF Usual, Fields
  <1>4. Usual.colour \in Fields.colour /\ Usual.uid \in Fields.uid
    BY RfidParameters DEF Usual, Fields
  <1>5. Usual.serial \in Fields.serial
    BY <1>2 DEF Usual
  <1>6. Usual = [material |-> Usual.material, colour |-> Usual.colour, weight |-> Usual.weight,
                 serial |-> Usual.serial, uid |-> Usual.uid]
    BY DEF Usual
  <1>7. Usual \in EntrySet
    BY <1>3, <1>4, <1>5, <1>6 DEF EntrySet
  <1> QED
    BY <1>7 DEF RfidInit, FormIInv, AskedAreOfPage, WrittenIsOfSite, InstalledIsResolved

LEMMA EditKeepsEntry ==
  ASSUME entry \in EntrySet, NEW f \in DOMAIN Fields, NEW v \in Fields[f]
  PROVE  [entry EXCEPT ![f] = v] \in EntrySet
  <1>1. f \in {"material", "colour", "weight", "serial", "uid"}
    BY DEF Fields
  <1> DEFINE Types == Fields
  <1>2. v \in Types[f]
    OBVIOUS
  <1> HIDE DEF Types
  <1>3. entry \in [material : Types.material, colour : Types.colour, weight : Types.weight,
                   serial : Types.serial, uid : Types.uid]
    BY DEF EntrySet, Types
  <1>4. [entry EXCEPT ![f] = v]
          \in [material : Types.material, colour : Types.colour, weight : Types.weight,
               serial : Types.serial, uid : Types.uid]
    BY <1>1, <1>2, <1>3
  <1> QED
    BY <1>4 DEF EntrySet, Types

LEMMA FormStepIsSound == FormIInv /\ [RfidNext]_rfidVars => FormIInv'
  <1> SUFFICES ASSUME FormIInv, [RfidNext]_rfidVars PROVE FormIInv'
    OBVIOUS
  <1> USE DEF FormIInv, AskedAreOfPage, WrittenIsOfSite, InstalledIsResolved
  <1>1. ASSUME NEW f \in DOMAIN Fields, NEW v \in Fields[f], EditField(f, v) PROVE FormIInv'
    BY <1>1, EditKeepsEntry DEF EditField
  <1>2. ASSUME NEW what, NEW blocks \in BOOLEAN, Press(what, blocks), OnPage(entry),
               blocks <=> what = "write", blocks => ~busy
        PROVE  FormIInv'
    <2> DEFINE q == [what |-> what, entry |-> entry, no |-> asks]
    <2>1. /\ asked' = asked \cup {q} /\ busy' = (busy \/ blocks)
          /\ UNCHANGED <<entry, written, installed>>
      BY <1>2 DEF Press
    <2>2. q.what = what /\ q.entry = entry
      OBVIOUS
    <2> HIDE DEF q
    <2>3. \A r \in asked' : r.entry \in EntrySet /\ OnPage(r.entry)
      BY <1>2, <2>1, <2>2
    <2>4. \A p, r \in asked' : p.what = "write" /\ r.what = "write" => p = r
      BY <1>2, <2>1, <2>2
    <2>5. busy' \in BOOLEAN /\ (busy' <=> \E r \in asked' : r.what = "write")
      BY <1>2, <2>1, <2>2
    <2>6. WrittenIsOfSite' /\ InstalledIsResolved'
      BY <2>1
    <2> QED
      BY <2>1, <2>3, <2>4, <2>5, <2>6
  <1>3. CASE PressEncode \/ PressResolve \/ PressSimulate \/ PressInstall
    BY <1>2, <1>3 DEF PressEncode, PressResolve, PressSimulate, PressInstall
  <1>4. CASE PressWrite
    BY <1>2, <1>4 DEF PressWrite
  <1>5. ASSUME NEW r \in asked, AnswerEncode(r) \/ AnswerSimulate(r) \/ AnswerResolve(r)
        PROVE  FormIInv'
    BY <1>5 DEF AnswerEncode, AnswerSimulate, AnswerResolve, Shows
  <1>6. ASSUME NEW r \in asked, AnswerInstall(r) PROVE FormIInv'
    BY <1>6 DEF AnswerInstall, Shows
  <1>7. ASSUME NEW r \in asked, AnswerWrite(r) PROVE FormIInv'
    <2>1. AskedAreOfPage' /\ InstalledIsResolved'
      BY <1>7 DEF AnswerWrite, Shows
    <2>2. WrittenIsOfSite'
      <3>1. CASE Site(r.entry) = Refused
        BY <1>7, <3>1 DEF AnswerWrite
      <3>2. CASE Site(r.entry) # Refused
        <4> DEFINE w == [entry |-> r.entry, text |-> Site(r.entry)]
        <4>1. written' = written \cup {w}
          BY <1>7, <3>2 DEF AnswerWrite
        <4>2. w.entry = r.entry /\ w.text = Site(r.entry)
          OBVIOUS
        <4> HIDE DEF w
        <4> QED
          BY <1>7, <3>2, <4>1, <4>2
      <3> QED
        BY <3>1, <3>2
    <2> QED
      BY <2>1, <2>2
  <1>8. ASSUME NEW r \in asked, Fails(r) PROVE FormIInv'
    BY <1>8 DEF Fails, Shows
  <1>9. CASE UNCHANGED rfidVars
    BY <1>9 DEF rfidVars
  <1> QED
    BY <1>1, <1>3, <1>4, <1>5, <1>6, <1>7, <1>8, <1>9 DEF RfidNext

\* What is not refused is the text, and nothing in it is.
LEMMA WholeIs ==
  ASSUME NEW text, Whole(text) # Refused
  PROVE  Whole(text) = text /\ \A f \in DOMAIN text : text[f] # Refused
  BY DEF Whole

\* What the site puts on a tag, and the helper.
LEMMA SiteIs ==
  ASSUME NEW e, Site(e) # Refused
  PROVE  /\ Site(e) = [material |-> Material(e.material, SiteNames),
                       colour |-> [hex |-> TRUE, of |-> e.colour.of], length |-> e.weight.of,
                       serial |-> Padded(Clean(e.serial)), key |-> SiteKey(e.uid),
                       date |-> "today"]
         /\ e.colour.hex /\ Material(e.material, SiteNames) # Refused
  <1> DEFINE text == [material |-> Material(e.material, SiteNames), colour |-> SiteColour(e.colour),
                      length |-> SiteLength(e.weight), serial |-> SiteField(e.serial),
                      key |-> SiteKey(e.uid), date |-> "today"]
  <1>1. Site(e) = Whole(text)
    BY DEF Site
  <1>2. Site(e) = text /\ \A f \in DOMAIN text : text[f] # Refused
    BY <1>1, WholeIs
  <1>3. /\ text.material # Refused /\ text.colour # Refused /\ text.serial # Refused
    BY <1>2
  <1>4. text.colour = [hex |-> TRUE, of |-> e.colour.of] /\ e.colour.hex
    BY <1>3 DEF SiteColour
  <1>5. text.serial = Padded(Clean(e.serial)) /\ text.length = e.weight.of
    BY <1>3 DEF SiteField, SiteLength
  <1> QED
    BY <1>2, <1>3, <1>4, <1>5

LEMMA HelperIs ==
  ASSUME NEW e, Helper(e) # Refused, e.colour.hex = TRUE
  PROVE  /\ Helper(e) = [material |-> Material(e.material, HelperNames),
                         colour |-> [hex |-> TRUE, of |-> e.colour.of], length |-> e.weight.of,
                         serial |-> Padded(Clean(e.serial)), key |-> "key", date |-> "fixed"]
         /\ e.uid = "plain" /\ Material(e.material, HelperNames) # Refused
  <1> DEFINE text == [material |-> Material(e.material, HelperNames),
                      colour |-> HelperColour(e.colour), length |-> HelperLength(e.weight),
                      serial |-> HelperField(e.serial), key |-> HelperKey(e.uid),
                      date |-> "fixed"]
  <1>1. Helper(e) = Whole(text)
    BY DEF Helper
  <1>2. Helper(e) = text /\ \A f \in DOMAIN text : text[f] # Refused
    BY <1>1, WholeIs
  <1>3. /\ text.material # Refused /\ text.colour # Refused /\ text.length # Refused
        /\ text.key # Refused
    BY <1>2
  <1>4. text.colour = [hex |-> TRUE, of |-> e.colour.of]
    BY <1>3 DEF HelperColour
  <1>5. text.length = e.weight.of
    BY <1>3 DEF HelperLength
  <1>6. text.serial = Padded(Clean(e.serial))
    BY DEF HelperField
  <1>7. text.key = "key" /\ e.uid = "plain"
    BY <1>3 DEF HelperKey
  <1> QED
    BY <1>2, <1>3, <1>4, <1>5, <1>6, <1>7

LEMMA DatedIs ==
  ASSUME NEW text, NEW date,
         text = [material |-> text.material, colour |-> text.colour, length |-> text.length,
                 serial |-> text.serial, key |-> text.key, date |-> text.date]
  PROVE  [text EXCEPT !.date = date] =
            [material |-> text.material, colour |-> text.colour, length |-> text.length,
             serial |-> text.serial, key |-> text.key, date |-> date]
  <1> DEFINE new == [text EXCEPT !.date = date]
  <1>1. DOMAIN text = {"material", "colour", "length", "serial", "key", "date"}
    OBVIOUS
  <1>2. /\ DOMAIN new = {"material", "colour", "length", "serial", "key", "date"}
        /\ new = [f \in DOMAIN new |-> new[f]]
    BY <1>1
  <1>3. /\ new.material = text.material /\ new.colour = text.colour /\ new.length = text.length
        /\ new.serial = text.serial /\ new.key = text.key /\ new.date = date
    BY <1>1
  <1> HIDE DEF new
  <1>4. new = [material |-> text.material, colour |-> text.colour, length |-> text.length,
               serial |-> text.serial, key |-> text.key, date |-> date]
    BY <1>2, <1>3
  <1> QED
    BY <1>4 DEF new

LEMMA EncodersDoAgree ==
  ASSUME entry \in EntrySet PROVE EncodersAgree
  <1> SUFFICES ASSUME Site(entry) # Refused, Helper(entry) # Refused
               PROVE  [Site(entry) EXCEPT !.date = "fixed"] = Helper(entry)
    BY DEF EncodersAgree
  <1>1. entry.colour.hex = TRUE
    <2>1. entry.colour.hex \in BOOLEAN
      BY DEF EntrySet, Fields
    <2> QED
      BY <2>1, SiteIs
  <1>2. Material(entry.material, SiteNames) = Material(entry.material, HelperNames)
    BY <1>1, SiteIs, HelperIs DEF Material
  <1>3. SiteKey(entry.uid) = "key"
    BY <1>1, HelperIs DEF SiteKey
  <1> DEFINE text(date) ==
               [material |-> Material(entry.material, HelperNames),
                colour |-> [hex |-> TRUE, of |-> entry.colour.of], length |-> entry.weight.of,
                serial |-> Padded(Clean(entry.serial)), key |-> "key", date |-> date]
  <1>4. Site(entry) = text("today")
    BY <1>2, <1>3, SiteIs
  <1>5. Helper(entry) = text("fixed")
    BY <1>1, HelperIs
  <1>6. [text("today") EXCEPT !.date = "fixed"] = text("fixed")
    <2> DEFINE t == text("today")
    <2>1. /\ t = [material |-> t.material, colour |-> t.colour, length |-> t.length,
                  serial |-> t.serial, key |-> t.key, date |-> t.date]
          /\ text("fixed") = [material |-> t.material, colour |-> t.colour,
                              length |-> t.length, serial |-> t.serial, key |-> t.key,
                              date |-> "fixed"]
      OBVIOUS
    <2> HIDE DEF t
    <2>2. [t EXCEPT !.date = "fixed"] = text("fixed")
      BY <2>1, DatedIs
    <2> QED
      BY <2>2 DEF t
  <1> HIDE DEF text
  <1> QED
    BY <1>4, <1>5, <1>6

LEMMA SpoolsAreApart == WrittenIsOfSite => SpoolsAreToldApart
  <1> SUFFICES ASSUME WrittenIsOfSite, NEW v \in written, NEW w \in written, v.text = w.text
               PROVE  /\ v.entry.material = w.entry.material /\ v.entry.colour.of = w.entry.colour.of
                      /\ v.entry.weight = w.entry.weight
                      /\ Padded(Clean(v.entry.serial)) = Padded(Clean(w.entry.serial))
    BY DEF SpoolsAreToldApart
  <1>1. /\ v.entry \in EntrySet /\ w.entry \in EntrySet /\ OnPage(v.entry) /\ OnPage(w.entry)
        /\ Site(v.entry) = Site(w.entry) /\ Site(v.entry) # Refused /\ Site(w.entry) # Refused
    BY DEF WrittenIsOfSite
  <1>2. /\ Material(v.entry.material, SiteNames) = Material(w.entry.material, SiteNames)
        /\ v.entry.colour.of = w.entry.colour.of /\ v.entry.weight.of = w.entry.weight.of
        /\ Padded(Clean(v.entry.serial)) = Padded(Clean(w.entry.serial))
    <2> DEFINE text(e) == [material |-> Material(e.material, SiteNames),
                           colour |-> [hex |-> TRUE, of |-> e.colour.of], length |-> e.weight.of,
                           serial |-> Padded(Clean(e.serial)), key |-> SiteKey(e.uid),
                           date |-> "today"]
    <2>1. text(v.entry) = text(w.entry)
      BY <1>1, SiteIs
    <2>2. /\ text(v.entry).material = text(w.entry).material
          /\ text(v.entry).colour.of = text(w.entry).colour.of
          /\ text(v.entry).length = text(w.entry).length
          /\ text(v.entry).serial = text(w.entry).serial
      BY <2>1
    <2> QED
      BY <2>2
  <1>3. \A e \in EntrySet : OnPage(e) =>
          /\ e.material = [form |-> "code", of |-> e.material.of]
          /\ e.weight = [of |-> e.weight.of, number |-> FALSE]
          /\ Material(e.material, SiteNames) = e.material.of
    <2> SUFFICES ASSUME NEW e \in EntrySet, OnPage(e)
                 PROVE  /\ e.material = [form |-> "code", of |-> e.material.of]
                        /\ e.weight = [of |-> e.weight.of, number |-> FALSE]
                        /\ Material(e.material, SiteNames) = e.material.of
      OBVIOUS
    <2>1. e.material \in [form : {"code", "generic", "name"}, of : Codes]
      BY DEF EntrySet, Fields
    <2>2. e.weight \in [of : Weights, number : BOOLEAN]
      BY DEF EntrySet, Fields
    <2>3. e.material.form = "code" /\ e.weight.number = FALSE
      BY <2>2 DEF OnPage
    <2> QED
      BY <2>1, <2>2, <2>3 DEF Material
  <1> QED
    BY <1>1, <1>2, <1>3

LEMMA TagIsAsShown == WrittenIsOfSite => WrittenAsShown
  <1> SUFFICES ASSUME WrittenIsOfSite, NEW w \in written, w.entry.colour.form # "0"
               PROVE  w.text.colour.of = Displayed(w.entry.colour).of
    BY DEF WrittenAsShown
  <1>1. /\ w.entry \in EntrySet /\ OnPage(w.entry) /\ w.text = Site(w.entry)
        /\ w.text.colour.of = w.entry.colour.of /\ w.entry.colour.hex
    BY SiteIs DEF WrittenIsOfSite
  <1>2. w.entry.colour \in Fields.colour
    BY <1>1 DEF EntrySet
  <1>3. w.entry.colour.form = "#"
    BY <1>1, <1>2 DEF OnPage, Fields
  <1> QED
    BY <1>1, <1>3 DEF Displayed

LEMMA OneWriteIsOn == AskedAreOfPage => OneWriteAtATime
  <1> SUFFICES ASSUME AskedAreOfPage PROVE OneWriteAtATime
    OBVIOUS
  <1> DEFINE W == {r \in asked : r.what = "write"}
  <1>1. CASE W = {}
    BY <1>1, FS_EmptySet DEF OneWriteAtATime, AskedAreOfPage
  <1>2. CASE W # {}
    <2>1. PICK r \in W : TRUE
      BY <1>2
    <2>2. W = {r}
      BY <2>1 DEF AskedAreOfPage
    <2>3. Cardinality({r}) = 1
      BY FS_Singleton
    <2>4. Cardinality(W) <= 1
      BY <2>2, <2>3
    <2> QED
      BY <2>4 DEF OneWriteAtATime, AskedAreOfPage
  <1> QED
    BY <1>1, <1>2

LEMMA InstalledDoFit == InstalledIsResolved => InstalledFits
  <1> SUFFICES ASSUME InstalledIsResolved, NEW i \in installed
               PROVE  \E n \in DOMAIN Mappings :
                         /\ Mappings[n].material = i.entry.material.of
                         /\ \/ Mappings[n].colour \in {AnyColour, i.entry.colour.of}
                            \/ i.entry.colour.form = "none"
                         /\ \E k \in DOMAIN PrintProfiles[Mappings[n].variant] :
                               PrintProfiles[Mappings[n].variant][k] = i.profile
    BY DEF InstalledFits
  <1> DEFINE e == i.entry
             n == CHOOSE n \in Hits(e) : \A m \in Hits(e) : n <= m
  <1>1. i.profile = ProfileFor(e) /\ ProfileFor(e) # Refused
    BY DEF InstalledIsResolved
  <1>2. Hits(e) # {} /\ Resolved(e) = Mappings[n].variant
    BY <1>1 DEF ProfileFor, Resolved
  <1>3. n \in Hits(e)
    <2>1. Hits(e) \in SUBSET Nat
      BY RfidParameters DEF Hits
    <2>2. \E k \in Hits(e) : \A m \in Hits(e) : k <= m
      BY <1>2, <2>1, LowestIs
    <2> QED
      BY <2>2
  <1> HIDE DEF n
  <1>4. n \in DOMAIN Mappings /\ Maps(Mappings[n], e)
    BY <1>3 DEF Hits
  <1>5. PrintProfiles[Resolved(e)] # << >> /\ i.profile = PrintProfiles[Resolved(e)][1]
    BY <1>1 DEF ProfileFor
  <1>6. Mappings[n].variant \in DOMAIN PrintProfiles
    <2> DEFINE Rows == [material : Codes, colour : Colours \cup {AnyColour},
                        variant : DOMAIN PrintProfiles]
    <2>1. Mappings \in Seq(Rows)
      BY RfidParameters
    <2>2. Mappings[n] \in Rows
      <3> HIDE DEF Rows
      <3> QED
        BY <2>1, <1>4
    <2> QED
      BY <2>2
  <1>7. 1 \in DOMAIN PrintProfiles[Mappings[n].variant]
    BY <1>2, <1>5, <1>6, RfidParameters
  <1>8. /\ Mappings[n].material = e.material.of
        /\ Mappings[n].colour \in {AnyColour, e.colour.of} \/ e.colour.form = "none"
    BY <1>4 DEF Maps
  <1> QED
    BY <1>2, <1>4, <1>5, <1>7, <1>8

LEMMA FormIsSound == FormIInv => TagsAreSound
  BY EncodersDoAgree, SpoolsAreApart, TagIsAsShown, OneWriteIsOn, InstalledDoFit
     DEF FormIInv, AskedAreOfPage, TagsAreSound

\* What a Creality tag holds ...
THEOREM TagsAreAlwaysSound == RfidSpec => []TagsAreSound
  <1>1. RfidSpec => []FormIInv
    BY FormInitIsSound, FormStepIsSound, PTL DEF RfidSpec
  <1> QED
    BY <1>1, FormIsSound, PTL

-----------------------------------------------------------------------------
(* OpenPrintTag: what is encoded, read as the standards read it.           *)

\* Two functions that begin alike and go on alike are alike.
GoAlike(n, f, g) ==
  n \in Nat /\ f[0] = g[0] /\ \A k \in 1..n : f[k - 1] = g[k - 1] => f[k] = g[k]

LEMMA AlikeSoFar ==
  ASSUME NEW n, NEW f, NEW g, GoAlike(n, f, g)
  PROVE  \A k \in 0..n : f[k] = g[k]
  <1> n \in Nat /\ f[0] = g[0] /\ \A k \in 1..n : f[k - 1] = g[k - 1] => f[k] = g[k]
    BY DEF GoAlike
  <1> DEFINE Unlike == {k \in 0..n : f[k] # g[k]}
  <1>1. SUFFICES ASSUME Unlike # {} PROVE FALSE
    OBVIOUS
  <1>2. PICK k \in Unlike : \A m \in Unlike : k <= m
    <2>1. Unlike \in SUBSET Nat
      OBVIOUS
    <2> HIDE DEF Unlike
    <2> QED
      BY <1>1, <2>1, LowestIs
  <1>3. k \in 1..n
    BY <1>2
  <1>4. k - 1 \in 0..n /\ ~(k <= k - 1)
    BY <1>3
  <1>5. f[k - 1] = g[k - 1]
    BY <1>2, <1>4
  <1> QED
    BY <1>2, <1>3, <1>5

\* What is made step by step: from base, by step[1], step[2], up to step[n].
IsSteps(n, S, base, step) == n \in Nat /\ base \in S /\ step \in [1..n -> [S -> S]]
IsMade(n, S, base, step, f) ==
  f \in [0..n -> S] /\ f[0] = base /\ \A k \in 1..n : f[k] = step[k][f[k - 1]]

\* It exists.
LEMMA StepsExist ==
  ASSUME NEW n, NEW S, NEW base, NEW step, IsSteps(n, S, base, step)
  PROVE  \E f : IsMade(n, S, base, step, f)
  <1> n \in Nat /\ base \in S /\ step \in [1..n -> [S -> S]]
    BY DEF IsSteps
  <1> DEFINE Makes(f, m) == /\ f \in [0..m -> S] /\ f[0] = base
                            /\ \A k \in 1..m : f[k] = step[k][f[k - 1]]
             Unmade == {m \in 0..n : ~ \E f : Makes(f, m)}
  <1>1. Unmade = {}
    <2>1. SUFFICES ASSUME Unmade # {} PROVE FALSE
      OBVIOUS
    <2>2. PICK m \in Unmade : \A l \in Unmade : m <= l
      <3>1. Unmade \in SUBSET Nat
        OBVIOUS
      <3> HIDE DEF Unmade
      <3> QED
        BY <2>1, <3>1, LowestIs
    <2>3. m \in 0..n /\ \A f : ~Makes(f, m)
      BY <2>2
    <2>4. m # 0
      <3>1. Makes([k \in 0..0 |-> base], 0)
        OBVIOUS
      <3> HIDE DEF Makes
      <3> QED
        BY <2>3, <3>1
    <2>5. PICK f : Makes(f, m - 1)
      <3>1. m - 1 \in 0..n /\ ~(m <= m - 1)
        BY <2>3, <2>4
      <3> QED
        BY <2>2, <3>1
    <2>6. f \in [0..(m - 1) -> S] /\ f[0] = base
          /\ \A k \in 1..(m - 1) : f[k] = step[k][f[k - 1]]
      BY <2>5
    <2> DEFINE last == step[m][f[m - 1]]
               g == [k \in 0..m |-> IF k = m THEN last ELSE f[k]]
    <2>7. last \in S
      BY <2>3, <2>4, <2>6
    <2>8. g \in [0..m -> S] /\ g[0] = base
      <3> HIDE DEF last
      <3> QED
        BY <2>3, <2>4, <2>6, <2>7
    <2>9. ASSUME NEW k \in 1..m PROVE g[k] = step[k][g[k - 1]]
      <3>1. k - 1 \in 0..m /\ k - 1 # m /\ g[k - 1] = f[k - 1] /\ k \in 0..m
        BY <2>3, <2>9
      <3>2. CASE k = m
        BY <3>1, <3>2
      <3>3. CASE k # m
        <4>1. k \in 1..(m - 1) /\ g[k] = f[k]
          BY <2>3, <2>9, <3>3
        <4> QED
          BY <2>6, <3>1, <4>1
      <3> QED
        BY <3>2, <3>3
    <2> HIDE DEF g
    <2> QED
      BY <2>3, <2>8, <2>9
  <1>2. n \in 0..n
    OBVIOUS
  <1>3. PICK f : Makes(f, n)
    <2> HIDE DEF Makes
    <2> QED
      BY <1>1, <1>2
  <1> QED
    BY <1>3 DEF IsMade

\* The pieces of a sequence, put together one after the other.
IsAhead(E, pieces, f) ==
  /\ f \in [0..Len(pieces) -> Seq(E)] /\ f[0] = << >>
  /\ \A k \in 1..Len(pieces) : f[k] = f[k - 1] \o pieces[k]

\* What is left of them, down to nothing.
IsBehind(E, pieces, rest) ==
  /\ rest \in [0..Len(pieces) -> Seq(E)] /\ rest[Len(pieces)] = << >>
  /\ \A k \in 1..Len(pieces) : rest[k - 1] = pieces[k] \o rest[k]

LEMMA AheadExists ==
  ASSUME NEW E, NEW pieces, pieces \in Seq(Seq(E))
  PROVE  \E f : IsAhead(E, pieces, f)
  <1> DEFINE n == Len(pieces)
             ahead == [k \in 1..n |-> [x \in Seq(E) |-> x \o pieces[k]]]
  <1>1. n \in Nat /\ << >> \in Seq(E) /\ \A k \in 1..n : pieces[k] \in Seq(E)
    OBVIOUS
  <1>2. ahead \in [1..n -> [Seq(E) -> Seq(E)]]
    BY <1>1
  <1>3. PICK f : IsMade(n, Seq(E), << >>, ahead, f)
    <2>1. IsSteps(n, Seq(E), << >>, ahead)
      BY <1>1, <1>2 DEF IsSteps
    <2> HIDE DEF n, ahead
    <2> QED
      BY <2>1, StepsExist, Zenon
  <1>4. /\ f \in [0..n -> Seq(E)] /\ f[0] = << >>
        /\ \A k \in 1..n : f[k] = ahead[k][f[k - 1]]
    <2> HIDE DEF n, ahead
    <2> QED
      BY <1>3 DEF IsMade
  <1>5. ASSUME NEW k \in 1..n PROVE f[k] = f[k - 1] \o pieces[k]
    <2>1. k - 1 \in 0..n
      BY <1>1
    <2>2. f[k - 1] \in Seq(E)
      BY <1>4, <2>1
    <2> QED
      BY <1>1, <1>4, <2>1, <2>2
  <1> QED
    BY <1>4, <1>5 DEF IsAhead

LEMMA BehindExists ==
  ASSUME NEW E, NEW pieces, pieces \in Seq(Seq(E))
  PROVE  \E rest : IsBehind(E, pieces, rest)
  <1> DEFINE n == Len(pieces)
             behind == [k \in 1..n |-> [x \in Seq(E) |-> pieces[n + 1 - k] \o x]]
  <1>1. n \in Nat /\ << >> \in Seq(E) /\ \A k \in 1..n : pieces[k] \in Seq(E)
    OBVIOUS
  <1>2. behind \in [1..n -> [Seq(E) -> Seq(E)]]
    <2>1. \A k \in 1..n : n + 1 - k \in 1..n
      BY <1>1
    <2> QED
      BY <1>1, <2>1
  <1>3. PICK r : IsMade(n, Seq(E), << >>, behind, r)
    <2>1. IsSteps(n, Seq(E), << >>, behind)
      BY <1>1, <1>2 DEF IsSteps
    <2> HIDE DEF n, behind
    <2> QED
      BY <2>1, StepsExist, Zenon
  <1>4. /\ r \in [0..n -> Seq(E)] /\ r[0] = << >>
        /\ \A k \in 1..n : r[k] = behind[k][r[k - 1]]
    <2> HIDE DEF n, behind
    <2> QED
      BY <1>3 DEF IsMade
  <1>5. ASSUME NEW k \in 1..n PROVE r[k] = pieces[n + 1 - k] \o r[k - 1]
    <2>1. k - 1 \in 0..n
      BY <1>1
    <2>2. r[k - 1] \in Seq(E)
      BY <1>4, <2>1
    <2> QED
      BY <1>1, <1>4, <2>1, <2>2
  <1> DEFINE rest == [k \in 0..n |-> r[n - k]]
  <1> HIDE DEF behind
  <1>6. rest \in [0..n -> Seq(E)] /\ rest[n] = << >>
    <2>1. n - n = 0 /\ n \in 0..n /\ \A k \in 0..n : n - k \in 0..n
      BY <1>1
    <2> QED
      BY <1>4, <2>1
  <1>7. ASSUME NEW k \in 1..n PROVE rest[k - 1] = pieces[k] \o rest[k]
    <2>1. /\ k - 1 \in 0..n /\ k \in 0..n /\ n + 1 - k \in 1..n
          /\ n + 1 - (n + 1 - k) = k /\ (n + 1 - k) - 1 = n - k /\ n - (k - 1) = n + 1 - k
      BY <1>1, <1>7
    <2>2. r[n + 1 - k] = pieces[k] \o r[n - k]
      BY <1>5, <2>1
    <2>3. rest[k - 1] = r[n + 1 - k] /\ rest[k] = r[n - k]
      BY <2>1
    <2> QED
      BY <2>2, <2>3
  <1> HIDE DEF rest
  <1> QED
    BY <1>6, <1>7 DEF IsBehind

\* Both come to the same.
LEMMA AheadIsBehind ==
  ASSUME NEW E, NEW pieces, pieces \in Seq(Seq(E)), NEW f, IsAhead(E, pieces, f),
         NEW rest, IsBehind(E, pieces, rest)
  PROVE  f[Len(pieces)] = rest[0]
  <1> DEFINE n == Len(pieces)
             whole == [k \in 0..n |-> f[k] \o rest[k]]
             same == [k \in 0..n |-> whole[0]]
  <1>1. n \in Nat /\ \A k \in 1..n : pieces[k] \in Seq(E)
    OBVIOUS
  <1>2. /\ f \in [0..n -> Seq(E)] /\ f[0] = << >>
        /\ rest \in [0..n -> Seq(E)] /\ rest[n] = << >>
        /\ \A k \in 1..n : f[k] = f[k - 1] \o pieces[k] /\ rest[k - 1] = pieces[k] \o rest[k]
    BY DEF IsAhead, IsBehind
  <1> HIDE DEF n
  <1>3. ASSUME NEW k \in 1..n PROVE whole[k - 1] = whole[k]
    <2>1. k - 1 \in 0..n /\ k \in 0..n
      BY <1>1, <1>3
    <2>2. /\ f[k - 1] \in Seq(E) /\ pieces[k] \in Seq(E) /\ rest[k] \in Seq(E)
          /\ f[k] = f[k - 1] \o pieces[k] /\ rest[k - 1] = pieces[k] \o rest[k]
      BY <1>1, <1>2, <1>3, <2>1
    <2>3. (f[k - 1] \o pieces[k]) \o rest[k] = f[k - 1] \o (pieces[k] \o rest[k])
      <3> SUFFICES ASSUME NEW a \in Seq(E), NEW b \in Seq(E), NEW c \in Seq(E)
                   PROVE  (a \o b) \o c = a \o (b \o c)
        BY <2>2
      <3> QED
        BY ConcatAssociative
    <2>4. whole[k - 1] = f[k - 1] \o rest[k - 1] /\ whole[k] = f[k] \o rest[k]
      BY <2>1
    <2> HIDE DEF whole
    <2> QED
      BY <2>2, <2>3, <2>4
  <1>4. whole[0] = f[0] \o rest[0] /\ whole[n] = f[n] \o rest[n]
    <2>1. 0 \in 0..n /\ n \in 0..n
      BY <1>1
    <2> QED
      BY <2>1, Zenon
  <1> HIDE DEF whole
  <1>5. whole[n] = whole[0]
    <2>1. \A k \in 0..n : same[k] = whole[0]
      OBVIOUS
    <2> HIDE DEF same
    <2>2. 0 \in 0..n /\ n \in 0..n
      BY <1>1
    <2>3. \A k \in 1..n : whole[k - 1] = same[k - 1] => whole[k] = same[k]
      <3> TAKE k \in 1..n
      <3>1. k - 1 \in 0..n /\ k \in 0..n
        BY <1>1
      <3> QED
        BY <1>3, <2>1, <3>1
    <2>4. \A k \in 0..n : whole[k] = same[k]
      <3>1. GoAlike(n, whole, same)
        BY <1>1, <2>1, <2>2, <2>3 DEF GoAlike
      <3> QED
        BY <3>1, AlikeSoFar
    <2> QED
      BY <2>1, <2>2, <2>4
  <1>6. f[n] \in Seq(E) /\ rest[0] \in Seq(E)
    BY <1>1, <1>2
  <1>7. f[n] \o << >> = f[n] /\ << >> \o rest[0] = rest[0]
    <2> SUFFICES ASSUME NEW a \in Seq(E), NEW b \in Seq(E)
                 PROVE  a \o << >> = a /\ << >> \o b = b
      BY <1>6
    <2> QED
      BY ConcatEmptySeq
  <1> QED
    BY <1>2, <1>4, <1>5, <1>7 DEF n

LEMMA FlattenIsAhead ==
  ASSUME NEW E, NEW pieces, pieces \in Seq(Seq(E)), NEW f, IsAhead(E, pieces, f)
  PROVE  FlattenSeq(pieces) = f[Len(pieces)]
  <1> DEFINE n == Len(pieces)
             Flat(g) == g = [i \in 1..n |-> IF i = 1 THEN pieces[i] ELSE g[i - 1] \o pieces[i]]
             flat == CHOOSE g : Flat(g)
             first == [i \in 1..n |-> f[i]]
             late == [i \in 0..n |-> IF i = 0 THEN << >> ELSE flat[i]]
  <1>1. n \in Nat /\ \A k \in 1..n : pieces[k] \in Seq(E)
    OBVIOUS
  <1>2. /\ f \in [0..n -> Seq(E)] /\ f[0] = << >>
        /\ \A k \in 1..n : f[k] = f[k - 1] \o pieces[k]
    BY DEF IsAhead
  <1>3. n = 0 => FlattenSeq(pieces) = << >>
    <2>1. n = 0 => pieces = << >>
      OBVIOUS
    <2> QED
      BY <2>1 DEF FlattenSeq
  <1>4. n # 0 => FlattenSeq(pieces) = flat[n]
    BY DEF FlattenSeq
  <1> HIDE DEF n
  <1>5. 1 \in 1..n => << >> \o pieces[1] = pieces[1]
    <2> SUFFICES ASSUME NEW b \in Seq(E) PROVE << >> \o b = b
      BY <1>1
    <2> QED
      BY ConcatEmptySeq
  <1>6. Flat(first)
    <2>1. \A i \in 1..n : first[i] = f[i]
      OBVIOUS
    <2>2. ASSUME NEW i \in 1..n
          PROVE  first[i] = IF i = 1 THEN pieces[i] ELSE first[i - 1] \o pieces[i]
      <3>1. f[i] = f[i - 1] \o pieces[i] /\ first[i] = f[i]
        BY <1>2, <2>1
      <3>2. i # 1 => i - 1 \in 1..n
        BY <1>1, <2>2
      <3>3. i = 1 => f[i - 1] = << >>
        BY <1>2
      <3> HIDE DEF first
      <3> QED
        BY <1>5, <2>1, <3>1, <3>2, <3>3
    <2>3. first = [i \in 1..n |-> first[i]]
      OBVIOUS
    <2> HIDE DEF first
    <2> QED
      BY <2>2, <2>3
  <1>7. Flat(flat)
    <2> HIDE DEF Flat, first
    <2> QED
      BY <1>6
  <1> HIDE DEF flat
  <1>8. \A i \in 1..n : flat[i] = IF i = 1 THEN pieces[i] ELSE flat[i - 1] \o pieces[i]
    BY <1>7
  <1>9. late[0] = << >> /\ \A i \in 1..n : late[i] = flat[i]
    BY <1>1
  <1> HIDE DEF Flat, late, first
  <1>10. ASSUME NEW i \in 1..n, late[i - 1] = f[i - 1] PROVE late[i] = f[i]
    <2>1. late[i] = flat[i] /\ f[i] = f[i - 1] \o pieces[i]
      BY <1>2, <1>9, <1>10
    <2>2. CASE i = 1
      <3>1. f[i - 1] = << >>
        BY <1>2, <2>2
      <3> QED
        BY <1>5, <1>8, <2>1, <2>2, <3>1
    <2>3. CASE i # 1
      <3>1. i - 1 \in 1..n
        BY <1>1, <2>3
      <3>2. flat[i - 1] = f[i - 1]
        BY <1>9, <1>10, <3>1
      <3> QED
        BY <1>8, <2>1, <2>3, <3>2
    <2> QED
      BY <2>2, <2>3
  <1>11. \A i \in 0..n : late[i] = f[i]
    <2>1. GoAlike(n, late, f)
      BY <1>1, <1>2, <1>9, <1>10 DEF GoAlike
    <2> QED
      BY <2>1, AlikeSoFar
  <1>12. CASE n = 0
    BY <1>2, <1>3, <1>12 DEF n
  <1>13. CASE n # 0
    <2>1. n \in 0..n /\ n \in 1..n
      BY <1>1, <1>13
    <2>2. flat[n] = f[n]
      BY <1>9, <1>11, <2>1
    <2> QED
      BY <1>4, <1>13, <2>2 DEF n
  <1> QED
    BY <1>12, <1>13

\* The pieces of a sequence, put together, are the first and what is left of them.
LEMMA FlattenIs ==
  ASSUME NEW E, NEW pieces, pieces \in Seq(Seq(E))
  PROVE  \E rest : IsBehind(E, pieces, rest) /\ rest[0] = FlattenSeq(pieces)
  <1>1. PICK f : IsAhead(E, pieces, f)
    BY AheadExists
  <1>2. PICK rest : IsBehind(E, pieces, rest)
    BY BehindExists
  <1>3. f[Len(pieces)] = rest[0] /\ FlattenSeq(pieces) = f[Len(pieces)]
    BY <1>1, <1>2, AheadIsBehind, FlattenIsAhead
  <1> QED
    BY <1>2, <1>3

\* A byte, as it stands on the tag.
AByte == [kind : {"byte"}, is : Int]

\* What is said of a type and a value in four ways, by its first byte.
LEMMA FirstByteIs ==
  ASSUME NEW type \in Nat, NEW info \in 0..31
  PROVE  (type * 32 + info) \div 32 = type /\ (type * 32 + info) % 32 = info
  BY SMT

LEMMA TwoBytesAre ==
  ASSUME NEW value \in Nat
  PROVE  (value \div 256) * 256 + (value % 256) = value
  BY SMT

LEMMA FourBytesAre ==
  ASSUME NEW value \in Nat
  PROVE  (((value \div 16777216) * 256 + ((value \div 65536) % 256)) * 256
             + ((value \div 256) % 256)) * 256 + (value % 256) = value
  <1>1. value = (value \div 256) * 256 + (value % 256)
    BY TwoBytesAre
  <1>2. /\ value \div 256 \in Nat
        /\ value \div 256 = ((value \div 256) \div 256) * 256 + ((value \div 256) % 256)
    BY TwoBytesAre
  <1>3. (value \div 256) \div 256 = value \div 65536
    BY SMT
  <1>4. /\ value \div 65536 \in Nat
        /\ value \div 65536 = ((value \div 65536) \div 256) * 256 + ((value \div 65536) % 256)
    BY TwoBytesAre
  <1>5. (value \div 65536) \div 256 = value \div 16777216
    BY SMT
  <1> QED
    BY <1>1, <1>2, <1>3, <1>4, <1>5

LEMMA MajorHeadIs ==
  ASSUME NEW type \in 0..6, NEW value \in Nat, NEW numbers,
         \A i \in 1..Len(MajorHead(type, value)) : numbers[i] = MajorHead(type, value)[i]
  PROVE  /\ MajorHead(type, value) \in Seq(Int) /\ MajorHead(type, value) # << >>
         /\ Len(MajorHead(type, value)) \in 1..5
         /\ ReadNumbers(numbers) = [type |-> type, value |-> value,
                                    takes |-> Len(MajorHead(type, value))]
  <1> DEFINE m == MajorHead(type, value)
  <1>1. CASE value < 24
    <2>1. m = <<type * 32 + value>>
      BY <1>1 DEF MajorHead
    <2>2. numbers[1] = type * 32 + value /\ Len(m) = 1
      BY <2>1
    <2>3. numbers[1] \div 32 = type /\ numbers[1] % 32 = value
      BY <1>1, <2>2, FirstByteIs
    <2>4. ReadNumbers(numbers) = [type |-> type, value |-> value, takes |-> 1]
      BY <1>1, <2>3 DEF ReadNumbers
    <2> QED
      BY <2>1, <2>2, <2>4
  <1>2. CASE value >= 24 /\ value <= 255
    <2>1. m = <<type * 32 + 24, value>>
      BY <1>2 DEF MajorHead
    <2>2. numbers[1] = type * 32 + 24 /\ numbers[2] = value /\ Len(m) = 2
      BY <2>1
    <2>3. numbers[1] \div 32 = type /\ numbers[1] % 32 = 24
      BY <2>2, FirstByteIs
    <2>4. ReadNumbers(numbers) = [type |-> type, value |-> value, takes |-> 2]
      BY <2>2, <2>3 DEF ReadNumbers
    <2> QED
      BY <1>2, <2>1, <2>2, <2>4
  <1>3. CASE value > 255 /\ value <= 65535
    <2>1. m = <<type * 32 + 25, value \div 256, value % 256>>
      BY <1>3 DEF MajorHead
    <2>2. numbers[1] = type * 32 + 25 /\ numbers[2] = value \div 256
          /\ numbers[3] = value % 256 /\ Len(m) = 3
      BY <2>1
    <2>3. numbers[1] \div 32 = type /\ numbers[1] % 32 = 25
      BY <2>2, FirstByteIs
    <2>4. numbers[2] * 256 + numbers[3] = value
      BY <2>2, TwoBytesAre
    <2>5. ReadNumbers(numbers) = [type |-> type, value |-> value, takes |-> 3]
      BY <2>3, <2>4 DEF ReadNumbers
    <2> QED
      BY <2>1, <2>2, <2>5
  <1>4. CASE value > 65535
    <2>1. m = <<type * 32 + 26, value \div 16777216, (value \div 65536) % 256,
                (value \div 256) % 256, value % 256>>
      BY <1>4 DEF MajorHead
    <2>2. numbers[1] = type * 32 + 26 /\ numbers[2] = value \div 16777216
          /\ numbers[3] = (value \div 65536) % 256
          /\ numbers[4] = (value \div 256) % 256 /\ numbers[5] = value % 256 /\ Len(m) = 5
      BY <2>1
    <2>3. numbers[1] \div 32 = type /\ numbers[1] % 32 = 26
      BY <2>2, FirstByteIs
    <2>4. ((numbers[2] * 256 + numbers[3]) * 256 + numbers[4]) * 256 + numbers[5] = value
      BY <2>2, FourBytesAre
    <2>5. ReadNumbers(numbers) = [type |-> type, value |-> value, takes |-> 5]
      BY <2>3, <2>4 DEF ReadNumbers
    <2> QED
      BY <2>1, <2>2, <2>5
  <1> QED
    BY <1>1, <1>2, <1>3, <1>4

\* Numbers that say a type and a value, and no more.
SaysOf(m, type, value) ==
  /\ m \in Seq(Int) /\ m # << >> /\ Len(m) \in 1..5
  /\ \A numbers : (\A i \in 1..Len(m) : numbers[i] = m[i])
        => ReadNumbers(numbers) = [type |-> type, value |-> value, takes |-> Len(m)]

LEMMA MajorSays ==
  ASSUME NEW type \in 0..6, NEW value \in Nat
  PROVE  SaysOf(MajorHead(type, value), type, value)
  <1>1. \A i \in 1..Len(MajorHead(type, value)) :
           MajorHead(type, value)[i] = MajorHead(type, value)[i]
    OBVIOUS
  <1>2. /\ MajorHead(type, value) \in Seq(Int) /\ MajorHead(type, value) # << >>
        /\ Len(MajorHead(type, value)) \in 1..5
    BY <1>1, MajorHeadIs
  <1>3. ASSUME NEW numbers,
               \A i \in 1..Len(MajorHead(type, value)) : numbers[i] = MajorHead(type, value)[i]
        PROVE  ReadNumbers(numbers) = [type |-> type, value |-> value,
                                       takes |-> Len(MajorHead(type, value))]
    BY <1>3, MajorHeadIs
  <1> QED
    BY <1>2, <1>3 DEF SaysOf

\* What comes before is read alone; the rest is left.
LEMMA BytesAreRead ==
  ASSUME NEW E, AByte \subseteq E, NEW rest \in Seq(E), NEW m, NEW type, NEW value,
         SaysOf(m, type, value)
  PROVE  /\ Bytes(m) \in Seq(E)
         /\ Readable(Bytes(m) \o rest)
         /\ ReadHead(Bytes(m) \o rest) = [type |-> type, value |-> value, rest |-> rest]
  <1> DEFINE b == Bytes(m)
             s == b \o rest
             numbers == [i \in 1..5 |-> IF i <= Len(s) /\ s[i].kind = "byte" THEN s[i].is ELSE 0]
  <1>1. m \in Seq(Int) /\ m # << >> /\ Len(m) \in 1..5
    BY DEF SaysOf
  <1>2. b \in Seq(E) /\ Len(b) = Len(m)
        /\ \A i \in 1..Len(m) : b[i] = [kind |-> "byte", is |-> m[i]]
    <2>1. b = [i \in 1..Len(m) |-> [kind |-> "byte", is |-> m[i]]]
      BY <1>1 DEF Bytes
    <2>2. \A i \in 1..Len(m) : [kind |-> "byte", is |-> m[i]] \in E
      BY <1>1 DEF AByte
    <2> HIDE DEF b
    <2> QED
      BY <1>1, <2>1, <2>2
  <1> HIDE DEF b
  <1>3. /\ s \in Seq(E) /\ Len(s) = Len(b) + Len(rest)
        /\ \A i \in 1..Len(b) : s[i] = b[i]
    BY <1>2
  <1>5. SubSeq(s, Len(b) + 1, Len(s)) = rest
    BY <1>2
  <1> HIDE DEF s
  <1>a. /\ s # << >> /\ Len(m) \in Nat /\ Len(s) \in Nat
        /\ \A i \in 1..Len(m) : i \in 1..5 /\ i <= Len(s) /\ s[i] = [kind |-> "byte", is |-> m[i]]
    <2>1. Len(b) \in 1..5 /\ Len(s) \in Nat /\ Len(rest) \in Nat
      BY <1>1, <1>2, <1>3
    <2>2. \A i \in 1..Len(m) : i \in 1..Len(b) /\ i \in 1..5 /\ i <= Len(s)
      BY <1>2, <1>3, <2>1
    <2>3. s # << >>
      <3>1. Len(s) > 0
        <4>1. Len(s) = Len(b) + Len(rest)
          BY <1>3
        <4> HIDE DEF numbers
        <4> QED
          BY <2>1, <4>1
      <3>2. Len(<< >>) = 0
        OBVIOUS
      <3> QED
        BY <3>1, <3>2
    <2> QED
      BY <1>2, <1>3, <2>1, <2>2, <2>3
  <1>4. Readable(s)
    <2>1. s[1] = [kind |-> "byte", is |-> m[1]]
      BY <1>1, <1>a
    <2> QED
      BY <1>a, <2>1 DEF Readable
  <1>6. \A i \in 1..Len(m) : numbers[i] = m[i]
    <2> TAKE i \in 1..Len(m)
    <2>1. i \in 1..5 /\ i <= Len(s) /\ s[i].kind = "byte" /\ s[i].is = m[i]
      <3>1. i \in 1..5 /\ i <= Len(s) /\ s[i] = [kind |-> "byte", is |-> m[i]]
        BY <1>a
      <3> HIDE DEF numbers
      <3> QED
        BY <3>1
    <2>2. numbers[i] = IF i <= Len(s) /\ s[i].kind = "byte" THEN s[i].is ELSE 0
      BY <2>1, Zenon
    <2> QED
      BY <2>1, <2>2
  <1>7. ReadHead(s) = [type |-> ReadNumbers(numbers).type, value |-> ReadNumbers(numbers).value,
                       rest |-> SubSeq(s, ReadNumbers(numbers).takes + 1, Len(s))]
    BY DEF ReadHead
  <1> HIDE DEF numbers
  <1>8. ReadNumbers(numbers) = [type |-> type, value |-> value, takes |-> Len(m)]
    BY <1>6 DEF SaysOf
  <1>9. ReadHead(s) = [type |-> type, value |-> value, rest |-> rest]
    <2> DEFINE h == ReadNumbers(numbers)
    <2>1. h.type = type /\ h.value = value /\ h.takes = Len(m)
      BY <1>8
    <2>2. ReadHead(s) = [type |-> h.type, value |-> h.value, rest |-> SubSeq(s, h.takes + 1, Len(s))]
      BY <1>7
    <2> HIDE DEF h
    <2> QED
      BY <1>2, <1>5, <2>1, <2>2
  <1> QED
    BY <1>2, <1>4, <1>9 DEF s, b

LEMMA HeadIs ==
  ASSUME NEW E, AByte \subseteq E, NEW rest \in Seq(E), NEW type \in 0..6, NEW value \in Nat
  PROVE  /\ Major(type, value) \in Seq(E)
         /\ Readable(Major(type, value) \o rest)
         /\ ReadHead(Major(type, value) \o rest) = [type |-> type, value |-> value, rest |-> rest]
  <1> DEFINE m == MajorHead(type, value)
  <1>1. SaysOf(m, type, value) /\ Major(type, value) = Bytes(m)
    BY MajorSays DEF Major
  <1> HIDE DEF m
  <1> QED
    BY <1>1, BytesAreRead

\* An item that is no list: its bytes, and a text or a number of eight bytes, are E's.
IsPlain(E, v) ==
  \/ v.kind = "text" /\ v \in E /\ v.bytes \in Nat
  \/ \E n \in Int : v = Number(n)
  \/ v = CborNull
  \/ v.kind = "float" /\ v \in E

\* One that is read leaves what comes after it.
LEMMA PlainIs ==
  ASSUME NEW E, AByte \subseteq E, NEW rest \in Seq(E), NEW v, IsPlain(E, v)
  PROVE  /\ Plain(v) \in Seq(E)
         /\ Readable(Plain(v) \o rest) /\ ReadHead(Plain(v) \o rest).type # 4
         /\ ReadPlain(Plain(v) \o rest) = [item |-> v, rest |-> rest]
  <1> DEFINE after == <<v>> \o rest
  <1>1. ASSUME v \in E
        PROVE  /\ after \in Seq(E) /\ after # << >> /\ after[1] = v /\ Tail(after) = rest
               /\ \A b \in Seq(E) : b \o <<v>> \in Seq(E) /\ (b \o <<v>>) \o rest = b \o after
    <2>1. <<v>> \in Seq(E) /\ Len(<<v>>) = 1 /\ <<v>>[1] = v
      BY <1>1
    <2>2. after \in Seq(E) /\ Len(after) = 1 + Len(rest) /\ after[1] = v
      BY <2>1
    <2>3. ASSUME NEW b \in Seq(E) PROVE (b \o <<v>>) \o rest = b \o (<<v>> \o rest)
      <3> SUFFICES ASSUME NEW one \in Seq(E) PROVE (b \o one) \o rest = b \o (one \o rest)
        BY <2>1
      <3> QED
        BY ConcatAssociative
    <2>4. Tail(after) = rest
      BY <2>1, <2>2
    <2>5. after # << >>
      <3>1. Len(after) > 0 /\ Len(<< >>) = 0
        BY <2>2
      <3> QED
        BY <3>1
    <2> QED
      BY <2>1, <2>2, <2>3, <2>4, <2>5
  <1> HIDE DEF after
  <1>2. CASE v.kind = "text" /\ v \in E /\ v.bytes \in Nat
    <2> DEFINE b == Major(3, v.bytes)
               s == b \o after
    <2>1. /\ b \in Seq(E) /\ Readable(s)
          /\ ReadHead(s) = [type |-> 3, value |-> v.bytes, rest |-> after]
      <3> DEFINE n == v.bytes
      <3>1. n \in Nat /\ after \in Seq(E) /\ 3 \in 0..6
        BY <1>1, <1>2
      <3> HIDE DEF n
      <3>2. /\ Major(3, n) \in Seq(E) /\ Readable(Major(3, n) \o after)
            /\ ReadHead(Major(3, n) \o after) = [type |-> 3, value |-> n, rest |-> after]
        BY <3>1, HeadIs
      <3> QED
        BY <3>2 DEF n
    <2>2. Plain(v) = b \o <<v>>
      BY <1>2 DEF Plain
    <2> HIDE DEF b
    <2>3. Plain(v) \in Seq(E) /\ Plain(v) \o rest = s
      BY <1>1, <1>2, <2>1, <2>2
    <2> HIDE DEF s
    <2>4. ReadHead(s).type = 3 /\ ReadHead(s).value = v.bytes /\ ReadHead(s).rest = after
      BY <2>1
    <2>5. ReadPlain(s) = [item |-> v, rest |-> rest]
      <3> DEFINE h == ReadHead(s)
      <3>1. /\ h.type # 0 /\ h.type # 1 /\ h.type # 7 /\ h.type = 3 /\ h.rest # << >>
            /\ h.rest[1] = v /\ Tail(h.rest) = rest /\ h.value = v.bytes
        BY <1>1, <1>2, <2>4
      <3> HIDE DEF h
      <3> QED
        BY <1>2, <2>1, <3>1, Zenon DEF ReadPlain, h
    <2> QED
      BY <2>1, <2>3, <2>4, <2>5
  <1>3. CASE \E n \in Int : v = Number(n)
    <2>1. PICK n \in Int : v = Number(n)
      BY <1>3
    <2>2. v.kind = "number" /\ v.is = n
      BY <2>1 DEF Number
    <2>3. CASE n >= 0
      <3> DEFINE s == Major(0, n) \o rest
      <3>1. /\ Major(0, n) \in Seq(E) /\ Readable(s)
            /\ ReadHead(s) = [type |-> 0, value |-> n, rest |-> rest]
        BY <2>3, HeadIs
      <3>2. Plain(v) = Major(0, n)
        BY <2>2, <2>3 DEF Plain
      <3> HIDE DEF s
      <3>3. ReadHead(s).type = 0 /\ ReadHead(s).value = n /\ ReadHead(s).rest = rest
        BY <3>1
      <3>4. ReadPlain(s) = [item |-> v, rest |-> rest]
        BY <2>1, <3>1, <3>3 DEF ReadPlain
      <3> QED
        BY <3>1, <3>2, <3>3, <3>4 DEF s
    <2>4. CASE n < 0
      <3> DEFINE m == -n - 1
                 s == Major(1, m) \o rest
      <3>1. m \in Nat /\ -1 - m = n
        BY <2>4
      <3>2. Plain(v) = Major(1, m)
        BY <2>2, <2>4 DEF Plain
      <3> HIDE DEF m
      <3>3. /\ Major(1, m) \in Seq(E) /\ Readable(s)
            /\ ReadHead(s) = [type |-> 1, value |-> m, rest |-> rest]
        BY <3>1, HeadIs
      <3> HIDE DEF s
      <3>4. ReadHead(s).type = 1 /\ ReadHead(s).value = m /\ ReadHead(s).rest = rest
        BY <3>3
      <3>5. ReadPlain(s) = [item |-> v, rest |-> rest]
        BY <2>1, <3>1, <3>3, <3>4 DEF ReadPlain
      <3> QED
        BY <3>2, <3>3, <3>4, <3>5 DEF s
    <2> QED
      BY <2>3, <2>4
  <1>4. CASE v = CborNull
    <2> DEFINE m == <<246>>
               s == Bytes(m) \o rest
    <2>1. SaysOf(m, 7, 22)
      <3>1. m \in Seq(Int) /\ m # << >> /\ Len(m) = 1 /\ m[1] = 246
        OBVIOUS
      <3>2. ASSUME NEW numbers, \A i \in 1..Len(m) : numbers[i] = m[i]
            PROVE  ReadNumbers(numbers) = [type |-> 7, value |-> 22, takes |-> Len(m)]
        <4>1. numbers[1] = 246
          BY <3>1, <3>2
        <4>2. 246 \div 32 = 7 /\ 246 % 32 = 22
          BY FirstByteIs
        <4> QED
          BY <3>1, <4>1, <4>2 DEF ReadNumbers
      <3> QED
        BY <3>1, <3>2 DEF SaysOf
    <2>2. Plain(v) = Bytes(m)
      BY <1>4 DEF Plain, CborNull
    <2> HIDE DEF m
    <2>3. /\ Bytes(m) \in Seq(E) /\ Readable(s)
          /\ ReadHead(s) = [type |-> 7, value |-> 22, rest |-> rest]
      BY <2>1, BytesAreRead
    <2> HIDE DEF s
    <2>4. ReadHead(s).type = 7 /\ ReadHead(s).value = 22 /\ ReadHead(s).rest = rest
      BY <2>3
    <2>5. ReadPlain(s) = [item |-> v, rest |-> rest]
      BY <1>4, <2>3, <2>4 DEF ReadPlain
    <2> QED
      BY <2>2, <2>3, <2>4, <2>5 DEF s
  <1>5. CASE v.kind = "float" /\ v \in E
    <2> DEFINE m == <<251>>
               s == Bytes(m) \o after
    <2>1. SaysOf(m, 7, 27)
      <3>1. m \in Seq(Int) /\ m # << >> /\ Len(m) = 1 /\ m[1] = 251
        OBVIOUS
      <3>2. ASSUME NEW numbers, \A i \in 1..Len(m) : numbers[i] = m[i]
            PROVE  ReadNumbers(numbers) = [type |-> 7, value |-> 27, takes |-> Len(m)]
        <4>1. numbers[1] = 251
          BY <3>1, <3>2
        <4>2. 251 \div 32 = 7 /\ 251 % 32 = 27
          BY FirstByteIs
        <4> QED
          BY <3>1, <4>1, <4>2 DEF ReadNumbers
      <3> QED
        BY <3>1, <3>2 DEF SaysOf
    <2>2. Plain(v) = Bytes(m) \o <<v>>
      BY <1>5 DEF Plain
    <2> HIDE DEF m
    <2>3. /\ Bytes(m) \in Seq(E) /\ Readable(s)
          /\ ReadHead(s) = [type |-> 7, value |-> 27, rest |-> after]
      BY <1>1, <1>5, <2>1, BytesAreRead
    <2>4. Plain(v) \in Seq(E) /\ Plain(v) \o rest = s
      BY <1>1, <1>5, <2>2, <2>3
    <2> HIDE DEF s
    <2>5. ReadHead(s).type = 7 /\ ReadHead(s).value = 27 /\ ReadHead(s).rest = after
      BY <2>3
    <2>6. ReadPlain(s) = [item |-> v, rest |-> rest]
      <3> DEFINE h == ReadHead(s)
      <3>1. /\ h.type # 0 /\ h.type # 1 /\ h.type # 3 /\ h.type = 7 /\ h.rest # << >>
            /\ h.rest[1] = v /\ Tail(h.rest) = rest /\ h.value = 27 /\ h.value # 22
        BY <1>1, <1>5, <2>5
      <3> HIDE DEF h
      <3> QED
        BY <1>5, <2>3, <3>1, Zenon DEF ReadPlain, h
    <2> QED
      BY <2>3, <2>4, <2>5, <2>6
  <1> QED
    BY <1>2, <1>3, <1>4, <1>5 DEF IsPlain

\* A sequence, one element after the other.
LEMMA PrefixGrows ==
  ASSUME NEW S, NEW of \in Seq(S)
  PROVE  /\ SubSeq(of, 1, 0) = << >> /\ SubSeq(of, 1, Len(of)) = of
         /\ \A k \in 1..Len(of) : SubSeq(of, 1, k) = Append(SubSeq(of, 1, k - 1), of[k])
  <1>1. Len(of) \in Nat /\ SubSeq(of, 1, 0) = << >> /\ SubSeq(of, 1, Len(of)) = of
    OBVIOUS
  <1>2. ASSUME NEW k \in 1..Len(of)
        PROVE  SubSeq(of, 1, k) = Append(SubSeq(of, 1, k - 1), of[k])
    <2>1. k \in Nat /\ k - 1 \in Nat /\ k <= Len(of)
      BY <1>1
    <2>2. /\ SubSeq(of, 1, k) \in Seq(S) /\ Len(SubSeq(of, 1, k)) = k
          /\ \A i \in 1..k : SubSeq(of, 1, k)[i] = of[i]
      BY <1>1, <2>1
    <2>3. /\ SubSeq(of, 1, k - 1) \in Seq(S) /\ Len(SubSeq(of, 1, k - 1)) = k - 1
          /\ \A i \in 1..(k - 1) : SubSeq(of, 1, k - 1)[i] = of[i]
      BY <1>1, <2>1
    <2> DEFINE grown == Append(SubSeq(of, 1, k - 1), of[k])
    <2>4. /\ grown \in Seq(S) /\ Len(grown) = k /\ grown[k] = of[k]
          /\ \A i \in 1..(k - 1) : grown[i] = SubSeq(of, 1, k - 1)[i]
      <3>1. of[k] \in S
        OBVIOUS
      <3> DEFINE before == SubSeq(of, 1, k - 1)
      <3>2. before \in Seq(S) /\ Len(before) = k - 1
        BY <2>3
      <3> HIDE DEF before
      <3>3. /\ Append(before, of[k]) \in Seq(S) /\ Len(Append(before, of[k])) = (k - 1) + 1
            /\ Append(before, of[k])[(k - 1) + 1] = of[k]
            /\ \A i \in 1..(k - 1) : Append(before, of[k])[i] = before[i]
        BY <2>1, <3>1, <3>2
      <3>4. (k - 1) + 1 = k
        BY <2>1
      <3>5. /\ Append(before, of[k]) \in Seq(S) /\ Len(Append(before, of[k])) = k
            /\ Append(before, of[k])[k] = of[k]
            /\ \A i \in 1..(k - 1) : Append(before, of[k])[i] = before[i]
        BY <3>3, <3>4
      <3> QED
        BY <3>5, Zenon DEF before
    <2> HIDE DEF grown
    <2>5. \A i \in 1..k : SubSeq(of, 1, k)[i] = grown[i]
      BY <2>1, <2>2, <2>3, <2>4
    <2>6. SubSeq(of, 1, k) = grown
      BY <2>2, <2>4, <2>5
    <2> QED
      BY <2>6 DEF grown
  <1> QED
    BY <1>1, <1>2

\* What is left of pieces that are put together, with what comes after them.
IsLeft(E, pieces, rest, left) ==
  /\ left \in [0..Len(pieces) -> Seq(E)]
  /\ left[0] = FlattenSeq(pieces) \o rest /\ left[Len(pieces)] = rest
  /\ \A k \in 1..Len(pieces) : left[k - 1] = pieces[k] \o left[k]

LEMMA LeftIs ==
  ASSUME NEW E, NEW pieces, pieces \in Seq(Seq(E)), NEW rest \in Seq(E)
  PROVE  /\ FlattenSeq(pieces) \in Seq(E)
         /\ \E left : IsLeft(E, pieces, rest, left)
  <1> DEFINE n == Len(pieces)
  <1>1. n \in Nat /\ \A k \in 1..n : pieces[k] \in Seq(E)
    OBVIOUS
  <1>2. PICK own : IsBehind(E, pieces, own) /\ own[0] = FlattenSeq(pieces)
    BY FlattenIs
  <1>3. /\ own \in [0..n -> Seq(E)] /\ own[n] = << >>
        /\ \A k \in 1..n : own[k - 1] = pieces[k] \o own[k]
    BY <1>2 DEF IsBehind
  <1> HIDE DEF n
  <1> DEFINE left == [k \in 0..n |-> own[k] \o rest]
  <1>4. \A k \in 0..n : left[k] = own[k] \o rest
    OBVIOUS
  <1>5. left \in [0..n -> Seq(E)]
    BY <1>3
  <1> HIDE DEF left
  <1>6. 0 \in 0..n /\ n \in 0..n
    BY <1>1
  <1>7. left[n] = rest
    <2>1. left[n] = << >> \o rest
      BY <1>3, <1>4, <1>6
    <2>2. << >> \o rest = rest
      BY ConcatEmptySeq
    <2> QED
      BY <2>1, <2>2
  <1>8. ASSUME NEW k \in 1..n PROVE left[k - 1] = pieces[k] \o left[k]
    <2>1. k - 1 \in 0..n /\ k \in 0..n
      BY <1>1, <1>8
    <2>2. pieces[k] \in Seq(E) /\ own[k] \in Seq(E) /\ own[k - 1] = pieces[k] \o own[k]
      BY <1>1, <1>3, <2>1
    <2>3. (pieces[k] \o own[k]) \o rest = pieces[k] \o (own[k] \o rest)
      <3> SUFFICES ASSUME NEW a \in Seq(E), NEW b \in Seq(E)
                   PROVE  (a \o b) \o rest = a \o (b \o rest)
        BY <2>2
      <3> QED
        BY ConcatAssociative
    <2> QED
      BY <1>4, <2>1, <2>2, <2>3
  <1>9. left[0] = FlattenSeq(pieces) \o rest /\ FlattenSeq(pieces) \in Seq(E)
    BY <1>2, <1>3, <1>4, <1>6
  <1> QED
    BY <1>5, <1>7, <1>8, <1>9 DEF n, IsLeft

\* Texts and numbers that are read one after the other are those that were written.
LEMMA TextsAre ==
  ASSUME NEW E, AByte \subseteq E, NEW rest \in Seq(E), NEW S, NEW of \in Seq(S),
         \A i \in 1..Len(of) : IsPlain(E, of[i])
  PROVE  LET all == FlattenSeq([i \in DOMAIN of |-> Plain(of[i])]) IN
         /\ all \in Seq(E)
         /\ ReadTexts(all \o rest, Len(of)) = [read |-> of, rest |-> rest]
  <1> DEFINE n == Len(of)
             pieces == [i \in DOMAIN of |-> Plain(of[i])]
             all == FlattenSeq(pieces)
             s == all \o rest
  <1>1. n \in Nat /\ DOMAIN of = 1..n
    OBVIOUS
  <1>2. pieces \in Seq(Seq(E)) /\ Len(pieces) = n /\ \A i \in 1..n : pieces[i] = Plain(of[i])
    <2>1. ASSUME NEW i \in 1..n PROVE Plain(of[i]) \in Seq(E)
      <3>1. IsPlain(E, of[i])
        OBVIOUS
      <3> QED
        BY <3>1, PlainIs
    <2>2. pieces = [i \in 1..n |-> Plain(of[i])]
      BY <1>1
    <2> HIDE DEF n, pieces
    <2>3. pieces \in [1..n -> Seq(E)]
      BY <2>1, <2>2
    <2> QED
      BY <1>1, <2>2, <2>3
  <1> HIDE DEF pieces
  <1>3. PICK left \in [0..n -> Seq(E)] :
           /\ left[0] = s /\ left[n] = rest
           /\ \A k \in 1..n : left[k - 1] = pieces[k] \o left[k]
    <2> HIDE DEF n
    <2>1. PICK left : IsLeft(E, pieces, rest, left)
      BY <1>2, LeftIs
    <2> QED
      BY <1>2, <2>1 DEF IsLeft
  <1>4. all \in Seq(E)
    BY <1>2, LeftIs
  <1> DEFINE Reads(g) == g = [k \in 0..n |->
                                IF k = 0 THEN [read |-> << >>, rest |-> s]
                                ELSE AfterText(g[k - 1])]
             upTo == CHOOSE g : Reads(g)
             read == [k \in 0..n |-> [read |-> SubSeq(of, 1, k), rest |-> left[k]]]
  <1>5. ReadTexts(s, n) = upTo[n]
    BY DEF ReadTexts
  <1>6. /\ SubSeq(of, 1, 0) = << >> /\ SubSeq(of, 1, n) = of
        /\ \A k \in 1..n : SubSeq(of, 1, k) = Append(SubSeq(of, 1, k - 1), of[k])
    BY PrefixGrows
  <1>7. \A k \in 1..n : ReadPlain(left[k - 1]) = [item |-> of[k], rest |-> left[k]]
    <2> TAKE k \in 1..n
    <2>1. k \in 0..n /\ left[k] \in Seq(E) /\ IsPlain(E, of[k])
      BY <1>1, <1>3
    <2>2. left[k - 1] = Plain(of[k]) \o left[k]
      BY <1>2, <1>3
    <2> DEFINE v == of[k]
               l == left[k]
    <2>3. l \in Seq(E) /\ IsPlain(E, v)
      BY <2>1
    <2> HIDE DEF v, l
    <2>4. ReadPlain(Plain(v) \o l) = [item |-> v, rest |-> l]
      BY <2>3, PlainIs
    <2> QED
      BY <2>2, <2>4 DEF v, l
  <1>8. \A k \in 0..n : read[k] = [read |-> SubSeq(of, 1, k), rest |-> left[k]]
    OBVIOUS
  <1>9. read[0] = [read |-> << >>, rest |-> s]
    <2> HIDE DEF n, s, read
    <2>1. 0 \in 0..n
      BY <1>1
    <2>2. read[0] = [read |-> SubSeq(of, 1, 0), rest |-> left[0]]
      BY <1>8, <2>1
    <2> QED
      BY <1>3, <1>6, <2>2
  <1> HIDE DEF n, s, read
  <1>10. ASSUME NEW k \in 1..n
         PROVE  read[k] = AfterText(read[k - 1])
    <2>1. k - 1 \in 0..n /\ k \in 0..n
      BY <1>1, <1>10
    <2>2. read[k - 1].read = SubSeq(of, 1, k - 1) /\ read[k - 1].rest = left[k - 1]
      <3>1. read[k - 1] = [read |-> SubSeq(of, 1, k - 1), rest |-> left[k - 1]]
        BY <1>8, <2>1
      <3> DEFINE a == SubSeq(of, 1, k - 1)
                 b == left[k - 1]
      <3> HIDE DEF a, b
      <3> QED
        BY <3>1 DEF a, b
    <2> DEFINE text == ReadPlain(left[k - 1])
    <2>3. text.item = of[k] /\ text.rest = left[k]
      <3>1. text = [item |-> of[k], rest |-> left[k]]
        BY <1>7
      <3> HIDE DEF text
      <3> QED
        BY <3>1
    <2> HIDE DEF text
    <2>4. read[k] = [read |-> Append(SubSeq(of, 1, k - 1), text.item), rest |-> text.rest]
      BY <1>6, <1>8, <2>1, <2>3
    <2> QED
      BY <2>2, <2>4 DEF text, AfterText, Further
  <1>11. Reads(read)
    <2> DEFINE next == [k \in 0..n |->
                                IF k = 0 THEN [read |-> << >>, rest |-> s]
                                ELSE AfterText(read[k - 1])]
    <2>1. ASSUME NEW k \in 0..n PROVE read[k] = next[k]
      <3>1. CASE k = 0
        BY <1>9, <3>1
      <3>2. CASE k # 0
        <4>1. k \in 1..n
          BY <1>1, <2>1, <3>2
        <4> QED
          BY <1>10, <3>2, <4>1
      <3> QED
        BY <3>1, <3>2
    <2>2. read = [k \in 0..n |-> read[k]]
      BY DEF read
    <2>3. next = [k \in 0..n |-> next[k]]
      OBVIOUS
    <2>4. read = next
      <3> HIDE DEF next
      <3> QED
        BY <2>1, <2>2, <2>3
    <2> QED
      BY <2>4
  <1>12. Reads(upTo)
    <2> HIDE DEF Reads
    <2> QED
      BY <1>11
  <1> HIDE DEF upTo
  <1>13. /\ upTo[0] = [read |-> << >>, rest |-> s]
         /\ \A k \in 1..n :
              upTo[k] = AfterText(upTo[k - 1])
    <2>1. 0 \in 0..n /\ \A k \in 1..n : k \in 0..n /\ k # 0
      BY <1>1
    <2> QED
      BY <1>12, <2>1
  <1> HIDE DEF Reads
  <1>14. GoAlike(n, upTo, read)
    <2>1. ASSUME NEW k \in 1..n, upTo[k - 1] = read[k - 1] PROVE upTo[k] = read[k]
      BY <1>10, <1>13, <2>1
    <2> QED
      BY <1>1, <1>9, <1>13, <2>1 DEF GoAlike
  <1>15. upTo[n] = read[n] /\ read[n] = [read |-> of, rest |-> rest]
    <2>1. n \in 0..n
      BY <1>1
    <2>2. \A k \in 0..n : upTo[k] = read[k]
      BY <1>14, AlikeSoFar
    <2> QED
      BY <1>3, <1>6, <1>8, <2>1, <2>2
  <1> QED
    BY <1>4, <1>5, <1>15 DEF n, s, pieces

\* A list of list, or an item that is none.
IsItem(E, v) ==
  \/ IsPlain(E, v)
  \/ \E S : \E of \in Seq(S) : v = Texts(of) /\ \A i \in 1..Len(of) : IsPlain(E, of[i])

LEMMA ItemIs ==
  ASSUME NEW E, AByte \subseteq E, NEW rest \in Seq(E), NEW v, IsItem(E, v)
  PROVE  Cbor(v) \in Seq(E) /\ ReadItem(Cbor(v) \o rest) = [item |-> v, rest |-> rest]
  <1>1. CASE IsPlain(E, v)
    <2>1. v.kind # "list"
      BY <1>1 DEF IsPlain, Number, CborNull
    <2>2. Cbor(v) = Plain(v)
      BY <2>1 DEF Cbor
    <2> DEFINE s == Plain(v) \o rest
    <2>3. /\ Plain(v) \in Seq(E) /\ Readable(s) /\ ReadHead(s).type # 4
          /\ ReadPlain(s) = [item |-> v, rest |-> rest]
      BY <1>1, PlainIs
    <2> HIDE DEF s
    <2>4. ReadItem(s) = [item |-> v, rest |-> rest]
      BY <2>3 DEF ReadItem
    <2> QED
      BY <2>2, <2>3, <2>4 DEF s
  <1>2. CASE \E S : \E of \in Seq(S) : v = Texts(of) /\ \A i \in 1..Len(of) : IsPlain(E, of[i])
    <2>1. PICK S : \E of \in Seq(S) : v = Texts(of) /\ \A i \in 1..Len(of) : IsPlain(E, of[i])
      BY <1>2
    <2>2. PICK of \in Seq(S) : v = Texts(of) /\ \A i \in 1..Len(of) : IsPlain(E, of[i])
      BY <2>1
    <2> DEFINE n == Len(of)
               all == FlattenSeq([i \in DOMAIN of |-> Plain(of[i])])
               after == all \o rest
               b == Major(4, n)
               s == b \o after
    <2>3. all \in Seq(E) /\ ReadTexts(after, n) = [read |-> of, rest |-> rest]
      BY <2>2, TextsAre
    <2>4. v.kind = "list" /\ v.of = of /\ v = Texts(of)
      BY <2>2 DEF Texts
    <2>5. Cbor(v) = b \o all
      BY <2>4 DEF Cbor
    <2>6. n \in Nat
      OBVIOUS
    <2> HIDE DEF n, all
    <2>7. after \in Seq(E)
      BY <2>3
    <2> HIDE DEF after
    <2>8. b \in Seq(E) /\ Readable(s) /\ ReadHead(s) = [type |-> 4, value |-> n, rest |-> after]
      <3>1. 4 \in 0..6
        OBVIOUS
      <3> QED
        BY <2>6, <2>7, <3>1, HeadIs
    <2> HIDE DEF b
    <2>9. Cbor(v) \in Seq(E) /\ Cbor(v) \o rest = s
      <3>1. (b \o all) \o rest = b \o after
        BY <2>3, <2>8, ConcatAssociative DEF after
      <3> QED
        BY <2>3, <2>5, <2>8, <3>1
    <2> HIDE DEF s
    <2>10. ReadItem(s) = [item |-> v, rest |-> rest]
      <3> DEFINE h == ReadHead(s)
                 list == ReadTexts(h.rest, h.value)
      <3>1. h.type = 4 /\ h.value = n /\ h.rest = after
        BY <2>8
      <3>2. ReadItem(s) = [item |-> Texts(list.read), rest |-> list.rest]
        BY <2>8, <3>1, Zenon DEF ReadItem, ReadTextList, ListOf
      <3> HIDE DEF h
      <3>3. list = [read |-> of, rest |-> rest]
        BY <2>3, <3>1
      <3> HIDE DEF list
      <3>4. list.read = of /\ list.rest = rest
        BY <3>3
      <3> QED
        BY <2>4, <3>2, <3>4
    <2> QED
      BY <2>9, <2>10
  <1> QED
    BY <1>1, <1>2 DEF IsItem

\* A key and its value.
FieldBytes(f) == Plain(f.key) \o Cbor(f.value)
IsField(E, f) ==
  f = [key |-> f.key, value |-> f.value] /\ IsPlain(E, f.key) /\ IsItem(E, f.value)

LEMMA FieldIs ==
  ASSUME NEW E, AByte \subseteq E, NEW rest \in Seq(E), NEW f, IsField(E, f)
  PROVE  FieldBytes(f) \in Seq(E) /\ ReadField(FieldBytes(f) \o rest) = [item |-> f, rest |-> rest]
  <1> DEFINE k == f.key
             v == f.value
             a == Plain(k)
             b == Cbor(v)
             after == b \o rest
             s == a \o after
  <1>1. f = [key |-> k, value |-> v] /\ IsPlain(E, k) /\ IsItem(E, v)
    BY DEF IsField
  <1>2. FieldBytes(f) = a \o b
    BY DEF FieldBytes
  <1> HIDE DEF k, v
  <1>3. b \in Seq(E) /\ ReadItem(after) = [item |-> v, rest |-> rest]
    BY <1>1, ItemIs
  <1> HIDE DEF b
  <1>4. after \in Seq(E)
    BY <1>3
  <1> HIDE DEF after
  <1>5. a \in Seq(E) /\ ReadPlain(s) = [item |-> k, rest |-> after]
    BY <1>1, <1>4, PlainIs
  <1> HIDE DEF a
  <1>6. (a \o b) \o rest = a \o after
    BY <1>3, <1>5, ConcatAssociative DEF after
  <1> DEFINE key == ReadPlain(s)
             value == ReadItem(key.rest)
  <1>7. ReadField(s) = [item |-> [key |-> key.item, value |-> value.item], rest |-> value.rest]
    BY DEF ReadField, Keyed, FieldOf
  <1> HIDE DEF s
  <1>8. key.item = k /\ key.rest = after
    BY <1>5
  <1> HIDE DEF key
  <1>9. value = [item |-> v, rest |-> rest]
    BY <1>3, <1>8
  <1> HIDE DEF value
  <1>10. value.item = v /\ value.rest = rest
    BY <1>9
  <1>11. ReadField(s) = [item |-> f, rest |-> rest]
    BY <1>1, <1>7, <1>8, <1>10
  <1> QED
    BY <1>2, <1>3, <1>5, <1>6, <1>11 DEF s

\* Fields that are read one after the other are those that were written.
LEMMA FieldsAre ==
  ASSUME NEW E, AByte \subseteq E, NEW rest \in Seq(E), NEW S, NEW of \in Seq(S),
         \A i \in 1..Len(of) : IsField(E, of[i])
  PROVE  LET all == FlattenSeq([i \in DOMAIN of |-> FieldBytes(of[i])]) IN
         /\ all \in Seq(E)
         /\ ReadFields(all \o rest, Len(of)) = [read |-> of, rest |-> rest]
  <1> DEFINE n == Len(of)
             pieces == [i \in DOMAIN of |-> FieldBytes(of[i])]
             all == FlattenSeq(pieces)
             s == all \o rest
  <1>1. n \in Nat /\ DOMAIN of = 1..n
    OBVIOUS
  <1>2. pieces \in Seq(Seq(E)) /\ Len(pieces) = n /\ \A i \in 1..n : pieces[i] = FieldBytes(of[i])
    <2>1. ASSUME NEW i \in 1..n PROVE FieldBytes(of[i]) \in Seq(E)
      <3>1. IsField(E, of[i])
        OBVIOUS
      <3> QED
        BY <3>1, FieldIs
    <2>2. pieces = [i \in 1..n |-> FieldBytes(of[i])]
      BY <1>1
    <2> HIDE DEF n, pieces
    <2>3. pieces \in [1..n -> Seq(E)]
      BY <2>1, <2>2
    <2> QED
      BY <1>1, <2>2, <2>3
  <1> HIDE DEF pieces
  <1>3. PICK left \in [0..n -> Seq(E)] :
           /\ left[0] = s /\ left[n] = rest
           /\ \A k \in 1..n : left[k - 1] = pieces[k] \o left[k]
    <2> HIDE DEF n
    <2>1. PICK left : IsLeft(E, pieces, rest, left)
      BY <1>2, LeftIs
    <2> QED
      BY <1>2, <2>1 DEF IsLeft
  <1>4. all \in Seq(E)
    BY <1>2, LeftIs
  <1> DEFINE Reads(g) == g = [k \in 0..n |->
                                IF k = 0 THEN [read |-> << >>, rest |-> s]
                                ELSE AfterField(g[k - 1])]
             upTo == CHOOSE g : Reads(g)
             read == [k \in 0..n |-> [read |-> SubSeq(of, 1, k), rest |-> left[k]]]
  <1>5. ReadFields(s, n) = upTo[n]
    BY DEF ReadFields
  <1>6. /\ SubSeq(of, 1, 0) = << >> /\ SubSeq(of, 1, n) = of
        /\ \A k \in 1..n : SubSeq(of, 1, k) = Append(SubSeq(of, 1, k - 1), of[k])
    BY PrefixGrows
  <1>7. \A k \in 1..n : ReadField(left[k - 1]) = [item |-> of[k], rest |-> left[k]]
    <2> TAKE k \in 1..n
    <2>1. k \in 0..n /\ left[k] \in Seq(E) /\ IsField(E, of[k])
      BY <1>1, <1>3
    <2>2. left[k - 1] = FieldBytes(of[k]) \o left[k]
      BY <1>2, <1>3
    <2> DEFINE v == of[k]
               l == left[k]
    <2>3. l \in Seq(E) /\ IsField(E, v)
      BY <2>1
    <2> HIDE DEF v, l
    <2>4. ReadField(FieldBytes(v) \o l) = [item |-> v, rest |-> l]
      BY <2>3, FieldIs
    <2> QED
      BY <2>2, <2>4 DEF v, l
  <1>8. \A k \in 0..n : read[k] = [read |-> SubSeq(of, 1, k), rest |-> left[k]]
    OBVIOUS
  <1>9. read[0] = [read |-> << >>, rest |-> s]
    <2> HIDE DEF n, s, read
    <2>1. 0 \in 0..n
      BY <1>1
    <2>2. read[0] = [read |-> SubSeq(of, 1, 0), rest |-> left[0]]
      BY <1>8, <2>1
    <2> QED
      BY <1>3, <1>6, <2>2
  <1> HIDE DEF n, s, read
  <1>10. ASSUME NEW k \in 1..n
         PROVE  read[k] = AfterField(read[k - 1])
    <2>1. k - 1 \in 0..n /\ k \in 0..n
      BY <1>1, <1>10
    <2>2. read[k - 1].read = SubSeq(of, 1, k - 1) /\ read[k - 1].rest = left[k - 1]
      <3>1. read[k - 1] = [read |-> SubSeq(of, 1, k - 1), rest |-> left[k - 1]]
        BY <1>8, <2>1
      <3> DEFINE a == SubSeq(of, 1, k - 1)
                 b == left[k - 1]
      <3> HIDE DEF a, b
      <3> QED
        BY <3>1 DEF a, b
    <2> DEFINE field == ReadField(left[k - 1])
    <2>3. field.item = of[k] /\ field.rest = left[k]
      <3>1. field = [item |-> of[k], rest |-> left[k]]
        BY <1>7
      <3> HIDE DEF field
      <3> QED
        BY <3>1
    <2> HIDE DEF field
    <2>4. read[k] = [read |-> Append(SubSeq(of, 1, k - 1), field.item), rest |-> field.rest]
      BY <1>6, <1>8, <2>1, <2>3
    <2> QED
      BY <2>2, <2>4 DEF field, AfterField, Further
  <1>11. Reads(read)
    <2> DEFINE next == [k \in 0..n |->
                                IF k = 0 THEN [read |-> << >>, rest |-> s]
                                ELSE AfterField(read[k - 1])]
    <2>1. ASSUME NEW k \in 0..n PROVE read[k] = next[k]
      <3>1. CASE k = 0
        BY <1>9, <3>1
      <3>2. CASE k # 0
        <4>1. k \in 1..n
          BY <1>1, <2>1, <3>2
        <4> QED
          BY <1>10, <3>2, <4>1
      <3> QED
        BY <3>1, <3>2
    <2>2. read = [k \in 0..n |-> read[k]]
      BY DEF read
    <2>3. next = [k \in 0..n |-> next[k]]
      OBVIOUS
    <2>4. read = next
      <3> HIDE DEF next
      <3> QED
        BY <2>1, <2>2, <2>3
    <2> QED
      BY <2>4
  <1>12. Reads(upTo)
    <2> HIDE DEF Reads
    <2> QED
      BY <1>11
  <1> HIDE DEF upTo
  <1>13. /\ upTo[0] = [read |-> << >>, rest |-> s]
         /\ \A k \in 1..n :
              upTo[k] = AfterField(upTo[k - 1])
    <2>1. 0 \in 0..n /\ \A k \in 1..n : k \in 0..n /\ k # 0
      BY <1>1
    <2> QED
      BY <1>12, <2>1
  <1> HIDE DEF Reads
  <1>14. GoAlike(n, upTo, read)
    <2>1. ASSUME NEW k \in 1..n, upTo[k - 1] = read[k - 1] PROVE upTo[k] = read[k]
      BY <1>10, <1>13, <2>1
    <2> QED
      BY <1>1, <1>9, <1>13, <2>1 DEF GoAlike
  <1>15. upTo[n] = read[n] /\ read[n] = [read |-> of, rest |-> rest]
    <2>1. n \in 0..n
      BY <1>1
    <2>2. \A k \in 0..n : upTo[k] = read[k]
      BY <1>14, AlikeSoFar
    <2> QED
      BY <1>3, <1>6, <1>8, <2>1, <2>2
  <1> QED
    BY <1>4, <1>5, <1>15 DEF n, s, pieces

\* The payload is read whole.
LEMMA PayloadIs ==
  ASSUME NEW E, AByte \subseteq E, NEW S, NEW fields \in Seq(S),
         \A i \in 1..Len(fields) : IsField(E, fields[i])
  PROVE  /\ EncodePayload(fields) \in Seq(E)
         /\ ReadPayload(EncodePayload(fields)) = [read |-> fields, rest |-> << >>]
  <1> DEFINE n == Len(fields)
             all == FlattenSeq([i \in DOMAIN fields |-> FieldBytes(fields[i])])
             b == Major(5, n)
             s == b \o all
  <1>1. n \in Nat /\ << >> \in Seq(E) /\ 5 \in 0..6
    OBVIOUS
  <1>2. EncodePayload(fields) = s
    BY DEF EncodePayload, FieldBytes
  <1>3. all \in Seq(E) /\ ReadFields(all \o << >>, n) = [read |-> fields, rest |-> << >>]
    BY <1>1, FieldsAre
  <1> HIDE DEF all, n
  <1>4. all \o << >> = all
    BY <1>3, ConcatEmptySeq
  <1>5. b \in Seq(E) /\ ReadHead(s) = [type |-> 5, value |-> n, rest |-> all]
    BY <1>1, <1>3, HeadIs
  <1> HIDE DEF b
  <1>6. s \in Seq(E)
    BY <1>3, <1>5
  <1> HIDE DEF s
  <1>7. ReadHead(s).value = n /\ ReadHead(s).rest = all
    BY <1>5
  <1>8. ReadPayload(s) = [read |-> fields, rest |-> << >>]
    BY <1>3, <1>4, <1>7 DEF ReadPayload
  <1> QED
    BY <1>2, <1>6, <1>8

\* How many bytes a payload takes is a number.
LEMMA SizeIs ==
  ASSUME NEW E, \A e \in E : Takes(e) \in Nat, NEW bytes \in Seq(E)
  PROVE  Size(bytes) \in Nat
  <1> DEFINE n == Len(bytes)
             step == [k \in 1..n |-> [x \in Nat |-> x + Takes(bytes[k])]]
             Sizes(g) == g = [k \in 0..n |-> IF k = 0 THEN 0 ELSE g[k - 1] + Takes(bytes[k])]
             upTo == CHOOSE g : Sizes(g)
  <1>1. n \in Nat /\ \A k \in 1..n : Takes(bytes[k]) \in Nat
    OBVIOUS
  <1>2. Size(bytes) = upTo[n]
    BY DEF Size
  <1> HIDE DEF n
  <1>3. PICK f : IsMade(n, Nat, 0, step, f)
    <2>1. step \in [1..n -> [Nat -> Nat]]
      BY <1>1
    <2> HIDE DEF step
    <2>2. IsSteps(n, Nat, 0, step)
      BY <1>1, <2>1 DEF IsSteps
    <2> QED
      BY <2>2, StepsExist
  <1>4. f \in [0..n -> Nat] /\ f[0] = 0 /\ \A k \in 1..n : f[k] = step[k][f[k - 1]]
    <2> HIDE DEF step
    <2> QED
      BY <1>3 DEF IsMade
  <1>5. ASSUME NEW k \in 1..n PROVE f[k] = f[k - 1] + Takes(bytes[k])
    <2>1. k - 1 \in 0..n
      BY <1>1
    <2>2. f[k - 1] \in Nat
      BY <1>4, <2>1
    <2> QED
      BY <1>4, <2>2
  <1> HIDE DEF step
  <1>6. Sizes(f)
    <2> DEFINE next == [k \in 0..n |-> IF k = 0 THEN 0 ELSE f[k - 1] + Takes(bytes[k])]
    <2>1. ASSUME NEW k \in 0..n PROVE f[k] = next[k]
      <3>1. CASE k = 0
        BY <1>4, <3>1
      <3>2. CASE k # 0
        <4>1. k \in 1..n
          BY <1>1, <2>1, <3>2
        <4> QED
          BY <1>5, <3>2, <4>1
      <3> QED
        BY <3>1, <3>2
    <2>2. f = [k \in 0..n |-> f[k]] /\ next = [k \in 0..n |-> next[k]]
      BY <1>4
    <2>3. f = next
      <3> HIDE DEF next
      <3> QED
        BY <2>1, <2>2
    <2> QED
      BY <2>3
  <1>7. Sizes(upTo)
    <2> HIDE DEF Sizes
    <2> QED
      BY <1>6
  <1> HIDE DEF upTo
  <1>8. upTo[0] = 0 /\ \A k \in 1..n : upTo[k] = upTo[k - 1] + Takes(bytes[k])
    <2>1. 0 \in 0..n /\ \A k \in 1..n : k \in 0..n /\ k # 0
      BY <1>1
    <2> QED
      BY <1>7, <2>1
  <1> HIDE DEF Sizes
  <1>9. GoAlike(n, upTo, f)
    BY <1>1, <1>4, <1>5, <1>8 DEF GoAlike
  <1>10. n \in 0..n /\ upTo[n] = f[n]
    <2>1. n \in 0..n
      BY <1>1
    <2> QED
      BY <1>9, <2>1, AlikeSoFar
  <1> QED
    BY <1>2, <1>4, <1>10

\* What stands before a payload, and the payload.
LEMMA FrontIs ==
  ASSUME NEW F, NEW a \in Seq(F), NEW x \in F, NEW payload \in Seq(F)
  PROVE  LET s == (a \o <<x>>) \o payload IN
         /\ \A i \in 1..Len(a) : s[i] = a[i]
         /\ SubSeq(s, Len(a) + 2, Len(s)) = payload
  <1> DEFINE front == a \o <<x>>
             s == front \o payload
  <1>1. <<x>> \in Seq(F) /\ Len(<<x>>) = 1 /\ Len(a) \in Nat
    OBVIOUS
  <1>2. front \in Seq(F) /\ Len(front) = Len(a) + 1 /\ \A i \in 1..Len(a) : front[i] = a[i]
    BY <1>1
  <1> HIDE DEF front
  <1>3. \A i \in 1..Len(a) : s[i] = a[i]
    <2>1. \A i \in 1..Len(a) : i \in 1..Len(front)
      BY <1>1, <1>2
    <2>2. \A i \in 1..Len(front) : s[i] = front[i]
      BY <1>2
    <2> QED
      BY <1>2, <2>1, <2>2
  <1>4. SubSeq(s, Len(front) + 1, Len(s)) = payload
    BY <1>2
  <1>5. Len(front) + 1 = Len(a) + 2
    BY <1>1, <1>2
  <1> HIDE DEF s
  <1>6. SubSeq(s, Len(a) + 2, Len(s)) = payload
    BY <1>4, <1>5
  <1> QED
    BY <1>3, <1>6 DEF s, front

\* The record says how long the payload is, and holds it.
LEMMA RecordIs ==
  ASSUME NEW E, \A e \in E : Takes(e) \in Nat, NEW payload \in Seq(E)
  PROVE  LET r == ReadRecord(BuildNdefRecord(payload)) IN
         r.payload = payload /\ r.length = Size(payload)
  <1> DEFINE n == Size(payload)
             F == E \cup AByte \cup {MimeType}
             head == IF n <= 255 THEN <<210, 28, n>>
                     ELSE <<194, 28, n \div 16777216, (n \div 65536) % 256, (n \div 256) % 256,
                            n % 256>>
             s == BuildNdefRecord(payload)
  <1>1. n \in Nat
    BY SizeIs
  <1>2. payload \in Seq(F) /\ MimeType \in F /\ AByte \subseteq F
    OBVIOUS
  <1>3. s = (Bytes(head) \o <<MimeType>>) \o payload
    BY SMT DEF BuildNdefRecord
  <1>4. n <= 255 => head = <<210, 28, n>>
    BY SMT
  <1>5. ~(n <= 255) => head = <<194, 28, n \div 16777216, (n \div 65536) % 256,
                                (n \div 256) % 256, n % 256>>
    BY SMT
  <1> HIDE DEF n, head, F
  <1> DEFINE b == Bytes(head)
  <1>6. ASSUME head \in Seq(Int)
        PROVE  /\ b \in Seq(F) /\ Len(b) = Len(head)
               /\ \A i \in 1..Len(head) : b[i].is = head[i]
    <2>1. b = [i \in 1..Len(head) |-> [kind |-> "byte", is |-> head[i]]]
      BY <1>6 DEF Bytes
    <2>2. \A i \in 1..Len(head) : [kind |-> "byte", is |-> head[i]] \in AByte
      BY <1>6 DEF AByte
    <2> HIDE DEF b
    <2> QED
      BY <1>2, <1>6, <2>1, <2>2
  <1> HIDE DEF b
  <1>7. b \in Seq(F) => (\A i \in 1..Len(b) : s[i] = b[i])
                         /\ SubSeq(s, Len(b) + 2, Len(s)) = payload
    BY <1>2, <1>3, FrontIs DEF b
  <1> HIDE DEF s
  <1>8. CASE n <= 255
    <2>1. /\ head \in Seq(Int) /\ Len(head) = 3 /\ head[1] = 210 /\ head[3] = n
      <3>1. head = <<210, 28, n>>
        BY <1>4, <1>8
      <3> QED
        BY <1>1, <3>1
    <2>2. Len(b) = 3 /\ s[1].is = 210 /\ s[3].is = n /\ SubSeq(s, 5, Len(s)) = payload
      <3>1. /\ Len(b) = 3 /\ \A i \in 1..3 : b[i].is = head[i] /\ s[i] = b[i]
            /\ SubSeq(s, Len(b) + 2, Len(s)) = payload
        <4>1. b \in Seq(F) /\ Len(b) = Len(head) /\ \A i \in 1..Len(head) : b[i].is = head[i]
          BY <1>6, <2>1
        <4>2. /\ \A i \in 1..Len(b) : s[i] = b[i]
              /\ SubSeq(s, Len(b) + 2, Len(s)) = payload
          BY <1>7, <4>1
        <4>3. Len(head) = 3 /\ Len(b) = 3
          BY <2>1, <4>1
        <4> QED
          BY <4>1, <4>2, <4>3, Zenon
      <3>2. 1 \in 1..3 /\ 3 \in 1..3 /\ Len(b) + 2 = 5
        BY <3>1
      <3>3. s[1] = b[1] /\ s[3] = b[3] /\ b[1].is = head[1] /\ b[3].is = head[3]
        BY <3>1, <3>2
      <3> QED
        BY <2>1, <3>1, <3>2, <3>3
    <2>3. ReadRecord(s) = [length |-> n, payload |-> payload]
      BY <2>2 DEF ReadRecord
    <2> QED
      BY <2>3 DEF s, n
  <1>9. CASE ~(n <= 255)
    <2> DEFINE byte1 == n \div 16777216
               byte2 == (n \div 65536) % 256
               byte3 == (n \div 256) % 256
               byte4 == n % 256
    <2>1. head = <<194, 28, byte1, byte2, byte3, byte4>>
      BY <1>5, <1>9, SMT
    <2>2. byte1 \in Int /\ byte2 \in Int /\ byte3 \in Int /\ byte4 \in Int
      BY <1>1, SMT
    <2>3. ((byte1 * 256 + byte2) * 256 + byte3) * 256 + byte4 = n
      BY <1>1, FourBytesAre, SMT
    <2> HIDE DEF byte1, byte2, byte3, byte4
    <2>4. /\ head \in Seq(Int) /\ Len(head) = 6 /\ head[1] = 194 /\ head[3] = byte1
          /\ head[4] = byte2 /\ head[5] = byte3 /\ head[6] = byte4
      BY <2>1, <2>2
    <2>5. /\ Len(b) = 6 /\ s[1].is = 194 /\ s[3].is = byte1 /\ s[4].is = byte2 /\ s[5].is = byte3
          /\ s[6].is = byte4 /\ SubSeq(s, 8, Len(s)) = payload
      <3>1. /\ Len(b) = 6 /\ \A i \in 1..6 : b[i].is = head[i] /\ s[i] = b[i]
            /\ SubSeq(s, Len(b) + 2, Len(s)) = payload
        <4>1. b \in Seq(F) /\ Len(b) = Len(head) /\ \A i \in 1..Len(head) : b[i].is = head[i]
          BY <1>6, <2>4
        <4>2. /\ \A i \in 1..Len(b) : s[i] = b[i]
              /\ SubSeq(s, Len(b) + 2, Len(s)) = payload
          BY <1>7, <4>1
        <4>3. Len(head) = 6 /\ Len(b) = 6
          BY <2>4, <4>1
        <4> QED
          BY <4>1, <4>2, <4>3, Zenon
      <3>2. Len(b) + 2 = 8
        BY <3>1
      <3>3. /\ s[1] = b[1] /\ s[3] = b[3] /\ s[4] = b[4] /\ s[5] = b[5] /\ s[6] = b[6]
            /\ b[1].is = head[1] /\ b[3].is = head[3] /\ b[4].is = head[4]
            /\ b[5].is = head[5] /\ b[6].is = head[6]
        BY <3>1
      <3> QED
        BY <2>4, <3>1, <3>2, <3>3
    <2>6. ReadRecord(s) = [length |-> n, payload |-> payload]
      <3>1. s[1].is # 210
        BY <2>5
      <3>2. ReadRecord(s) = [length |-> ((byte1 * 256 + byte2) * 256 + byte3) * 256 + byte4,
                             payload |-> payload]
        BY <2>5, <3>1 DEF ReadRecord
      <3> QED
        BY <2>3, <3>2
    <2> QED
      BY <2>6 DEF s, n
  <1> QED
    BY <1>8, <1>9

\* A field whose key is a text, and whose value is one, a number, nothing, a number
\* of eight bytes, or the notes.
IsValue(v) ==
  \/ v.kind = "text" /\ v.bytes \in Nat
  \/ \E n \in Int : v = Number(n)
  \/ v = CborNull
  \/ v.kind = "float"
  \/ v = Notes
IsTagField(f) ==
  /\ f = [key |-> f.key, value |-> f.value]
  /\ f.key.kind = "text" /\ f.key.bytes \in Nat /\ IsValue(f.value)

LEMMA TagFieldIs ==
  ASSUME NEW key, NEW bytes \in Nat, NEW value, IsValue(value)
  PROVE  IsTagField(Field(key, bytes, value))
  <1> DEFINE f == Field(key, bytes, value)
  <1>1. f = [key |-> Text(<<key>>, bytes), value |-> value]
    BY DEF Field
  <1> HIDE DEF f
  <1>2. f.key = Text(<<key>>, bytes) /\ f.value = value
    BY <1>1
  <1>3. f.key.kind = "text" /\ f.key.bytes = bytes
    BY <1>2 DEF Text
  <1>4. IsTagField(f)
    BY <1>1, <1>2, <1>3 DEF IsTagField
  <1> QED
    BY <1>4 DEF f

\* Of such fields what is encoded reads back, and so does the record.
LEMMA TagFieldsReadBack ==
  ASSUME NEW S, \A f \in S : IsTagField(f), NEW fields \in Seq(S)
  PROVE  /\ ReadPayload(EncodePayload(fields)) = [read |-> fields, rest |-> << >>]
         /\ LET r == ReadRecord(BuildNdefRecord(EncodePayload(fields))) IN
            r.payload = EncodePayload(fields) /\ r.length = Size(EncodePayload(fields))
  <1> DEFINE KeyTexts == {f.key : f \in S}
             OtherTexts == {v \in {f.value : f \in S} :
                        (v.kind = "text" /\ v.bytes \in Nat) \/ v.kind = "float"}
             NoteTexts == {Notes.of[i] : i \in 1..5}
             E == AByte \cup KeyTexts \cup OtherTexts \cup NoteTexts
  <1>1. Notes.of = [i \in 1..5 |-> Text(<<"note", i>>, NoteLengths[i])]
        /\ Notes = Texts(Notes.of)
    BY DEF Notes, Texts
  <1>2. ASSUME NEW i \in 1..5
        PROVE  Notes.of[i].kind = "text" /\ Notes.of[i].bytes \in Nat
    <2>1. Notes.of[i] = Text(<<"note", i>>, NoteLengths[i])
      BY <1>1
    <2>2. NoteLengths[i] \in Nat
      BY DEF NoteLengths
    <2> QED
      BY <2>1, <2>2 DEF Text
  <1>3. ASSUME NEW e \in E PROVE Takes(e) \in Nat
    <2>1. CASE e \in AByte
      BY <2>1 DEF Takes, AByte
    <2>2. CASE e \in KeyTexts
      <3>1. e.kind = "text" /\ e.bytes \in Nat
        BY <2>2 DEF IsTagField
      <3> QED
        BY <3>1 DEF Takes
    <2>3. CASE e \in OtherTexts
      BY <2>3 DEF Takes
    <2>4. CASE e \in NoteTexts
      <3>1. e.kind = "text" /\ e.bytes \in Nat
        BY <1>2, <2>4
      <3> QED
        BY <3>1 DEF Takes
    <2> QED
      BY <2>1, <2>2, <2>3, <2>4
  <1>4. AByte \subseteq E /\ KeyTexts \subseteq E /\ OtherTexts \subseteq E /\ NoteTexts \subseteq E
    OBVIOUS
  <1>5. ASSUME NEW f \in S PROVE IsField(E, f)
    <2>1. /\ f = [key |-> f.key, value |-> f.value]
          /\ f.key.kind = "text" /\ f.key.bytes \in Nat /\ IsValue(f.value)
      BY DEF IsTagField
    <2>2. f.key \in E
      OBVIOUS
    <2>3. IsPlain(E, f.key)
      BY <2>1, <2>2 DEF IsPlain
    <2> DEFINE v == f.value
    <2>4. IsValue(v) /\ v \in {g.value : g \in S}
      BY <2>1
    <2> HIDE DEF v
    <2>5. ASSUME (v.kind = "text" /\ v.bytes \in Nat) \/ v.kind = "float" PROVE IsItem(E, v)
      <3>1. v \in E
        BY <2>4, <2>5
      <3> HIDE DEF E
      <3> QED
        BY <2>5, <3>1 DEF IsItem, IsPlain
    <2>6. ASSUME (\E n \in Int : v = Number(n)) \/ v = CborNull PROVE IsItem(E, v)
      BY <2>6 DEF IsItem, IsPlain
    <2>7. ASSUME v = Notes PROVE IsItem(E, v)
      <3> DEFINE of == Notes.of
      <3>1. of \in Seq(NoteTexts) /\ Len(of) = 5
        <4>1. of = [i \in 1..5 |-> of[i]]
          BY <1>1
        <4>2. \A i \in 1..5 : of[i] \in NoteTexts
          OBVIOUS
        <4> HIDE DEF of, NoteTexts
        <4> QED
          BY <4>1, <4>2
      <3>2. \A i \in 1..5 : IsPlain(E, of[i])
        <4> TAKE i \in 1..5
        <4>1. of[i] \in E /\ of[i].kind = "text" /\ of[i].bytes \in Nat
          BY <1>2
        <4> HIDE DEF E, of
        <4> QED
          BY <4>1 DEF IsPlain
      <3>3. v = Texts(of)
        BY <1>1, <2>7
      <3> HIDE DEF of, E, NoteTexts
      <3> QED
        BY <3>1, <3>2, <3>3 DEF IsItem
    <2>8. IsItem(E, v)
      BY <2>4, <2>5, <2>6, <2>7 DEF IsValue
    <2> QED
      BY <2>1, <2>3, <2>8 DEF IsField, v
  <1> HIDE DEF E
  <1>6. \A i \in 1..Len(fields) : IsField(E, fields[i])
    BY <1>5
  <1>7. /\ EncodePayload(fields) \in Seq(E)
        /\ ReadPayload(EncodePayload(fields)) = [read |-> fields, rest |-> << >>]
    BY <1>4, <1>6, PayloadIs
  <1> DEFINE payload == EncodePayload(fields)
  <1> HIDE DEF payload
  <1>8. LET r == ReadRecord(BuildNdefRecord(payload)) IN
        r.payload = payload /\ r.length = Size(payload)
    <2>1. payload \in Seq(E)
      BY <1>7 DEF payload
    <2> QED
      BY <1>3, <2>1, RecordIs
  <1> QED
    BY <1>7, <1>8 DEF payload

\* The fields of a variant are such, whatever the catalogue says of it; its own are
\* of no other.
LEMMA FieldsOfVariant ==
  ASSUME NEW v, NEW a \in Articles
  PROVE  /\ \E S : MapCatalogToFields(v, a) \in Seq(S) /\ \A f \in S : IsTagField(f)
         /\ \E f \in Range(MapCatalogToFields(v, a)) :
               f.key.is = <<"openfilament_variant_uuid">> /\ f.value.is = <<"variant", v>>
         /\ \A f \in Range(MapCatalogToFields(v, a)) :
               f.key.is = <<"ofd_variant_uuid">> => f.value.is = <<"variant", v>>
  <1> DEFINE degrees == IF a.hot = NoTag THEN CborNull ELSE Number(a.hot)
             uuid == Text(<<"variant", v>>, 36)
             thick == IF a.thick = "3" THEN Number(3) ELSE Float(<<a.thick>>)
             maker == Said(Slice(a.brand, 31))
             name == Said(Slice(a.name, 63))
             f1 == Field("brand_name", 10, maker)
             f2 == Field("brand_uuid", 10, Text(BrandUuid(a), 36))
             f3 == Field("filament_diameter", 17, thick)
             f4 == Field("material_name", 13, name)
             f5 == Field("material_uuid", 13, Text(MaterialUuid(a), 36))
             f6 == Field("max_print_temperature", 21, degrees)
             f7 == Field("notes", 5, Notes)
             f8 == Field("ofd_variant_uuid", 16, uuid)
             f9 == Field("openfilament_variant_uuid", 25, uuid)
             S == {f1, f2, f3, f4, f5, f6, f7, f8, f9}
             always == <<f1, f2, f3, f4, f5, f6, f7>>
             opened == IF a.ofd THEN <<f8>> ELSE << >>
             fields == MapCatalogToFields(v, a)
  <1>1. fields = (always \o opened) \o <<f9>>
    BY DEF MapCatalogToFields
  <1>2. \A is, bytes : bytes \in Nat => IsValue(Text(is, bytes))
    BY DEF IsValue, Text
  <1>3. IsValue(maker) /\ IsValue(name)
    <2>1. ASSUME NEW n \in TagNames, NEW most \in Nat PROVE IsValue(Said(Slice(n, most)))
      <3>1. /\ Slice(n, most).length \in Nat /\ Slice(n, most).wide \in 1..3
        BY <2>1, TagParameters DEF TagNames, Slice
      <3> DEFINE long == Slice(n, most).length
                 wide == Slice(n, most).wide
      <3>2. long * wide \in Nat
        <4>1. wide = 1 \/ wide = 2 \/ wide = 3
          BY <3>1
        <4>2. long \in Nat
          BY <3>1
        <4> HIDE DEF long, wide
        <4> QED
          BY <4>1, <4>2
      <3>3. Said(Slice(n, most)) = Text(<<"name", Slice(n, most)>>, long * wide)
        BY DEF Said
      <3> HIDE DEF long, wide
      <3> QED
        BY <1>2, <3>2, <3>3
    <2>2. a.brand \in TagNames /\ a.name \in TagNames
      BY DEF Articles
    <2> QED
      BY <2>1, <2>2
  <1>4. IsValue(degrees)
    <2>1. a.hot \in Degrees \cup {NoTag}
      BY DEF Articles
    <2>2. CASE a.hot = NoTag
      BY <2>2 DEF IsValue
    <2>3. CASE a.hot # NoTag
      <3>1. a.hot \in Int /\ degrees = Number(a.hot)
        <4>1. Degrees \subseteq Nat
          BY TagParameters
        <4>2. a.hot \in Degrees
          BY <2>1, <2>3
        <4>3. degrees = Number(a.hot)
          BY <2>3
        <4>4. a.hot \in Int
          <5> SUFFICES ASSUME NEW d \in Degrees PROVE d \in Int
            BY <4>2, Zenon
          <5> QED
            BY <4>1
        <4> QED
          BY <4>3, <4>4, Zenon
      <3> HIDE DEF degrees
      <3> QED
        BY <3>1 DEF IsValue
    <2> QED
      BY <2>2, <2>3
  <1>5. IsValue(thick)
    <2>1. IsValue(Number(3))
      BY DEF IsValue
    <2>2. IsValue(Float(<<a.thick>>))
      BY DEF IsValue, Float
    <2> QED
      BY <2>1, <2>2
  <1>6. IsValue(uuid) /\ IsValue(Notes)
        /\ IsValue(Text(BrandUuid(a), 36)) /\ IsValue(Text(MaterialUuid(a), 36))
    BY <1>2 DEF IsValue
  <1> HIDE DEF maker, name, degrees, thick
  <1>7. \A f \in S : IsTagField(f)
    <2>1. IsTagField(f1) /\ IsTagField(f2) /\ IsTagField(f3)
      BY <1>3, <1>5, <1>6, TagFieldIs
    <2>2. IsTagField(f4) /\ IsTagField(f5) /\ IsTagField(f6)
      BY <1>3, <1>4, <1>6, TagFieldIs
    <2>3. IsTagField(f7) /\ IsTagField(f8) /\ IsTagField(f9)
      BY <1>6, TagFieldIs
    <2> HIDE DEF f1, f2, f3, f4, f5, f6, f7, f8, f9
    <2> QED
      BY <2>1, <2>2, <2>3
  <1>8. /\ f1.key.is = <<"brand_name">> /\ f2.key.is = <<"brand_uuid">>
        /\ f3.key.is = <<"filament_diameter">> /\ f4.key.is = <<"material_name">>
        /\ f5.key.is = <<"material_uuid">> /\ f6.key.is = <<"max_print_temperature">>
        /\ f7.key.is = <<"notes">>
        /\ f8.value.is = <<"variant", v>>
        /\ f9.key.is = <<"openfilament_variant_uuid">> /\ f9.value.is = <<"variant", v>>
    BY DEF Field, Text
  <1> HIDE DEF f1, f2, f3, f4, f5, f6, f7, f8, f9
  <1>9. \A f \in S : f.key.is = <<"ofd_variant_uuid">> => f.value.is = <<"variant", v>>
    <2>1. \A x, y : <<x>> = <<y>> => x = y
      OBVIOUS
    <2> QED
      BY <1>8, <2>1
  <1>10. always \in Seq(S) /\ opened \in Seq(S) /\ <<f9>> \in Seq(S) /\ Len(<<f9>>) = 1
         /\ <<f9>>[1] = f9
    <2>1. /\ f1 \in S /\ f2 \in S /\ f3 \in S /\ f4 \in S /\ f5 \in S /\ f6 \in S /\ f7 \in S
          /\ f8 \in S /\ f9 \in S
      OBVIOUS
    <2>2. << >> \in Seq(S)
      OBVIOUS
    <2> HIDE DEF S
    <2>3. always \in Seq(S)
      BY <2>1
    <2>4. <<f8>> \in Seq(S) /\ <<f9>> \in Seq(S) /\ Len(<<f9>>) = 1 /\ <<f9>>[1] = f9
      BY <2>1
    <2> QED
      BY <2>2, <2>3, <2>4
  <1> HIDE DEF S, always, opened
  <1>11. /\ fields \in Seq(S) /\ fields[Len(fields)] = f9
         /\ Len(fields) \in 1..Len(fields)
    <2> DEFINE front == always \o opened
               last == <<f9>>
    <2>1. front \in Seq(S) /\ last \in Seq(S) /\ Len(last) = 1 /\ last[1] = f9
      BY <1>10
    <2> HIDE DEF last
    <2>2. fields = front \o last
      BY <1>1 DEF last
    <2> HIDE DEF front, fields
    <2>3. /\ fields \in Seq(S) /\ Len(fields) = Len(front) + 1 /\ Len(front) \in Nat
          /\ fields[Len(front) + 1] = last[1]
      <3>1. \A x, y \in Seq(S) : /\ x \o y \in Seq(S) /\ Len(x \o y) = Len(x) + Len(y)
                                /\ \A i \in 1..Len(y) : (x \o y)[Len(x) + i] = y[i]
        OBVIOUS
      <3>2. 1 \in 1..Len(last) /\ Len(front) \in Nat
        BY <2>1
      <3>3. /\ front \o last \in Seq(S) /\ Len(front \o last) = Len(front) + Len(last)
            /\ (front \o last)[Len(front) + 1] = last[1]
        BY <2>1, <3>1, <3>2, Zenon
      <3> QED
        BY <2>1, <2>2, <3>2, <3>3
    <2> QED
      BY <2>1, <2>3
  <1> HIDE DEF fields
  <1>12. Range(fields) = {fields[i] : i \in 1..Len(fields)}
    <2>1. DOMAIN fields = 1..Len(fields)
      BY <1>11
    <2> QED
      BY <2>1 DEF Range
  <1>13. f9 \in Range(fields) /\ Range(fields) \subseteq S
    BY <1>11, <1>12
  <1> QED
    BY <1>7, <1>8, <1>9, <1>11, <1>13 DEF fields

\* What an answer holds of a variant, for something the catalogue said of it.
IsEncoded(e, v) ==
  \E a \in Articles :
     /\ e.fields = MapCatalogToFields(v, a) /\ e.payload = EncodePayload(e.fields)
     /\ e.ndef = BuildNdefRecord(e.payload)

\* The answer under way is of the variant asked for, and so is what the page shows;
\* that is also what the tag holds.
AskedIsEncoded ==
  encoding # NoTag =>
     /\ encoding = [variant |-> encoding.variant, answer |-> encoding.answer]
     /\ encoding.variant \in Tagged /\ result = NoTag
     /\ encoding.answer # NoTag => IsEncoded(encoding.answer, encoding.variant)
ShownIsHeld ==
  result # NoTag =>
     \E a \in Articles :
        /\ result.fields = MapCatalogToFields(result.variant, a)
        /\ held = EncodePayload(result.fields) /\ result.ndef = BuildNdefRecord(held)
OpenTagIInv == article \in [Tagged -> Articles] /\ AskedIsEncoded /\ ShownIsHeld

LEMMA OpenTagStep == OpenTagIInv /\ [OpenTagNext]_tagVars => OpenTagIInv'
  <1> SUFFICES ASSUME OpenTagIInv, [OpenTagNext]_tagVars PROVE OpenTagIInv'
    OBVIOUS
  <1> USE DEF OpenTagIInv, AskedIsEncoded, ShownIsHeld
  <1>1. ASSUME NEW v \in Tagged, WriteOpenPrintTag(v) PROVE OpenTagIInv'
    BY <1>1 DEF WriteOpenPrintTag
  <1>2. ASSUME NEW v \in Tagged, NEW d \in Degrees, ArticleChanges(v, d) PROVE OpenTagIInv'
    <2>1. article' = [article EXCEPT ![v].hot = d] /\ UNCHANGED <<held, encoding, result>>
      BY <1>2 DEF ArticleChanges
    <2>2. [article[v] EXCEPT !.hot = d] \in Articles
      <3>1. article[v] \in Articles
        OBVIOUS
      <3> QED
        BY <3>1 DEF Articles
    <2>3. article' \in [Tagged -> Articles]
      BY <2>1, <2>2
    <2>4. AskedIsEncoded' /\ ShownIsHeld'
      BY <2>1 DEF IsEncoded
    <2> QED
      BY <2>3, <2>4
  <1>3. ASSUME EncodeAnswered PROVE OpenTagIInv'
    <2> DEFINE v == encoding.variant
               e == Encoded(v)
    <2>1. /\ encoding # NoTag /\ encoding' = [encoding EXCEPT !.answer = e]
          /\ UNCHANGED <<article, held, result>> /\ result = NoTag
      BY <1>3 DEF EncodeAnswered
    <2>2. encoding' = [variant |-> v, answer |-> e]
      <3>1. encoding = [variant |-> v, answer |-> encoding.answer]
        BY <2>1
      <3> HIDE DEF v, e
      <3> QED
        BY <2>1, <3>1
    <2>3. v \in Tagged /\ article[v] \in Articles
      BY <2>1
    <2>4. IsEncoded(e, v)
      <3> DEFINE fields == MapCatalogToFields(v, article[v])
                 payload == EncodePayload(fields)
      <3>1. e = [fields |-> fields, payload |-> payload, ndef |-> BuildNdefRecord(payload)]
        BY DEF Encoded
      <3>2. e.fields = fields /\ e.payload = payload /\ e.ndef = BuildNdefRecord(payload)
        <4> HIDE DEF e, fields, payload
        <4> QED
          BY <3>1
      <3> QED
        BY <2>3, <3>2 DEF IsEncoded
    <2> HIDE DEF v, e
    <2>5. encoding'.variant = v /\ encoding'.answer = e
      BY <2>2
    <2>6. AskedIsEncoded'
      BY <2>1, <2>2, <2>3, <2>4, <2>5
    <2>7. ShownIsHeld' /\ article' \in [Tagged -> Articles]
      BY <2>1
    <2> QED
      BY <2>6, <2>7
  <1>4. ASSUME TagTaken PROVE OpenTagIInv'
    <2>1. /\ held' = encoding.answer.payload /\ encoding' = NoTag /\ article' = article
          /\ result' = [variant |-> encoding.variant, fields |-> encoding.answer.fields,
                         ndef |-> encoding.answer.ndef]
          /\ IsEncoded(encoding.answer, encoding.variant)
      BY <1>4 DEF TagTaken
    <2>2. PICK a \in Articles :
             /\ encoding.answer.fields = MapCatalogToFields(encoding.variant, a)
             /\ encoding.answer.payload = EncodePayload(encoding.answer.fields)
             /\ encoding.answer.ndef = BuildNdefRecord(encoding.answer.payload)
      BY <2>1 DEF IsEncoded
    <2> DEFINE v == encoding.variant
               f == encoding.answer.fields
               n == encoding.answer.ndef
    <2>3. result'.variant = v /\ result'.fields = f /\ result'.ndef = n
      <3>1. result' = [variant |-> v, fields |-> f, ndef |-> n]
        BY <2>1
      <3> HIDE DEF v, f, n
      <3> QED
        BY <3>1
    <2>4. ShownIsHeld'
      BY <2>1, <2>2, <2>3
    <2> QED
      BY <2>1, <2>4
  <1>5. ASSUME TagFails PROVE OpenTagIInv'
    BY <1>5 DEF TagFails
  <1>6. CASE UNCHANGED tagVars
    BY <1>6 DEF tagVars, IsEncoded
  <1> QED
    BY <1>1, <1>2, <1>3, <1>4, <1>5, <1>6 DEF OpenTagNext

\* What a tag that was reported as written holds, and the record that is offered
\* beside it, read back to the fields the page shows; those name the variant that
\* was asked for and no other; and every length that is said is read alike.
THEOREM OpenTagsAreAlwaysSound == OpenTagSpec => []OpenTagsAreSound
  <1>1. OpenTagInit => OpenTagIInv
    BY DEF OpenTagInit, OpenTagIInv, AskedIsEncoded, ShownIsHeld
  <1>2. OpenTagIInv => TagReadsBack /\ TagNamesVariant
    <2> SUFFICES ASSUME OpenTagIInv, result # NoTag PROVE TagReadsBack /\ TagNamesVariant
      BY DEF TagReadsBack, TagNamesVariant
    <2>1. PICK a \in Articles :
            /\ result.fields = MapCatalogToFields(result.variant, a)
            /\ held = EncodePayload(result.fields) /\ result.ndef = BuildNdefRecord(held)
      BY DEF OpenTagIInv, ShownIsHeld
    <2>2. PICK S : MapCatalogToFields(result.variant, a) \in Seq(S) /\ \A f \in S : IsTagField(f)
      BY FieldsOfVariant
    <2>3. /\ ReadPayload(held) = [read |-> result.fields, rest |-> << >>]
          /\ LET r == ReadRecord(result.ndef) IN r.payload = held /\ r.length = Size(held)
      BY <2>1, <2>2, TagFieldsReadBack
    <2>4. TagReadsBack
      BY <2>3 DEF TagReadsBack
    <2>5. TagNamesVariant
      <3> DEFINE v == result.variant
                 fields == result.fields
      <3>1. fields = MapCatalogToFields(v, a)
        BY <2>1
      <3> HIDE DEF v, fields
      <3>2. /\ \E f \in Range(fields) :
                  f.key.is = <<"openfilament_variant_uuid">> /\ f.value.is = <<"variant", v>>
            /\ \A f \in Range(fields) :
                  f.key.is = <<"ofd_variant_uuid">> => f.value.is = <<"variant", v>>
        BY <3>1, FieldsOfVariant
      <3> QED
        BY <3>2 DEF TagNamesVariant, v, fields
    <2> QED
      BY <2>4, <2>5
  <1>3. HeadsReadBack
    <2>1. ASSUME NEW value \in Nat, NEW type \in 0..6
          PROVE  ReadHead(Major(type, value)) = [type |-> type, value |-> value, rest |-> << >>]
      <3>1. << >> \in Seq(AByte)
        OBVIOUS
      <3>2. /\ Major(type, value) \in Seq(AByte)
            /\ ReadHead(Major(type, value) \o << >>) = [type |-> type, value |-> value, rest |-> << >>]
        BY <3>1, HeadIs
      <3>3. Major(type, value) \o << >> = Major(type, value)
        BY <3>2, ConcatEmptySeq
      <3> QED
        BY <3>2, <3>3
    <2>2. {0, 23, 24, 255, 256, 65535, 65536, 16777216, 2147483647} \subseteq Nat
      BY SMT
    <2> QED
      BY <2>1, <2>2, SMT DEF HeadsReadBack
  <1> QED
    BY <1>1, <1>2, <1>3, OpenTagStep, PTL DEF OpenTagSpec, OpenTagsAreSound

\* The fields of both kinds of tags: what was written reads back as it was shown, on
\* the page as on the tag, and says of which spool or variant it is.
THEOREM BothTagsAreAlwaysSound == RfidSpec /\ OpenTagSpec => []BothTagsAreSound
  BY TagsAreAlwaysSound, OpenTagsAreAlwaysSound, PTL DEF BothTagsAreSound
=============================================================================
