# Verification of OpenFilament

TLA+ models of this repository: paid access to My Spools Cloud and its Stripe
webhook, print orders, accounts and sessions, calibration profiles and their
way through slicers, the filament and printer catalogues, the local helper and
its RFID tags, and the pages and forms around them. Each module is translated
from the code named in its header; `PROJECT.json` maps every definition to the
lines it stands for.

Tools: `tlc -config X.cfg M.tla` for the runs, `tlapm M.tla` for the proofs.

1. [The system](#1-the-system)
2. [The modules](#2-the-modules)
3. [The runs](#3-the-runs): what they show, bounds, fairness
4. [Disagreements and observations](#4-disagreements-and-observations)
5. [The proofs](#5-the-proofs)
6. [Not modelled](#6-not-modelled)
7. [Plan](#7-plan)

## 1. The system

OpenFilament is a TypeScript monorepo: a Fastify API over SQLite
(better-sqlite3 through Drizzle), a Next.js web application that keeps a local
inventory in IndexedDB, pure packages, jobs run by hand on the same database
file, and a Rust helper ("bridge") on the user's machine. The API is one Node
process. Its database calls are synchronous, so **a handler runs undisturbed
from one `await` to the next**; everything concurrent in the API happens at
awaits, everything concurrent in the database between API and jobs, and
everything partial at a stop of a process between two statements outside a
transaction (only a few functions open one). On the web side concurrency is
tabs, answers that come late, out of order or never, and effects that close
over the state of an earlier rendering.

| Component | State | What is hard | What makes it correct | Module |
|---|---|---|---|---|
| Cloud entitlement database, `db/cloud-entitlement.ts` | payments, grants, the snapshot | any order of calls; the snapshot is a cache; stacking; grace and retention | snapshot = ledger; no overlap; access = what is paid for | `CloudEntitlement`, `GrantLedger` |
| Stripe checkout and webhook, `api/routes-cloud.ts`, `payments/stripe-provider.ts` | the same, `processed_webhook_events`, Stripe's own | repeated, reordered, retried events; stops between writes; changes of price | paid is granted once; nothing unpaid is granted; a processed event is done | `StripeWebhook` |
| Cloud lifecycle job, `db/cloud-lifecycle.ts`, `routes-cloud.ts` | sent-at columns, `deletedAt`, `user_spools` | the job awaits each mail; stops; renewals | nothing purged early; abandoned data purged; reminders once | `CloudLifecycle` |
| Calendar terms, `db/cloud-entitlement.ts` | – | month ends, leap years, stacking | whole months, no gain from splitting | `CalendarMonths` |
| Local inventory and upload, `web/lib/spools`, `my-spools/page.tsx`, `db/user-spools.ts` | IndexedDB, React state, `user_spools` | tabs, open forms, stale previews, lost answers | no spool and no logged usage lost; answered = stored; the percentage is that of the weights | `SpoolSync`, `SpoolAmounts` |
| The Cloud's spools, `db/user-spools.ts`, `account-privacy.ts` | spools with codes, dryings, usages | unique indexes over owners; an upsert of many statements | a code leads to one spool; no row outlives its spool | `CloudSpools` |
| Print orders, `db/shop.ts`, `routes-shop.ts`, `routes-cloud.ts` | `shop_orders` | late events against the purge; an awaited mail inside the webhook | a paid order is kept and noticed once | `ShopOrder` |
| The shop's pages, `web/app/shop`, `api/routes-shop.ts` | products, cart, the editor's draft | lists and answers out of order; carts in storage | products stay on their page, carts are kept | `ShopShelf` |
| Files on disk, `routes-shop.ts`, `packages/evidence` | directories, rows | disk and database share no transaction | a row names a file that is there | `MediaFiles` |
| Accounts, `api/auth.ts`, `mail.ts`, `db/account-privacy.ts` | users, tokens, deletion jobs | awaits of the password hash; a deletion in steps | a deleted account is empty | `AccountLifecycle` |
| Sessions in the browser, `web/lib/auth.ts`, `lib/api.ts`, `api/index.ts` | cookies, `of_auth` in several tabs | tokens read before, cookies taken at sending | a refusal is explained; pages act as whom they show | `WebSession` |
| Profile revisions, `routes.ts`, `routes-extra.ts` | profiles, revisions, confirmations | publishing is several writes | at most one published; stays published | `ProfileRevisions` |
| Votes, `db/profile-votes.ts` | votes, counters | counters written after the row | counters = votes | `ProfileVotes` |
| Values of a profile, `canonical-profile`, `slicer-*` | documents | fork, import and export each carry a list of fields of their own | a number stays under its own name | `ProfileValues` |
| Aggregation, `domain/aggregation.ts` | samples | quartiles, weights, counts at their limits | one wrong contribution does not move the value | `Aggregation` |
| Filament catalogue and its jobs, `db/import-*.ts`, `dedupe-brands.ts`, `search.ts` | brands, products, aliases, index | jobs beside the API, no transactions | contributions are kept; a merge merges | `Catalog`, `ColourImport` |
| Printers, `db/printer-catalog.ts` | printers, toolheads | renamed rows keep the uuid of the old name | a profile's toolhead fits its printer | `PrinterCatalog` |
| Search, `db/catalog-public.ts`, `web/app/search` | pages of a changing table, a suggestion box | offsets shift; late answers | paging sees all; the preview is full | `CatalogSearch` |
| Forms over the catalogue, `submit-form.tsx`, `export-form.tsx`, `filament-catalog-picker.tsx` | selections, lists asked for | late lists, stale closures | what is selected belongs together | `CatalogForms`, `ExportDesk`, `SubmitDesk` |
| Bridge, `apps/bridge/src` | preset files, folders, backups | file operations fail; folders appear; the helper remembers none | a preset or its backup survives and is found | `SlicerBridge` |
| RFID, `web/app/rfid`, `packages/rfid-*`, `bridge/src/cfs.rs`, `transport.rs` | forms, tags, adapters | two encoders in two languages; silent adapters; CBOR heads | written = shown = read back | `RfidForm`, `OpenPrintTag`, `TagWrite` |
| Code scanning, `qr-scan-panel.tsx`, `qr-label-panel.tsx` | camera streams, loops | awaits for leave, video and detector | the camera is released; labels lead back | `QrScan` |
| Consent and analytics, `web/lib/consent`, `lib/analytics` | storage, cookie, scheduled starts | two stores, several tabs | a refusal holds | `Consent` |
| Server start, `api/index.ts`, `db/seed.ts` | the database's first rows | stops and a seed beside it | the API listens in the end | `ServerStart` |
| Languages, `web/middleware.ts`, `lib/i18n/routing.ts`, `language-switcher.tsx` | a cookie, the page and its frame | redirects, prefetches, other tabs | addresses tell the language; a choice lasts | `Languages` |
| Texts, layout, OpenAPI, migrations, build | – | – | – | none, see section 6 |

Interactions that are modelled. The page uploads to `POST /spools/sync`, which
asks the entitlement view for write access and upserts. Checkout creates a
payment row and a Stripe session; Stripe answers through the webhook, which
writes payments and grants and recomputes the snapshot, and which serves print
orders as well. The daily job reads the snapshot, mails, recomputes it, and
deletes `user_spools`. Account deletion revokes tokens and purges spools. A
submitted profile resolves its printer and filament in catalogues that jobs
rewrite; a profile's numbers pass through forms, revisions, presets and back. A
tag is encoded by site or helper, written by browser or helper, and resolved to
a profile that the helper installs.

## 2. The modules

Conventions. Variables carry the source's names where TLA+ allows it. One
action is one undisturbed stretch of code: a whole handler where nothing
awaits and a stop in between would leave nothing of interest, a single
statement where it would. A stop of a process is an action of its own
(`Restart`, `Crash`, `Stop…`) that loses what the code keeps in memory. A name,
text or payload is a model value or a member of a small set.

**Paid access.** `CloudEntitlement` has one action per function: `payment`,
`grant` and `row` are the three tables; a grant bought by payment `p` has
identity `p`, which is the unique index on `payment_id`; times are ticks;
`DeriveStatus` keeps the code's comparisons, including which are strict, and
`ViewMode` derives access as `getCloudEntitlementView` does, from the row's
`paidUntil` and the clock. `GrantLedger` is the abstract, append-only ledger
that it implements. `StripeWebhook` extends it and takes the webhook handler as
it is written: begin the event, check, write payment and grant (one
transaction), recompute, finish; `Restart` may fall between any two, and the
checkout handler has its await as two actions. Stripe (external) is a record per
session and a set of emitted events, any of which `BeginEvent` delivers at any
time and again. `CloudLifecycle` extends the same database with the daily job:
list, hand one mail over (an await), mark it, and the synchronous purge, while
users write and administrators grant. Nothing keeps cron's run and one an
administrator asks for apart, so each of `Runs` may be at work at once. `CalendarMonths` is
`addCalendarMonthsUtc` and stacking, in days.

**Spools.** In `SpoolSync` a copy is its set of usage entries and its
`syncVersion`. Local writes are two transactions after the handler has read
what it will write; an edit form holds the spool from `OpenForm` to
`SubmitForm`; `Writers` and `Forms` bound how many run at once over all tabs.
The server's upsert is one action per statement with `Crash` in between.
`SpoolAmounts` is one tab's weights and percentages in whole grams: a form holds
what it was opened with, every save goes through `Stored` (`saveLocalSpool`,
which takes what is there for what it is not given), and usage, copies, the
archive button and backup files write the list below it.
`CloudSpools` has several spools of several owners on one server: what is
resolved by uuid, client id and code, the three child tables deleted and
written anew one statement after another, the unique index on codes that may
refuse one, soft deletion, the purge after 30 days, public search and export.

**Orders and files.** `ShopOrder`: checkout, expiry, settlement (late too),
fulfilment, the purge of orders pending for 30 days, and the webhook with its
awaited mail (`turn` is the event whose statements run now, `mailing` those
whose mail is awaited). `ShopShelf`: the editor's page, list and draft, with a
save under way for each click of a button that is never disabled, and the
cart in the browser with its checkout and success pages. `MediaFiles`: pictures
and evidence against their rows, with stops in between.

**People.** `AccountLifecycle`: register, log in, reset, revoke and delete, with
passwords hashed and checked at awaits and deletion statement by statement.
`WebSession`: tabs, two cookies, the stored copy of the user, the hook that
compares token and cookie, the pages that sign in and act, and the page a buyer
returns to. `Consent`: whether a page measures.
`Languages`: one tab's navigations through the middleware, with the cookie that
other tabs and late prefetches set as well. A page has the language of its
address and that of the frame around it, which Next keeps from page to page.

**Profiles.** `ProfileRevisions`: create, revise, publish, fork, confirm and
report as statements. `ProfileVotes`: the vote's row and the counters.
`ProfileValues`: a document is a function from the names it has numbers for, and
a number is told apart by the name under which it was measured; the field lists
of forms, forks, imports, revisions and four slicers are tables of names.
`Aggregation`: quantiles, medians, weights and confidence in exact integers. The
code sorts before it computes, so samples are kept in order, and what is no
outlier is a stretch of them.

**Catalogues.** `Catalog`: brands, products, aliases and the index under
contributions, an import and the merging of brands, jobs row by row.
`ColourImport`: one product's colours under two datasets and visitors.
`PrinterCatalog`: resolve or create, the curated list, a dataset, and the
clean-up, a process of its own that the requests run beside.
`CatalogSearch`: pages, preview and suggestions while rows are added; a row that
replaces another of its name is listed at that one's turn, as in a `Map`.

**Forms.** `CatalogForms`: the steps from brand to colour in four forms (submit,
export, label, picker); a request's answer is
applied by the handler of the rendering that asked. `ExportDesk`: format,
preset and file. `SubmitDesk`: terms, submission, and the share of an address
per hour.

**Helper and tags.** `SlicerBridge`: install, remove and roll back as file
operations, of several threads (`Handlers`) that nothing locks against each
other; which folder is taken when folders appear, whatever way they sort.
`RfidForm`: the page and the two encoders. `OpenPrintTag`: finding, encoding
and reading the fields. `TagWrite`: write and read back over Web Serial, WebUSB,
PC/SC and the simulation. `QrScan`: the camera's panel, and the label.

**Start.** `ServerStart`: seed, ensure, import and listen beside a seed from the
command line, under a supervisor that starts the process again
(`docker-compose` says `unless-stopped`).

**For TLC.** `MCDisputed.cfg`, `MCPurgeAfterRenewal.cfg`, `MCPaidThenRestart.cfg`, `MCSpoolForm.cfg`
and `MCRevokeOthers.cfg` run a module as it is, and
`MCPrinterAgain.cfg` runs `MCPages` with the parts it is not about as small as
they come. `MCStripeWebhook`, `MCCloudLifecycle`, `MCServer`, `MCDesk`, `MCPages`
and `MCInTheEnd` run parts that share no table: the variable `part` picks one at the start, and each
behaviour runs that part only while the others keep an initial state in which
their fair actions are disabled. A run with parts is thus the union of smaller
checks, not a product, and its properties are those of every part.
Where liveness is checked there is no symmetry. In `MCServer.cfg` the import jobs,
the bridge's handlers and the editor's clicks are interchangeable: each starts
as any of its kinds and no property names one; all three pairs are swapped at
once, which is sound because a behaviour has one part.

## 3. The runs

| Run | Expect | Parts | Bounds |
|---|---|---|---|
| `MCCloudLifecycle` | pass | the entitlement database; the daily job | the tables: 2 purchases and a gift of 1 user, or one of each for 2 users; the job: 1 user, 2 gifts, or 1 with a stop or an overlap of 2 runs; clock to 4 |
| `MCStripeWebhook` | pass | webhook; tabs; the buyer's page | 2 payments at one price, or 1 payment, 1 gift, 7 kinds of events and 2 prices (constraint `Small`); 1 restart; 2 tabs, 2 visitors, 2 sign-ins, 1 loss |
| `MCInTheEnd` | pass | webhook; start of the server | 2 payments, 1 price, 1 restart; a start beside the seed, 3 stops |
| `MCPages` | pass | two browsers; one tab; its amounts; forms; export; submission; values; printers | 2 browsers, 3 edits, 1 crash, versions to 4 (two browsers: 3); 2 spools of 2 writes; 3 products, 3 colours; 2 requests under way; 2 revisions; 3 spellings |
| `MCServer` | pass | files; revisions; votes; accounts; shelf; cart; catalogue; imports; presets; folders; RFID form; OpenPrintTag; camera; label; spools | 2 of each, 3 requests to the bridge, see the cfg |
| `MCDesk` | pass | orders; tags; consent; languages; reader, box and preview of the search; calendar; aggregation | 2 orders, 1 stop, clock to 3; 2 writes; 2 tabs; 3 languages; 5 rows; 30 months; 6 samples |
| `MCDisputed`, `MCPaidThenRestart`, `MCPurgeAfterRenewal`, `MCSpoolForm`, `MCRevokeOthers`, `MCPrinterAgain` | violation | see section 4 | the least in which the case occurs |

### What they show

A property that is a conjunction names its parts in the module; each part is a
definition of its own there, with a comment.

| Property | It says |
|---|---|
| `SnapshotAgrees`, `TermsDisjoint`, `WriteAccessIsPaid` | the snapshot is what the ledger implies; terms in force never overlap; nobody writes without a covering term and its grace, and whoever one covers writes, unless a payment of theirs is disputed |
| `GrantsFollowPayments` | `SettledHasGrant`, `RefundEndsGrant`: a grant is written with its payment and ended with its refund |
| `OnlyRevocationShortens`, `GrantsAreALedger` | steps: only a revocation moves a paid-until date back; grants implement `GrantLedger` |
| `PurchasesNeverOverlap`, `GrantIsPaidFor`, `ProcessedMeansDone`, `QuietMeansConsistent` | two purchases never buy the same time; nothing is granted unpaid; a payment whose event is processed has its grant; without a stop the tables agree between requests |
| `SignedInIsSound` | `RefusalsAreExplained`, `ActsAsShown`, `PaidIsShown` |
| `PaidIsGrantedUnlessStopped`, `SnapshotCatchesUp`, `ServedInTheEnd` | liveness: paid is granted, the snapshot is repaired, the API listens |
| `RemindedOnce`, `NothingPurgedEarly`, `AbandonedIsPurged` | the daily job: a reminder repeats at most once for each stop and each run begun beside another; a purge finds an expired term; abandoned data goes (liveness) |
| `SpoolsAreSafe` | `SpoolIsKept`, `AnsweredIsStored`: the spool is in some browser or on the server; what was answered is stored or superseded |
| `AmountsAreSound` | `LoggedInOneTabIsKept`, `PercentFits`: an orderly tab loses no logged usage; the percentage shown is that of the weights, but where it was typed or an empty field was saved over |
| `FormsAreSound` | `SelectionFits`, `FilesAreAsNamed` and `SubmissionsAreSound` (`NothingWithoutTerms`, `ShareIsExact`): a selection belongs together, a saved file is what its name says, no profile without terms, the hourly share is exact |
| `ValuesAreSound` | `ValuesAreTheirOwn`, `PresetsComeBack`: no number is shown under another's name or replaced by a default; what a Creality preset is made of survives export and import |
| `PrintersAreSound` | `ToolheadsFit`, `ProfilesStayPut`: a profile's toolhead is of its printer, and its printer has a name that matching and cleaning lead to from the one it was asked for by, unless a clean-up stopped while it moved the profile or overtook the request that stored it |
| `RowsAreWhole` | a row names a file and a product that are there |
| `PublishingIsSound` | `AtMostOnePublished`, `StaysPublished` |
| `CountsAreTheVotes` | only a stop sets counters and votes apart, and the next vote puts it right |
| `DeletionIsSound` | `DeletedIsEmpty`, `DeletionCanBeRepeated` |
| `ShelfIsSound` | `ProductsStayOnTheirPage`, `CartIsKept` |
| `ImportIsSound` | `NothingIsTaken`, `AgainInsertsNothing`, `OneRowForEach` |
| `MergingIsSound` | `ContributionsAreKept`, `MergedIsMerged` |
| `BridgeIsSound` | `PresetsAreBackedUp` and `FoldersAreSound` (`FoundCanInstall`, `InstalledIsReached`): what an install replaced is kept, unless two requests crossed on one preset or two backups fell in one second; what was installed is reached, unless a folder that sorts first displaced its own |
| `BothTagsAreSound` | `TagsAreSound` (`EncodersAgree`, `SpoolsAreToldApart`, `WrittenAsShown`, `OneWriteAtATime`, `InstalledFits`) and `OpenTagsAreSound` (`TagReadsBack`, `TagNamesVariant`, `HeadsReadBack`) |
| `CodesLeadHome` | `CodesAreSound` (`CameraIsReleased`, `ScanningIsShown`, `LabelsLeadBack`) and `SpoolsAreFound` (`CodesFindSpools`, `ClientsFindSpools`, `NothingIsLeftBehind`, `OnlyOwnersWrite`) |
| `OrdersAreSound`, `PaidOrderIsMarked` | `PaidOrderIsKept`, `NoticedOnce`; liveness: every payment taken marks its order unless a stop lost the event |
| `OkMeansReadBack`, `WriteEnds` | success is shown only of what was read back; every attempt ends, unless a WebUSB adapter stays silent (liveness) |
| `ChoicesHold` | `RefusalHolds` and `LanguagesAreSound` (`RedirectsEnd`, `AddressTells`, `FrameFits`, `ChoiceHolds`, `AlternatesServe`): a page loaded after a refusal, or on which it was given, is not measured; no address is redirected more than twice, a page is in the language of its address, a chosen language lasts, and what a page names as its translations serves them |
| `SearchIsSound` | `WalkSeesAll`, `PreviewIsFull`, `SuggestionsFit` |
| `TermsAreFair` | `SplittingGainsNothing`, `LaterStartsEndLater` |
| `RecommendationIsSound` | one wrong contribution does not move the value; "high" is agreement |

### Bounds and switches

Two of each thing are the least that conflict, stack, overlap or take each
other's name; a third is there where the case needs it (a third edit lets an
imported file be older than two writes; a third spelling is one the clean-up
makes another's). One stop suffices for every place it can fall, since a second
repeats it; `MaxCuts = 3` because a start resumes where the last one stopped,
and there are three such places. Two prices are a change. Clocks reach the end
of two stacked terms with grace, and of one with retention, so that every branch
of `DeriveStatus` happens. While an account runs down its terms are gifts:
the job only sees terms. The bounds are the constants named `Max…`, `…Horizon` and
`Last…`, the sizes of `Runs`, `Handlers` and `Clicks`, and
`Roots`, `Releases` and `SignIns` of the slicers' folders; their comments say
what they cut off, and none changes a behaviour that it leaves. `Horizon` also
refuses a grant that would end beyond it. `CHECK_DEADLOCK FALSE` stands in every
cfg, because bounded clocks, versions and identities let every model come to
its end; where the code must not stop, liveness says so.

Some switches hold back a behaviour the code has and under which a property
fails. They are the preconditions of these properties, and each is reported in
section 4:

| Switch | Set | When turned |
|---|---|---|
| `Namesakes` (`CatalogSearch`) | `FALSE` | rows of one key with another label or material: `WalkSeesAll` fails |
| `Waits` (`ShopShelf`) | `TRUE` | editing under a list of another page: `ProductsStayOnTheirPage` fails |
| `Revisits`, `SideBySide` (`ShopShelf`) | `FALSE` | an old success page, or two tabs: `CartIsKept` fails |
| `Impatient` (`QrScan`) | `FALSE` | Start pressed during a start: `CameraIsReleased` fails |

Elsewhere the runs contain every such behaviour, and the property names what it
does not promise. The model marks where the exception occurred, and nothing
else is excused:

| Property | Does not speak of |
|---|---|
| `WriteAccessIsPaid` | whether a user writes whose payment is disputed (`MCDisputed`) |
| `RemindedOnce` | one repeat for each stop, and for each run begun beside another (`overlaps`) |
| `PresetsAreBackedUp` | a preset two requests were at work on at once (`crossed`), or that was backed up twice in a second |
| `InstalledIsReached` | a slicer with a new folder that sorts before one in use (`displaced`) |
| `RefusalHolds` | a tab whose refusal a scheduled start overran (`overrun`), or that measured already when another tab's visitor refused |
| `ToolheadsFit` | a profile that a stopped clean-up was moving, or that was stored after the clean-up moved its printer's toolheads (`torn`) |
| `SelectionFits` | the profile of an export page opened with one, which stays on offer under every choice (`outside`) |
| `WriteEnds` | a WebUSB adapter that stays silent, for whose answer nothing times out (`SilentUsb`) |

In the forms' part a behaviour goes on only while the page still promises
something (`Promised`): nothing is said of a form whose answer was lost or
overtaken, nor, the submit form apart, of one in which a choice was made while a
list was under way. `ExportDesk` likewise says nothing once the visitor acted
while a request was under way. Parts of `MCPages` run two browsers without forms or one tab with one,
since both together exceed 24 million states; forms in any number are in the
theorems. `Languages` assumes of Next that it keeps the root layout from page to
page, fetches the data of pages with any `Accept`, and prefetches links in view.

### Fairness

- `WebhookFairness`: a running process finishes the request it serves (weak; no
  I/O is awaited there), the daily job recomputes (weak), and Stripe retries an
  event until it is answered 2xx (strong: delivery is possible only while no
  other request is served, which happens again and again).
- `ShopFairness`: the same for print orders, with the mail's await: sendmail
  ends or fails.
- `LifecycleFairness`: cron starts the job, and a run that is at work goes on.
- `TagFairness`: timers and the bridge's loop run. Adapters and tags are not fair.
- `StartFairness`: the supervisor starts the API again (`restart:
  unless-stopped` in docker-compose), and a seed that runs goes on; nobody is
  obliged to start one.
- `FairAccountsSpec` (for `MCRevokeOthers`): an administrator's deletion job
  comes to its end.

Users, customers, administrators and Stripe's other actions are nowhere fair.

## 4. Disagreements and observations

Six runs show behaviour that contradicts a statement of the repository:

| Run | What the code does | Against |
|---|---|---|
| `MCDisputed` | a user whose only payment is disputed goes on writing: the flag goes when the snapshot is recomputed (`cloud-entitlement.ts:239`) | the comment at `cloud-entitlement.ts:562` |
| `MCPaidThenRestart` | an event recorded as received before a stop is a duplicate for ever: the purchase is lost | one ledger row per successful payment |
| `MCPurgeAfterRenewal` | `deletedAt` is never cleared: a second inventory stays | the retention document |
| `MCSpoolForm` | usage logged under an open form is lost when it is saved | auditable usage |
| `MCRevokeOthers` | a page's own session, a cookie, is revoked with the others | the button's text |
| `MCPrinterAgain` | a printer the clean-up renamed is neither found nor created by its old spelling | `docs/PRINTERS.md` |

Each has its counterpart that holds: `WriteAccessIsPaid`, `PaidIsGrantedUnlessStopped` (there is no
other way to lose a payment in the model), `NothingPurgedEarly`,
`LoggedInOneTabIsKept`, `DeletedIsEmpty`, and `PrintersAreSound`.

Behaviour that the models contain, or that came to light while they were
written, and for which no run is kept because each follows from a few lines:

**Paid access.**
- A refund or dispute that arrives before the paid event finds no row, is recorded as
  processed, and the paid event then grants. A session whose id never reached
  the database expires without closing its row.
- After a full refund of the only term export is refused at once, where
  `docs/CLOUD_REFUND_AND_DISPUTE_POLICY.md` promises it during retention.
- The reminders' sent-at columns are never cleared (`cloud-lifecycle.ts:100`), so
  a second term runs out unannounced. "Deletion approaching" is listed only in
  the run that deletes (`:109`). Two runs that overlap, cron's and one of
  `POST /reminders/run`, both send what both have listed. `docs/CLOUD_RETENTION_AND_DELETION.md` gives 14
  and 90 days as defaults where the code has 0 and 30.
- With a stop between grant and snapshot a manual grant may be stacked on a
  stale row, since `grantManualCloudAccess` does not recompute first: hence
  `PurchasesNeverOverlap` speaks of purchases, which do.
- On the buyer's page a late "pending" or a failed poll takes "paid" back; its
  interval goes on and counts the payment up to 20 times; "refunded" shows as
  pending.

**Spools.**
- Two tabs that log usage at once lose one entry. What is uploaded is the
  preview, what is removed is the present copy (`my-spools/page.tsx:147`). A copy
  removed after an upload comes back with version 1 and loses against the server.
- A write that the unique index on codes refuses has advanced the row's version
  and deleted its codes; the client's retry is then stale and silently ignored.
  A deleted spool keeps its code for 30 days, and a sync with its version brings
  it back. A spool with status "archived" but no `archivedAt` is still public.
  Rows inserted and rows updated carry differently written times, so lists mix
  them up within a day. The export leaves out the references to the catalogue
  and `syncVersion`.
- Amounts: a copy of a spool with a tare shows 100 % and weighs less
  (`local-db.ts:365`). An emptied field is not emptied by saving, and leaves the
  old percentage. Usage logged on a weight below the tare raises it to the tare.
  The archive button sets status and `archivedAt`, the form the status alone.

**Orders, shop and files.**
- Products: one saved after it was removed is answered OK and not written; the
  draft of a new tab is blanked when an older save is answered; under a new tab
  the old list stays while it loads, and editing then moves the product.
- Cart: the success page of an old order empties the present cart; after 20
  polls a late payment leaves it full; a line over 99 makes checkout fail with a
  generic error; tabs copy stale carts over each other. An order's amount leaves
  shipping out. A product withdrawn from sale before checkout is passed over
  without a word and leaves the cart with the rest when that is paid
  (`routes-shop.ts`; the proof of `CartIsKept` found it, which until then said
  that only taking out and paying empty a cart).

**Accounts and sessions.**
- Account deletion tests the promise of the password check and not its outcome
  (`routes-privacy-spools.ts:381`); a deletion cut short may leave a password (`docs/PRIVACY_DATA_INVENTORY.md:10`); pending
  deletion jobs are never resumed. A reset link may be used twice at once
  (`mail.ts:132`). Two registrations of one address at once: one is answered 409.
- Two tabs that sign in at once meet 403 `csrf_required`. With a dead session and
  a lost `of_csrf` cookie every write, logging out included, is refused. A
  sign-in cut off between cookies and body, or two that interleave, leave a page
  that shows one user beside a cookie of another. Account pages do not clear
  `of_auth` on 401.
- A refusal under replaced texts starts analytics (`consent-manager.tsx:42`); a
  click before a scheduled start is overrun by it; a tab that measures already
  goes on after a refusal in another.
- `/en/…` asked for with another language's cookie ends in that language
  (`middleware.ts:52`, then `:92`). A prefetch answered late, or another tab,
  overrides a choice. A plain link followed by Next shows an English page in a
  frame of another language, since the fetch does not ask for `text/html`.

**Profiles.**
- A stop between superseding and publishing leaves none published. The
  recommendation joins current with published, so a draft hides it. An export by
  revision exports the current one (`routes.ts:2363-2410`). A confirmation may
  name an unpublished revision (`docs/API.md:27`); its `printerModelId` is never
  written.
- Forks keep 10 fields, imports 7, revisions 13; a revision can take no value
  back; it resets `chamberHeaterActive` and keeps `chamberTempC`;
  `routes-extra.ts` `num()` makes 0 of `false` and `[]`. The rfid-match export
  leaves shrinkage and range out. `docs/FILAMENT_PARAMETERS.md:41` ticks the
  bridge fan for Orca, Bambu and Prusa and the retraction speed for Bambu, but
  only Creality presets have the one and Bambu's lack the other. Orca and Bambu
  presets have no first-layer bed temperature for the textured plate and leave
  the inherited first-layer nozzle temperature where none is given.
- Aggregation: "high" needs five contributions by its comment
  (`aggregation.ts:13`), four by its code (`:164`); its fallback is unreachable.

**Catalogues and search.**
- A merge deletes aliases instead of moving them (`dedupe-brands.ts:134-149`). A
  starter import skips a profile whose revision a stopped run never wrote.
  Contributed brands are not in the index until a job builds it.
- An OFD re-import overwrites what SpoolmanDB filled and visitors' links. It
  matches by uuid only and doubles a community product of one name; SpoolmanDB
  then goes to the OFD row and inserts its colours again.
- `import-open-printers.ts` matches exact names, so two spellings can coexist;
  merging can leave two stock toolheads of one diameter; a stop between moving
  toolheads and profiles leaves a profile on a toolhead elsewhere, and so does a
  profile stored while the clean-up moves its printer.
- PLA and PLA+ of one brand have one key, and one hides the other. Fixtures
  appear among sample variants. Beyond the last page there is no pager. Late
  suggestions overwrite newer ones, even over an emptied box.

**Forms.**
- An old list can be chosen from while its successor loads; a late list of one
  member chooses it over a later choice; an exported preset may be another
  colour's; temperatures of the first colour stay in the submit form.
- An answer for the old format that comes after a switch is shown and saved as
  the new one, for PrusaSlicer as an empty `.ini`. After a lost answer a second
  press stores the profile and the terms again. Refused bodies count against an
  address's share. Recorded terms name the variant, not the profile.

**Helper, tags and codes.**
- Backups of one second overwrite each other, and two installs at once of a preset
  can both find nothing to back up, so that the second replaces the first unkept
  (`presets.rs:55`, `main.rs:81`; `docs/CREALITY_INTEGRATION.md:81`).
  A folder that sorts earlier (a sign-in makes a numbered one before
  `default`) changes where presets are looked for. PrusaSlicer and Bambu presets
  cannot be rolled back through the helper; a backup of `.ini` alone is restored
  and answered "No .json in backup"; `X.JSON` is kept and not listed.
- Serials are padded on the right, so 1 and 10 are one tag; the site refuses what
  the helper truncates; the helper accepts non-hex colours and other materials;
  dates differ. A colour pasted as `0RRGGBB` is encoded but not shown. A mapping
  without a colour may win over an exact one. Late answers overwrite newer ones.
- OpenPrintTag: colours of one OFD product share a material's uuid; a derived uuid
  makes "PLA Silk" + "Red" equal "PLA" + "Silk Red"; lengths are cut by UTF-16
  units; a head above 2^32 is truncated.
- A WebUSB read never times out; PC/SC ignores status words.
- Pressing Start twice leaks the first camera stream; stop and start during a
  detection leave two loops.

**Start.** A stop between the first user and the first brand of a seed makes every
later start fail (`docs/DATABASE.md:32`); a later one leaves a partial
catalogue. A partial import is never resumed.

## 5. The proofs

Checked by tlapm for every value of the constants, from the assumptions in the
modules only (terms positive, windows natural, identities distinct).

**CloudEntitlementProofs.** The invariant `IInv` joins `TypeOK`,
`SnapshotAgrees`, `TermsDisjoint`, `SettledHasGrant` and `RefundEndsGrant` with
one strengthening, `PaymentsAreOwned`: a payment in use belongs to a user. None
of the parts is inductive alone. Terms stay disjoint because a new one is
stacked on the snapshot's `paidUntil`; that this is the latest end of the terms
in force is agreement; and agreement survives a refund because a settled
payment's grant is recomputed under the user who owns both. The maximum over
grants is handled by lemmas on finite sets of times. From `IInv`: the
properties of the run, `WriteAccessIsPaid` among them, the action property
`OnlyRevocationShortens`, and that the specification implements `GrantLedger`:
every step is a credit, a withdrawal or a stutter.

**CalendarMonthsProofs.** Whole months, the order of ends, bounded drift and no
gain from splitting, for every year, start and number of months. The clamped day
is the minimum of the day and the month's length, and a month has at least 28
days.

**SpoolSyncProofs.** `SyncTypeOK`, `SpoolIsKept` and `AnsweredIsStored`, for any
number of browsers, tabs, forms, entries, crashes and versions. `IInv` adds
`TasksAndRequests` (a task knows its browser, an upload holds a copy),
`UploadsHaveRows` (once an upload has written the row, the server has one) and
`OneUploadAtATime`. The second is why a browser may give up its copy; the third
is why nobody else clears the entries an upload is inserting.

`AmountsAreSound`, of `PagesSpec`, has two parts. For the percentage
(`AmountsHold`): what is stored fits its weights, and so does what a form or a
file holds, unless its percentage was emptied; `StoredFits` says that
`saveLocalSpool` keeps that so whatever it finds, `WholeIsFull` that a copy's 100 %
is right where there is no tare. For the ledger, in the part "one tab"
(`TabHolds`): one browser holds the spool, the write in progress has read all that
is logged, and a file is never newer than the copy it was made of, so that no
import begins.

The module also holds the proofs of the three forms that `MCPages` composes,
for any catalogue and any number of requests under way. `FormsIInv` says of
every request what it could have been sent for (`IsAskable`); of the submit
form, that its colour has its product already or the last detail asked for will
bring it (`DetailFollows`); and of a form nobody hurried (`Unhurried`) that a
list on show is the one for what is chosen, or the last request for it is
(`ListsFollow`), that something created is the only thing under way
(`CreatedAlone`), that the picker's handlers hand back a selection that is whole
(`PickerFits`), and that the other forms' handlers saw the present field but for
what was chosen by itself since (`OthersFit`); that the export form's profile is the
chosen colour's or the one the page was opened with, on show outside every list
(`outside`). Answers come in order, so that the
proof follows the queue: what its head sets, the rest still fits.
`FilesAreAsNamed` rests on `DeskIsOrderly`: one request at a time unless one
hurries, and a dialogue is opened for the answer on show. `SubmissionsAreSound`
rests on `TermsCover` (a variant has an acceptance for each of its profiles and
for each page about to send one) and `HitsAreRecent` (the address's array holds
nothing but what this process let through, and all of the last hour's).

And `ValuesAreSound` of `ProfileValues`, whatever is sent and in whatever order
revisions, forks, presets and imports follow. The invariant `ValuesHold` adds that
somebody gave only names a revision has. The rest is about the tables: in every
slicer's table the sources of a key are of one quantity, the first is what the key
means, and one key means the same to each slicer that has it (`KeysAreSources`,
`OneMeaning`); so another source is taken only where the first was given by nobody
(`PresetsAreOwn`). The preset for a spool's tag leaves out whole rows of sources,
never the first of one alone (`AreSources`). What comes back from a Creality preset
is read from the place its number is first saved to (`FirstPlaceIsItsOwn`).

**StripeWebhookProofs.** The four invariants of the run, for any payments, kinds
of events, prices and stops. A handler works over several steps with what it
read at the first, while Stripe's record changes beside it. The inductive
invariant therefore says, step by step, what the request in progress has
established (`RequestIsInOrder`, `WorkerServes`), that an event which says paid
is true of Stripe's record, which never takes a payment back
(`PaidEventsAreTrue`), and that without a stop the snapshot disagrees with the
ledger for no user but the one being served (`OnlyRequestIsBehind`).
`PurchasesNeverOverlap` needs that the recompute in front of a grant has just
been done. And `SignedInIsSound` of `WebSession`, for any number of tabs,
visitors, sign-ins and lost answers. `WebIInv` says how far a request of each
kind gets (`AskIsOrderly`), that a write nothing disturbed has the token of the
cookies it goes with (`TokenFollows`), that a page shows the user whose session
the browser holds (`PageIsOfOwner`), also while a sign-in's cookies have come and
its body has not (`BodyIsDue`). `ReturnIInv` says of the buyer's page that
nothing answers paid before the payment is (`PaidWasPaid`), and that later
answers of orderly polls are not older (`AnswersInOrder`).

**CloudLifecycleProofs.** The database's own `IInv` is kept by every step of the
job and of the users and administrators beside it; on it rest `SnapshotAgrees`
under the job, the refinement of `GrantLedger`, and `NothingPurgedEarly`:
the purge reads the snapshot, which agrees, so that every term in force has
ended. `RemindersAreCounted` tells for each reminder whether its mail is marked,
handed over by some run and not yet marked, or neither; a second run holds it only
if it was begun beside the first. So stops and overlaps bound the mails.

**ServerTablesProofs.** Nine components without a common table.
`CountsAreTheVotes` is inductive with its types. `RowsAreWhole` needs
`FilesComeFirst`: between the file and its row the process holds the name of a
file on the disk. `DeletionIsSound` needs `DeletionIsInOrder`, what each
statement of the deletion has left to the next, and `AwaitedIsHarmless`: a login
or reset that awaits its hash finds, when it goes on, an account that is not yet
closed, or writes nothing that outlives the purge. `PublishingIsSound` needs
`OneIsPublished` with the phase between its two writes (`HandIsInOrder`), dense
revision numbers, so that a new one is new (`NumbersAreDense`), and that a
profile without a published revision is one a stop cut short (`LapsedIsKnown`).

`MergingIsSound`, for any brands, names, products and jobs beside each other: a
job writes what it read some steps ago. What it read stays true until the row is
gone, because ids are never given again (`LiveIsSpent`) and rows change no name
(`KnownIsCalled`, `LosersAreCalled`, `MovedAreCalled`); an undisturbed merge has,
at every step, all rows still on its list that are not their own winner, and
their winners stay (`MergeGoesOn`).

`ImportIsSound`, for any colours, products and jobs: rows are filled in order and
none is emptied, so what a job read is there when it writes (`ReadIsThere`);
while nobody else writes, it is also as it was (`ReadIsTrue`), so that filling
what was missing takes nothing; and a settled table has every colour of the
dataset (`SettledIsComplete`), which an undisturbed second run then finds
(`CalmInsertsNothing`). The last of some rows is one of them by the least-number
principle, which the library has as well-foundedness of `<`.

`BridgeIsSound` in two theorems, for any number of requests and slicers.
`ReplacedIsNeverGone`: while a request is alone on its preset, what it is about to
replace is in place or in the copy it has made; a second request on the preset, or
a second copy in one second, makes it one of the `crossed`, of which nothing is
said. `InstalledIsAlwaysReached`: what the bridge answered is about the folder it
would still take (`KnownIsThere`), as a new folder either sorts after those in use
or displaces its slicer.

`BothTagsAreSound`, for any materials, colours, weights, mappings, names and
temperatures. Of the Creality fields, `FormIInv` says that what is asked for was on
the page, and that a tag holds what the site's encoder makes of such an entry; the
rest is about the two encoders (`EncodersDoAgree`: where both take an entry they
fill the fields alike, but for the date). Of an OpenPrintTag, `OpenTagIInv` says of
which variant an answer and what is shown are, and that the tag holds the encoding
of the fields on show. That this reads back to the same fields rests on lemmas
about the encoding, for every nesting the site produces: a head says its type and
value in one, two, three or five bytes (`MajorHeadIs`, `HeadIs`); an item that is
read leaves what comes after it (`PlainIs`, `ItemIs`, `FieldIs`); pieces put
together are the first and what is left of them (`FlattenIs`), so that what is read
one after the other is what was written (`TextsAre`, `FieldsAre`, `PayloadIs`); and
the short and the long record both say the payload's length (`SizeIs`,
`RecordIs`). The readers are recursive functions: that such a function exists is
shown by giving its values, and that it has no others by the least number where
two would differ (`AlikeSoFar`).

**ShopProofs.** `OrdersAreSound`, for any number of orders and events: the order
Stripe has taken money for has its row (`RowOutlives`: a session that can still
be paid outlives no purge), its event is on its way or handled
(`PaidIsOnItsWay`), and a mail is begun only by the event that turned its row
(`NoticeIsOfRecord`). `ShelfIsSound`: the page of an edited product under
`Waits`, where each click saves a product on the page it was edited on, and the
cart of one tab, where what the tab shows is what the browser stores
(`TabsAgree`).

`PrintersAreSound` of `PrinterCatalog`, for any spellings, printers, toolheads and
profiles, with requests served beside the clean-up and the importers. The clean-up
reads every name once and then works row by row; what it read is still true of the
rows it has not come to (`CleansWhatItRead`), because requests add rows and rename
none, and each row is done at most once. While one row is merged into another, its toolheads have moved and
its profiles have not; the invariant tells the profiles still to move from those
that were left behind by a stop. A request between its statements holds a row
that, if it is still there, is still the machine asked for, and a toolhead of that
row unless the clean-up overtook it (`AskIsSound`); the dataset
finds its rows by the uuids it gave them, under the names it gave them
(`DatasetKeepsNames`). Cleaning need not keep the key by which names are matched,
and a name can be cleaned after it was matched, so "the same machine" is the
closure of both (`SameMachine`): a profile never leaves it.

`CodesAreSound` of `QrScan`, for any spools, codes and starts, under
`~Impatient`: only the last start is ever under way (`StartsAreOrderly`), the
camera is on for the stream the page holds and no other (`StreamIsHeld`),
scanning goes on only over a stream on show (`ScansWhatItShows`), and what the
page turned away from stays off (`AwayIsOff`). An answer to a label's last
request is of its variant (`AnswersAreOfRequests`). `SpoolsAreFound` of
`CloudSpools`, for any owners, bodies, batches and stops: after every statement
an entry is of one spool, that spool is there, and a client id is of one of its
user (`DbIsSound`). A list of entries is stored up to the first that is refused,
so what is stored has no entry twice (`ReplacedIsSound`). What a batch leaves is a
recursive function of its bodies; that it exists, and that each of its values is
sound, is proved at the least number of bodies for which it would fail
(`BatchGoesOn`, `BatchIsSound`). Together they are `CodesLeadHome`.

**DeskProofs.** `OkMeansReadBack` of `TagWrite`, with `AttemptIsOver`: a result is
shown when no transport is open any more. `RefusalHolds` of `Consent`, for any
number of tabs and clicks at any moment: in a tab whose visitor refused, there or
before it was loaded, nothing measures and no start is scheduled, unless one was
when the refusal was clicked (`RefusalIsFinal`). `LanguagesAreSound`, for any languages:
`FetchFitsFrame` counts the redirects an address can still cost, and
`ChoiceIsKept` says where a chosen language is until the cookie and the frame
both have it; what the middleware answers to each kind of address is a lemma of
its own (`RepliesAre`). `SearchIsSound` of `CatalogSearch`, for any rows, names,
pages and limits, under `~Namesakes`: what was found when the search began and
is neither seen nor replaced has at least as many rows before it as the pages
passed hold (`GoesOn`). Rows never come to stand before where they stood, because
whatever stood before one then, or the row that replaced it, stands before it now
(`PlacesGrow`, an injection). For the home page, the ranks of a finite set in a
strict order are the numbers below its size (`RanksAreNumbers`), so a list cut at
a limit is as long as it can be (`LeadingAreMany`). A suggestion under way
belongs to a text no later than the one in the box (`BoxIsOrderly`).
`RecommendationIsSound` of `Aggregation`, for any number of contributions in order
of value: the fences enclose the quartiles, so what is kept is a stretch that has
one of all but the two greatest and one of all but the two least (`KeptIs`), and
its median lies between the second and the last but one. With a length of 4k + r + 1
the quartiles are what `QuartilesAre` says for each r; for r of 1 or 2 the middle
they enclose is one short of half, and the closer of its two neighbours makes up
for it (`MiddleIs`, `HalfAreNear`). The sums of weights exist and grow
(`CumulativeIs`, `CumulativeGrows`, by least counterexample).

Assumptions the proofs rest on, all named in the modules: identities differ
(`None` is no reminder, `NoEvent` no event of the shop, `"none"`,
`"removed"` and `"saved"` no page, `NoRecord`, `NoPage`, `NoTravel`, `NoFolder`, `NoAnswer`,
`Null` and `Unsaved` none of what they stand for the absence of), products,
colours and pages are finite in number, labels, nearness, popularity, values and
trust are numbers, there are materials and weights, a mapping names a known
variant whose profiles are a list, `"paid"` is among the kinds of events a run has, and the
buyer's page polls at least once. The theorems about the shelf, the camera and the
search have a switch of section 3 as their hypothesis; without it the property is
false, as told in section 4.

Only model-checked: liveness (`PaidIsGrantedUnlessStopped`, `SnapshotCatchesUp`,
`ServedInTheEnd`, `AbandonedIsPurged`, `PaidOrderIsMarked`, `WriteEnds`), which the
prover does not reach.

## 6. Not modelled

- **Texts and layout** (`web/lib/messages`, guides, titles, the scripts that make
  them): about a third of the implementation's lines. They hold no state, and a
  model of a text is the text.
- **Schema and migrations**: the tables appear as the variables of the modules
  that use them, with the unique indexes and foreign keys that decide something;
  migrations run in one transaction before anything else.
- **OpenAPI document, health, sitemap, rate limiter of Fastify**: presentation
  and wiring.
- **Ciphers, hashes and codecs as functions**: AES of a tag's blocks, password
  hashing, CBOR integers beyond their heads. The models take them one to one and
  check what goes in and comes out.
- **Print usage ledger** (`domain/usage-tracking.ts`): nothing but its tests uses
  it.
- **Colours in words** (`domain/color-query.ts`): tables of names and a parser
  without state; `CatalogSearch` takes how near a row is to a colour as given.
- **Pages without a sequence of their own** (about, brands, filament detail,
  printers): they show what one request answers.

## 7. Plan

Done so far: paid access, spools, orders and files, accounts and sessions,
profiles, catalogues, forms, languages, helper and tags, start; proofs of
`CloudEntitlement`, `CalendarMonths`, `SpoolSync`, `StripeWebhook`,
`CloudLifecycle`, `ProfileVotes`, `ProfileRevisions`, `MediaFiles`,
`AccountLifecycle`, `ShopOrder`, `ShopShelf`, `WebSession`, `Catalog`,
`ColourImport`, `SlicerBridge`, `PrinterCatalog`, `QrScan`, `CloudSpools`, `TagWrite`,
`Consent`, `Languages`, `CatalogSearch`, `CatalogForms`, `ExportDesk`,
`SubmitDesk`, `SpoolAmounts`, `ProfileValues`, `Aggregation`, `RfidForm` and
`OpenPrintTag`. Every safety property of the runs that pass is a theorem.

To model next, where it adds something: the
tombstones of local spools; the download button of installed profiles
(`install-profile-button.tsx`); a picker that creates an option in flight
(`searchable-select.tsx`); a colour's way from words to a hex and back.
