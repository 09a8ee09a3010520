# A TLA+ model of LibraryHub

LibraryHub lends printed books and lets members read digital ones. An ASP.NET API
(`src/apps/api`) keeps everything in MongoDB, uses Redis for locks, caches and
buffers, and serves a web client for readers (`src/apps/web`) and one for staff
(`src/apps/admin`). No handler uses a MongoDB transaction, most writes replace a
whole document as the handler read it, and every `await` lets other requests run.
What the system promises therefore depends on the order of awaits, on Redis locks
and versions, and on what happens when a handler stops half way. That is what the
modules here describe: **an action is the code between two awaits**, a failing await
or a dying process is an action too, and nothing is undone when it happens.

The two web clients are the other half. They hold copies of what the API stores, send
requests whose answers arrive in any order, and decide what the user believes. Their pages
are many and made of a few hooks and handler shapes; a page is modelled as the record of the
choices it makes, and the steps are those all pages share.

Tools: TLC for the `MC_*` modules, TLAPS for the `*_proofs` modules. `PROJECT.json`
lists components, runs, mutants (a plausible bug for every property), the source
lines each definition stands for, findings, hazards and theorems.

Contents: [1 the system](#1-the-system) · [2 modules](#2-the-modules-and-the-code) ·
[3 runs](#3-what-the-runs-check) · [4 fairness](#4-fairness) ·
[5 proofs](#5-what-is-proved) · [6 findings](#6-where-the-code-differs-from-what-is-said-of-it) ·
[7 not modelled](#7-what-is-not-modelled) · [8 what is left](#8-what-is-left)

## 1 The system

Paths are below `src/apps/api/` unless they start with `src/`.

| Component | State | Operations | Touches | What is hard | What makes it correct |
|---|---|---|---|---|---|
| Borrowing `Modules/Circulation` | `borrowings`, `borrowing_items`, `book_copies.status`, Redis `borrow_lock:{copyId}` | checkout, return, renew, report LOST/DAMAGED | fines, copies, users | locks that expire, handlers that stop half way, stale whole-document writes | a copy is lent once; copies, items and loans agree; limits hold |
| Fines `Modules/ReservationsAndFines` | `fines` | created by return and report; pay, waive | read by checkout and reservation | two settlements at once | one fine per late item; settled once |
| Reservations, same folder | `reservations` of a book with positions | create, cancel, fulfil, expire | fines, copies | find-then-insert, renumbering over old reads | first come, first served; closed stays closed |
| Reading progress `Modules/Reading`, `Workers` | Redis hash per (user, book), Redis set of dirty keys, `reading_progress` | save, get, delete; worker every 30 s | the web client's reading page | cache, document and mark are three stores; versions checked then written | newest position survives; versions never go back |
| Reading sessions `Modules/Reading` | `reading_sessions` | start, heartbeat, end | the web client's reading page | heartbeat against end, answers after the chapter was left | an ended session stays ended, none is left open |
| Reading buffer `Modules/DigitalContent` | Redis string per (user, book) | save, flush | the progress document | flush ignores versions | as reading progress |
| Payment `Modules/Payment` | `payment_orders`, `user_book_accesses`, web window | order, SePay webhook, status poll, access check | SignalR, Redis pub/sub | repeated webhooks, paid before granted, lost messages | who paid may read, who may read has paid |
| Inventory `Modules/Inventory` | `book_copies`, `inventory_transactions` | import, transfer, adjust and others | copies of Borrowing | replaces a copy read two inserts earlier | never undoes a loan |
| Authentication `Modules/Auth` | `auth_sessions`, two cookies per browser | login, refresh, logout, recovery | users, both clients | refresh reads, then revokes; tabs share cookies | rotation signs nobody out, no request waits for ever |
| Roles `Modules/Roles`, `Common/Auth` | roles, `permission:user:{id}` in Redis for 10 min | edit roles; every request reads | all handlers | cache filled after its invalidation | a withdrawn right ends |
| Catalog `Modules/Catalog`, chapters in `Modules/DigitalContent` | one document per book with its chapters | edit, set status, archive; add, edit, publish, hide, list chapters | reviews, staff pages | whole-document and field writes mixed | no saved work is lost; numbers unique, counts right |
| Reviews `Modules/Catalog` | `reviews`, rating inside the book | create, change, delete | book | list, then write the average | rating agrees with the reviews |
| Notifications, presence `Modules/Notifications` | `notifications`, a Redis key per user | create, read, delete | none | bulk creation stops half way | none worth a model |
| Search `Modules/SearchAndRecommendation` | search history | queries | catalog, progress | none | none |
| Files, media | Cloudinary, `file_assets` | upload, delete | catalog | pure I/O | none |
| Rate limiter `Common/Middleware` | Redis counter with expiry | count a request | all handlers | INCR and EXPIRE are two calls | nobody is shut out for ever |
| Promotions, e-mail campaigns, reports, settings `Modules/Promotions`, `Modules/Admin` | one collection each | create, list, delete, send | users | a campaign claimed and never finished | each recipient once |
| Audit, errors, trace ids | `audit_logs` | around every request | all | none | none |
| Clients: session `src/apps/*/src/lib/api-client.ts`, `auth-context.tsx` | cookies, who is signed in, the refresh under way | call, 401, refresh, repeat; log in and out | Authentication | requests that wait for one refresh, tabs that race | as Authentication |
| Clients: lists | query, page number, debounce, rows, loading, error | type, pick, turn, retry; operate on rows | every GET of a list | answers in any order | the list is the answer to what is asked |
| Clients: forms and dialogs | fields, button, dialog, own copy | type, attach, send, close | every POST, PUT, DELETE | answers after the page has changed, lost answers | shown is stored, stored once, typed is kept |
| Client: reading page | place, timers, session of the chapter | open, scroll, turn, hide, leave, close | Reading progress, Reading sessions | saves nobody waits for | the place left is the place stored |

How they meet: checkout, reservation and return all read and write `book_copies`
and `fines`; inventory replaces the same copies; payment grants what the reader
pages check; the reading page saves what the worker carries to MongoDB, and `ReadingRoom`
ends where `ReadingProgress` begins. Reviews and chapter edits write the same document,
which is why `BookDocument` has both. Every interaction in the API is through the stores: no
handler calls back into another one. Clients meet the API by requests alone, apart from the
SignalR message of `BookPurchase`.

## 2 The modules and the code

| Module | Models | Extends |
|---|---|---|
| `Circulation` | `BorrowingService`, `BorrowingRepository`, copy updates, `RedisLockHelper`, settlement of fines | |
| `LoanLedger` | what the desk promises, without locks, writes or failures | |
| `CirculationInv` | the inductive invariants, the mapping to `LoanLedger` | `Circulation` |
| `Circulation_proofs` | proofs | `CirculationInv` |
| `ReadingProgress`, `_proofs` | `ReadingProgressService`, `ReadingProgressSyncWorker`, bulk upsert | |
| `Bookmark` | what a reader is promised: the book opens where it was left | |
| `Sale` | what the shop promises: sold once, after payment, for good | |
| `ReservationQueue`, `_proofs` | `ReservationService`, `ReservationRepository` | |
| `WaitingList` | what the waiting list promises, without positions or failures | |
| `BookPurchase`, `_proofs` | `PaymentService`, webhook controller, SignalR message, `PaymentModal.tsx` | |
| `BrowserSession`, `WebClients_proofs` | tokens of one browser: `AuthService` login, refresh, logout; `api-client.ts`, `auth-context.tsx` and gates of both clients | |
| `ListPages`, `_proofs` | `use-async.ts`, `use-debounce.ts`, and the 26 list pages built on them or on loads of their own | |
| `BookDocument`, `_proofs` | `BooksService`, `ChapterService`, `ReviewService`, `BookRepository`, and the staff pages for books and chapters | |
| `FormPages`, `WebClients_proofs` | 17 forms, dialogs and detail pages of both clients | |
| `ReadingRoom`, `_proofs` | `useReadingProgress`, `useReadingSession`, `BookReaderContainer`, the API's reading sessions | |
| `MC_*` | instances for TLC | |

### Circulation

*State.* `copyStatus`, `items`, `loanStatus` are the three collections; `lock` is
the Redis key of a copy with its token (request, position); `unpaid` and
`overdueFines` count fines. A checkout request is named after the loan it may
create and has a program counter `pc`, its list of copies, the loop index and how
many locks it took. A desk call (`Desk`) has the same for return, renew and report,
and keeps the documents it read (`seen`), because what it writes is those.

*Checkout* (`CreateBorrowingAsync`, lines 40-147): `Submit`, `CheckFines`,
`CheckLimit`, then per copy `AcquireLock`/`LockTaken` and `ReadCopy`, then per copy
`WriteCopy`, `InsertBorrowing`, `InsertItems`, and the finally block's
`ReleaseLock` one by one. `RequestFails` (an await throws), `AcquireUnheard` (SET
took effect, its answer was lost), `ReleaseFails`, `RequestDies` and `LockExpires`
are what may go wrong. *Return* (173-246): `StartReturn`, `TakeItem` with the fine
before `WriteReturned`, `Shelve`, `RefreshItems`, `WriteLoan`. *Renew* and *report*:
`StartRenew`, `WriteRenewed`; `StartMark`, `MarkItem`, `MarkCopy`, `MarkFine`.

*Abstractions.* The member's ACTIVE check is part of `Submit`. The count of active
items is one read (two in the code, of loans and of their items). Reading and
writing the copy of a return are one step. Calls name items of the loan. Time is
days. Copies are not deleted. Fine amounts are not modelled, fines are counted, and
settling one is a single step.

*Switches*, each an assumption a run can drop: `LockOutlivesRequest` (a checkout
ends within the 10 s its locks live), `OneJobPerLoan` (one desk call per loan at a
time), `MarksBorrowedOnly` (only BORROWED items are reported, as the page
`src/apps/admin/src/app/(admin)/borrowings/[id]/page.tsx` offers). *History:* `raced`,
the loans whose limit was checked while another checkout of the member stood between its own
check and its insertion.

### ReadingProgress

One (user, book) key: the hash and whether it has an expiry, the mark in
`reading_progress:dirty`, the document, the requests, and the worker's pass.
`SaveProgressAsync` is `BeginSave`, `CheckRedis`, `CheckMongo`, `WriteHash`,
`SetExpiry`, `MarkDirty`; `GetProgressAsync` is `BeginGet`, `Lookup`, `CacheBack`,
`CacheExpiry` (a hit changes nothing); deletion is `DeleteDocument`, `DeleteHash`,
`DeleteMark`. The worker's pass is `StartPass`, `TakeKey` or `DropMark`,
`ReadPlace`, `ReadVersion`, `WriteDocument`, `Unmark`; its 30 s delay is the
freedom to start any time.

*Abstractions.* Six fields of a position are one `place`, and the worker's seven HGETs
are two reads, of the place and of the version: enough to mix two positions.
Versions start at 1. `Opens` is the place a GET would answer with. The buffer endpoints,
which no page calls, are left out, so the results are about clients that save
through `POST /Reading/progress`.
*Switches:* `OneDevice` (requests for the key come one at a time) and
`SyncWithinTtl` (a hash waiting for its sync does not reach its 7 days). *History:*
`disturbed` records what fell into a pass, was cut short, or expired before it was marked;
`overtaken` the requests that looked at the hash before another one wrote it.

### ReservationQueue

The waiting list of one book: `doc` (status and position), `reservedAt`, requests
that create, requests that cancel or fulfil, and what each of these has read.
Creating is `BeginCreate`, `CheckExisting`, `CheckCopies`, `ReadPosition`,
`InsertReservation`; changing is `BeginChange`, `ReadReservation`,
`CloseReservation`, `ReadQueue`, then `Renumber` one replacement at a time and
`FinishChange`; `Fail` stops any of them.

*Abstractions.* Nothing writes READY, so the active reservations are the WAITING
ones. The checks on member, fines and book refuse or not, freely; so does the number
of available copies. `reservedAt` counts insertions. Equal positions are sorted in
any order. Steps that only read for the answer after the last write are left out.
*Switch:* `OneChange` (one cancellation or fulfilment at a time). *Histories:* `raced`
records that two create requests were served at once, `closedSince` which reservations others
closed after a cancellation or fulfilment had read them.

### BookPurchase

Orders, accesses, transfers that reached the bank, webhook requests being served,
and the payment window of each order. `CreatePaymentQr` draws any code;
`Deliver` is SePay's report, again and again until 200; then `FindOrder`,
`OrderNotFound` or `AlreadyPaid`, `MarkPaid`, `FindAccess` (`AccessFound`,
`AccessMissing`), `GrantAccess`, `PublishPaymentSuccess`, `Acknowledge`;
`HookFails` stops it anywhere. `PollStatus` and `CloseWindow` are the window.

*Abstractions.* Free or unpublished books are refused and nothing happens. Amounts
are not modelled: no line of the code compares the amount transferred. `FirstOrDefault` takes any order
with the code. A transfer happens once per code, its reports many times. The answer for
an order already SUCCESS is one step with its read. A window closes only before it
shows success; afterwards it closes itself. No assumption is made of SePay except for
liveness. *Histories:* `cut` (orders whose webhook stopped after SUCCESS and before
the access) and `raced` (rights two requests found missing at once).

### BrowserSession

One browser. `jar` is its two cookies, `live` the refresh tokens with a session, `req` the
requests of pages, `ref` the refresh of each caller: an admin tab shares one
(`refreshInFlight`), the reader's interceptor starts one per request. A request is sent
(`OpenAdmin`, `OpenSite`, `CallApi`, `LogInAdmin`, `LogInSite`, `LogOut`), is `Served`, or
`Refused` with 401; then `RefreshAdmin` or `JoinRefresh`, and it is sent again or ends in
`SessionExpired`. `RefreshTokenAsync` is `FindSession`, `RevokeOld`, `InsertNew`,
`AnswerNew`; login and logout are `OpenSession` and `RevokeSession` with their answers.
`RequestFails` and `RefreshFails` lose a call or its answer; `AccessLapses` ends the 15
minutes at any moment; `Reload` starts a tab anew.

*Abstractions.* Tokens are numbers in the order of issue. What a call does besides being
refused or served is not modelled. Left out: account locks, the seven days of a session, the
page that revokes sessions, permissions, Google login, registration and recovery.
*Histories:* `contested` (tokens two parties had under way at once) and `spoiled` (tokens
whose refresh or logout was cut short).

### ListPages

A page is a record of its choices: does it use `useAsync` (which takes only the latest
answer), what its search field does, who pages, how operations come back into the list. The
26 records name the pages they stand for. `Type`, `TimerFires`, `TypeLocally`, `TypeInUrl`,
`Pick`, `TurnPage` and `Refresh` are the user and the 400 ms debounce; a request is `Serve`d
and then taken (`Take`) or `Redirect`ed from past the end (search page), or it `LoadFails`.
`ClearFilters` is the search page's button: it empties the query and leaves the uncontrolled
search field as it is (`BookSearchAndFilters.tsx:342-353`, `391-398`). An
operation is `Submit`ted, `Commit`ted by the API, `Acknowledge`d, and ends the page's way:
asked again (`Retried`), loaded (`Loaded`, `LoadedAgain`, `WentHome`), merged (`Merged`), or
shown first and put back (`Confirmed`, `OperationFails`).

*Abstractions.* A row set is the query an answer is for and the operations it shows; two words
and two picks stand for all filters. Which pages there are of a query does not change.
*Histories:* `cleared`, that the filters were cleared after the last word was typed, and
`crossed`, that two requests of a page taking every answer, or an operation and a
request, ran at once. Where these crossed nothing can be said of these pages: they show whichever
answer came last. `AsyncNeverCrosses` says that `useAsync` pages need no such excuse.

### BookDocument

One document `book` with its chapters, the collection `reviews`, a page and a call per caller.
Pages: `OpenBook`, `OpenChapter`, `Type`, `TypeChapter`, `ChooseImage` with `ImageUploaded` or
`UploadFails`, `OpenChapters`, `Close`. Calls are sent by `SubmitBook`, `ChangeStatus`,
`ArchiveBook` (the API's DELETE), `SubmitNewChapter`, `SubmitChapter`, `TogglePublish`,
`Review`, and go through the awaits of their handlers: a read (`ReadBook`, `CheckNumber`,
`ReadChapter`, `ReadReviews`, ...) and writes of the whole document (`ReplaceInfo`,
`ReplaceStatus`, `ReplaceStatusAndInfo`), of one chapter (`AddChapter`, `EditChapter`,
`PublishChapter`, `RemoveChapter`) or of fields (`PublishBook`, `RepairStatus`,
`WriteRating`). Listing the chapters writes too: it repairs the status.

*Abstractions.* What is typed is a set of changes; information and text are the changes they
contain. A rating is the reviews it was computed from. Left out: reordering, creation of the
book, checks of title and ISBN, covers, the size guard, duplicate reviews, `$inc` of views,
and two buttons of one page at once. *Histories:* `acked` (what pages were told),
`over` (what a call wrote over unseen), `disturbed` (bookkeeping two calls did at once).

### FormPages

An operation is a record of its handler's choices (which button it turns off, what becomes of
the answer, whether fields are cleared, what the dialog does, what may be attached while it is
sent), a page the set of its operations. Two fields name what becomes of typed text: `wipes`, a
report of a lost or damaged item, whose page swallows the error so that the dialog clears the
note after a failure as well (`borrowings/[id]/page.tsx:116-118`,
`mark-item-status-modal.tsx:26-27`), and `follows`, the profile of a user, which
react-hook-form fills anew (`Follow`) whenever the full name the page shows changes
(`users/[id]/page.tsx:151-161`). `OpenDialog`, `Type`, `ChoosePicture`, `Submit`, `CloseDialog` are the user;
`Store`, `CoverUploaded`, `List` the API; the answer is `Replaced`, `Merged`, `Spread`,
`AskAgain`/`Listed`, or the page is `Left`. `SendFails`, `ListFails`, `CoverFails` and
`PictureFails` lose a request or its answer.

*Abstractions.* What a page shows is which operations each of its two rows has had. The
first load is `ListPages`, the forms of a book and a chapter are `BookDocument`. Left out:
the step of the password pages that requests a code. The card of a loan's fines is a page of its
own, so a fine that a later return creates and the page's own list of fines hides
(`borrowings/[id]/page.tsx`) is not seen. *Histories:* `crossed` (two operations
on one row at once), `missed` (an answer not shown by a page without its own copy), `late`
(what came into a form while it was sent), `lost` (an answer lost after the API stored),
`saves` (the operations that wrote the fields of the form that follows).

### ReadingRoom

One tab: the chapter and place on screen, the save timer, the places still to be scrolled to,
a visit per chapter shown with its session, and the calls on their way. `Scroll`, `ClickLink`,
`PressKey`, `Hide`, `Show`, `Leave`, `Close` are the reader; `Render`, `Mount`, `Turn`,
`Restore`, `TimerFires`, `Beat` the page; `StoreSave`, `OpenSession`, `ReadSession`,
`ReplaceSession` the API; `Tracked`, `EndOrphan`, `NobodyHears` the answer to a session start.
Nobody waits for a save, so they are stored in any order.

*Abstractions.* A place stands for the percentage computed from it. The API's save is one
step, because this client always sends version 1, which never refuses another 1;
`ReadingProgress` has the steps inside. The two hooks share no state: `hooks` chooses which
run, and the instance takes one at a time. Left out: bookmarks, settings, a link without a
chapter, the second save of `pagehide`. *Histories:* `lost` (the latest save lost), `newest`
(the latest save served), `unsure` (sessions whose end was not sent, was lost, or was sent
while a heartbeat was under way).

## 3 What the runs check

A passing run visits every state of its instance. Each property has a mutant: a small
bug in a definition of the module (a dropped guard, a swapped step) under which TLC
finds the property violated, so that none of them holds by the shape of the model.

| Run | Instance | Shows |
|---|---|---|
| `checkout` (165 000 states) | 2 requests by one member; 3 copies; lists of one copy, two copies in either order, one copy twice; 3 failures; `FairSpec` | `NoDoubleLoan`, `LoanLimit`, `LockRemovedByOwner`, `RequestAnswered`, `LockFreed` |
| `desks` (8.13 million) | 1 loan, of one copy or of one copy given twice, 2 desks at once, a day passing, 1 failure; all switches FALSE | `BorrowedAccounted`, `RenewCap` |
| `faults` (1.29 million) | 2 loans of one copy by 2 members, one desk, 2 failures | `CopyFollowsItem`, `OneOverdueFine`, `LoanClosedWhenBack`, `LedgerSpec` |
| `sync` (305 000) | 3 requests of one device, versions 1 and 2, 2 failures; `FairSpec` | `LossNeedsARace`, `CacheNotBehind`, `BookmarkSpec`, `SavesReachMongo` |
| `turns` (1.92 million) | 4 create requests of 3 members, 2 changes one at a time, 1 failure | `QueueInOrder`, `ClosedForGood`, `Compacted`, `ListSpec` |
| `purchases` (321 000) | 2 orders, 2 codes, 2 webhook requests at once, 1 failure; `FairSpec` | `PaidIsReadable`, `BooksBalance`, `SaleSpec`, `TransferOpensBook`, `WindowLearns` |
| `tabs` (438 000) | an admin tab with 2 requests and a site tab with 1, 3 starts, 1 failure; `FairSpec` | `HeldTokenIsGood`, `RefusedForCause`, `RequestsSettle` |
| `lists` (1.97 million) | all 26 list pages; 2 words, 2 picks, lists of 2, 1 and 0 pages; 2 inputs, 2 operations, 1 failure | `ListIsTrue`, `CatchesUp` |
| `document` (3.14 million) | 2 staff, 2 readers, 2 chapters, numbers 1 and 2, 2 changes, 2 ratings; 3 calls, 1 failure | `WorkKept`, `CountsAgree` |
| `forms` (167 000) | all 17 pages; 2 rows, 2 changes, 2 operations, 2 failures; `FairSpec` | `ShownIsStored`, `StoredOnce`, `TypedIsKept`, `ButtonsComeBack` |
| `room` (2.31 million) | 2 chapters shown, 2 places, 4 moves of the reader, 1 heartbeat, 1 loss; one hook at a time; `FairSpec` | `SavedWhereLeft`, `OpenWhileRead`, `EndedStaysEnded`, `ReachesTheApi` |
| `ttl_double` | two requests, `LockOutlivesRequest` FALSE | `NoDoubleLoan` violated, section 6 |

The properties, by what they are for:

- *Lending.* `NoDoubleLoan`: a copy is BORROWED by one loan at most. `CopyFollowsItem`:
  a copy some loan still answers for is never AVAILABLE. `LockRemovedByOwner`: a late
  compare-and-delete frees nobody else's lock. `RenewCap`: renewals stay within their limit
  although desks overwrite each other's items. `LoanLimit`: a member is past the limit only by
  loans whose check raced with another checkout of the member; nothing else that happens
  between the count and the items gets anybody past it. `BorrowedAccounted`: without failures no
  BORROWED copy is stranded. `LoanClosedWhenBack`: the loan's status agrees with its items.
  `OneOverdueFine`: one fine per late item and one more at most per failure. `LedgerSpec`: all
  of this together implements `LoanLedger`, where a loan takes its copies in one step.
- *Reading.* `BookmarkSpec`: hash and document together implement `Bookmark`, where a save
  moves the mark at once and never back, a deletion takes it out, and expiry, worker and cached
  answers do not show; after a race or a cut the mark is still at a place that was saved.
  `CacheNotBehind`: the cache may answer for the document. `LossNeedsARace`: a saved position is marked or in MongoDB, unless its save
  fell into a pass or was cut short. `SavesReachMongo`: what is marked gets there.
  `SavedWhereLeft`: once everything has arrived the API has the chapter and place the tab
  showed last. `OpenWhileRead`, `EndedStaysEnded`: of chapters leafed through faster than
  their sessions open, none stays open. `ReachesTheApi`: both happen in the end.
- *Waiting.* `QueueInOrder`: first come, first served, unless create requests raced. `ClosedForGood`:
  however cancellations and fulfilments overlap, a closed reservation is written again only by
  one that had read it before another one closed it. `Compacted`: every renumbering leaves 1..n, whatever was left
  before. `ListSpec`: members see a list where one joins behind the others, never twice (`OneActivePerMember`), and leaves without disturbing them
  (`WaitingList`).
- *Buying.* `PaidIsReadable`: SUCCESS means readable, or the webhook is on its way or was
  cut short there. `BooksBalance`: access ⇒ SUCCESS ⇒ transfer, 200 ⇒ SUCCESS, one access per
  right. `SaleSpec`: orders, access, requests and windows implement `Sale`, where an order is
  sold in one step, once and after its transfer; its book opens for good; and bank and windows
  hear of sales only. The one flaw the promise allows is `Forget`, where a request stops between
  order and access.
  `TransferOpensBook`, `WindowLearns`: what a transfer leads to, with the exceptions named.
- *Signing in.* `HeldTokenIsGood`: rotation leaves the browser a token with a session.
  `RefusedForCause`: the requests of one admin tab never sign each other out.
  `RequestsSettle`: no page loads for ever.
- *Cataloguing.* `WorkKept`: what a page was told was saved stays, unless something unseen was
  written over. `CountsAgree`: numbers are distinct, `totalChapters` counts, the rating is that
  of the reviews, unless two such calls ran at once.
- *Pages.* `ListIsTrue`: a list at rest is the answer to what the page asks, with the
  operations that succeeded and no others. `CatchesUp`: the screen gets to what
  the search field says, or, once the filters were cleared, to no word at all, whatever the field
  still says. `ShownIsStored`, `StoredOnce`, `TypedIsKept`,
  `ButtonsComeBack`: the four things a form can get wrong. `TypedIsKept` has two exceptions
  because the code has them: a failed report takes its note along, and the profile of a user is
  filled anew when operations crossed or an answer was lost (section 6).

Several properties carry an excuse (`crossed`, `over`, `disturbed`, `contested`, `unsure`,
`raced`, `overtaken`, `closedSince`, `cut`). Each is a history variable set where the race happens, never a consequence
of the bad state, and each names a behaviour the code really has; the property says that there
is no other way to go wrong. The races of `PROJECT.json`'s hazards are those.

*Why the bounds are enough.* Every hazard listed in `PROJECT.json` involves two actors, or
two actors and a failure; each instance has these and one more where a third party could
matter (the fourth reservation, the third save, the second tab).
Failures are counted, not scheduled: the one or two of a run may strike at any await of any
actor. `checkout` lowers the limit of active items to 2 so that two requests of one member reach it, whether their counts race or not; the runs with
desks lower renewals to one. Two versions suffice to order two saves, and a tie. Two
orders may draw one code, be for one book, or for two. Two inputs and two operations let every
pair of a list page's requests cross, and two operations of a page let one reset what is typed
for the other; three starts let two requests of a tab wait for one
refresh while another tab spends the token; three calls let two writers of a document and a
third party meet; four moves show, scroll, turn and leave. The bounds are the constants named
`Max...`, the sets of requests (each served once) and, for webhooks, how many are served at
once (each any number of times). The proofs of section 5 need none of them.

*Deadlock* is not checked: every instance ends when its requests are used up, and a system
nobody uses stops legitimately. Symmetry is used only where no liveness is checked (`turns`:
cancellations; `document`: staff, readers and chapters).

## 4 Fairness

| Assumed | Because |
|---|---|
| a request being served takes its next step (weak; `Circulation`, `ReadingProgress`, `BookPurchase`) | the runtime resumes an awaiting handler; failures are other actions and stay possible |
| Redis expires locks (weak, `LockExpires`) | SET is sent with an expiry of 10 s; a lock that is still held by a live request is under `LockOutlivesRequest` |
| the worker goes round (weak, `Sync`) | its loop catches every exception and starts again after 30 s |
| an open window polls (weak, `PollStatus`) | an interval of 4 s runs until success or closing |
| SePay reports again until 200 (strong, `Report`) | SePay is external; this is the retry the webhook's answers 400 and 500 ask for. It is strong because webhook slots are a bound of the model and may be taken again and again |
| every request and refresh is answered, and its handler runs on (weak, `Answer`, `Refresh`; `BrowserSession`) | a lost one ends in `RequestFails` or `RefreshFails`, as fetch and axios report it |
| requests are served, answers taken, timers fire (weak, `Progress`; `ListPages`, `FormPages`) | the browser's event loop and the API work on; which goes first is open |
| timers and frames run, requests that are not lost arrive (weak, `Page`, `Served`; `ReadingRoom`) | the same |

Nobody must check out, save, reserve, buy, type, press a button or read, no progress hash
must expire, no cookie lapse, no heartbeat be sent and no SignalR message arrive.
`ReservationQueue` and `BookDocument` state no liveness: no step waits for another one.

## 5 What is proved

For every value of the constants (`TLAPS`; the only assumptions are the named `ASSUME`s on
constants and, where stated, the switches):

| Module | Theorems | Under |
|---|---|---|
| `Circulation_proofs` | `TypeCorrect`, `LockRemovedByOwnerHolds`, `RenewCapHolds` | nothing |
| | `Invariance`, `NoDoubleLoanHolds`, `CopyFollowsItemHolds`, `OneHandlerHolds`, `Refinement`, `LedgerPromise`, `BorrowedAccountedHolds`, `OneOverdueFineHolds`, `LoanClosedWhenBackHolds`, `LoanLimitHolds` | `CarefulLibrary` = `LockOutlivesRequest`, `OneJobPerLoan`, `MarksBorrowedOnly` |
| `ReadingProgress_proofs` | `ProgressTypes`, `RollbackNeedsOverlapHolds` | nothing |
| | `ProgressInvariance`, `BookmarkHolds`, `LossNeedsARaceHolds`, `CacheNotBehindHolds`, `VersionsRiseHolds`, `DocumentVersionsRiseHolds` | `OneDevice`, `SyncWithinTtl` |
| `ReservationQueue_proofs` | `QueueTypes`, `ClosedForGoodHolds` | nothing |
| | `QueueInvariance`, `CompactedHolds`, `QueueInOrderHolds`, `OneActivePerMemberHolds`, `ListRefinement` | `OneChange` |
| `BookPurchase_proofs` | `PurchaseInvariance`, `PaidIsReadableHolds`, `BooksBalanceHolds` with its halves, `ShownIsPaidHolds`, `SaleHolds` | nothing |
| `WebClients_proofs` | `SessionTypes`, `SessionInvariance`, `NobodyWaitsInVainHolds`, `HeldTokenIsGoodHolds`, `RefusedForCauseHolds` | nothing |
| | `FormTypeCorrect`, `FormInvariance`, `ShownIsStoredHolds`, `StoredOnceHolds`, `TypedIsKeptHolds`, `OffForCauseHolds` | nothing |
| `ListPages_proofs` | `ListInvariance`, `ListIsTrueHolds` with its three parts, `OnlyTheLatestHolds` | nothing |
| `BookDocument_proofs` | `DocTypes`, `DocInvariance`, `WorkKeptHolds`, `CountsAgreeHolds` | nothing |
| `ReadingRoom_proofs` | `RoomTypes`, `RoomInvariance`, `SavedWhereLeftHolds`, `OpenWhileReadHolds`, `EndedStaysEndedHolds` | nothing |

*Circulation.* `NoDoubleLoan` is not inductive: a request between its last read and its
insert has decided on copies nobody else may take. `IInv` says so: `OwnsLocks` (a working
request owns each lock it took), `Reserves` (what it read AVAILABLE stays with nobody, with
the status it last saw or wrote), `NoItemsYet`, `OneOpenItem`, and for the desk `DeskShape`
(what a call read is still so when it writes), `OneCallPerLoan` and `ShelfPending` (between
item and copy of a return the copy is nobody's). Locks make `Reserves` stable against other
checkouts, `OneOpenItem` and `ShelfPending` against the desk. `Refinement` maps item
documents to ledger entries: `InsertItems` is `Lend`, `WriteReturned` is `TakeBack`,
`MarkItem` is `Report`, and everything else stutters. `RenewCap` needs none of this and no
switch: it is inductive once it is said of the documents desk calls have read as well.
`FineInv` keeps an item that is neither back nor about to be written at no more fines than there
were failures; only a failing return leaves a fine without its item. `CloseInv` says that nobody
works on a loan whose items are not there yet, and that a computed status still fits the items
when it is written. `LimitInv` says that of a member's working requests at most one has not raced, and adds
to what the member's loans outside `raced` have in hand what that one has been allowed to add;
that the count of step 3 misses no BORROWED item follows from `CloseInv`. `BorrowedAccounted` is inductive with `IInv`.

*ReadingProgress.* `VersionsInOrder` chains the versions of document, worker's copy, hash and
request about to write; `Checked` carries a comparison across the awaits after it. `LookHolds` is the part of it that is
left without any switch: who has looked at the hash and was not overtaken is still right about
it, so a write that lowers the version was made by one who was (`RollbackNeedsOverlapHolds`);
`NothingLost` says where a position that is not in MongoDB is still remembered. `BookmarkHolds`
maps the mark to the hash, or to the document when there is none. `WriteHash` is `Save`;
`DeleteDocument` or an expiry during a deletion is `TakeOut`, `DeleteHash` is `EndDelete`, and
a refusal, a GET or a failure before the write is `GiveUp`. `WriteDocument`, `CacheBack` and
an expiry stutter, each because of `VersionsInOrder` or `NothingLost`; `Sourced` gives what is
left of the promise while `disturbed` is not empty.

*ReservationQueue.* `Current` says that what a change request read is still so, or as it left
it; `Checked` that what a create request read still bounds every position. `ClosedIsNoted`, which
needs no switch, says that whom a change request has read and who has been closed since is noted
as such, whichever request did it; `ClosedForGoodHolds` follows. That renumbering
moves nobody back needs "the i-th of a list of distinct positive positions is at least i",
which is proved by counting (`PlaceAtMostPosition`), since induction is out of reach.
`ListRefinement` maps the positions to the order they give: only an insertion and the replacement
that closes a reservation show.

*BookPurchase.* `Kept` is the frame: placed orders keep right and code, paid ones stay paid,
and the other collections only grow. `HookFollowsOrder` ties a request to its order,
`MissedIsRaced` says a request about to insert an access that exists has raced. `SaleHolds` maps
`MarkPaid` to `Sell` the first time and to nothing afterwards, `GrantAccess` to `HandOver`, a
failure between the two to `Forget`, `AlreadyPaid` and `Acknowledge` to `Settle`, a poll and a
SignalR message to `Tell`; what is forgotten was paid (`cut` within `Paid`), so a sale never
finds its order forgotten. `ShownIsPaidHolds` gives the polls their sold order, and
`HookFollowsOrder` the answers theirs. That SePay may be answered 200 for an order still owed its
book is part of the promise, not excluded by it: a second report is settled while the first is
on its way.

*BrowserSession.* `TwoUsersContest` says that a token under way twice is contested,
`SentWasGood` that one under way once is still live, `Undelivered` that a token nobody has been
given yet is live, in no jar and in no other answer; delivering it then keeps `HeldTokenIsGood`.

*ListPages.* `LoadsAskTheQuery` and `AnswersAreRecent` say what the requests under way will
bring, `ListIsTheAnswer` that the list is right when none is; `OneChangeAtOnce` says what an
optimistic page may still have to put back. The proofs use the records' fields, not the 26
pages, so they hold for any page of these shapes.

*BookDocument.* The invariant says for every call what it has read that is still so:
`ListSeen` and `RatingSeen` for whole-document writes, `InfoWritten` and `ChaptersWritten` for
what was written and not yet answered, `Undisturbed` that two calls doing one bookkeeping
are recorded. The steps are grouped into classes by what they write (looks, sends, learns,
stores, replaces, sets, rewrites, adds, removes, ends), each proved once.

*FormPages.* The proofs look at a page through the fields of its operations, so they hold for
any page whose operations are `WellMade`: what creates something is sent from a form that is
cleared afterwards, with a button that is off until then. `AloneWhileOff` says such an operation
is the only one of its button; `FiledIsAnswered` that what the form still holds of something
already stored belongs to an operation under way, so it cannot be stored again (`StoredOnce`).
`OneForm` and `PicturesAreNew` keep a change in one form, `SentOrLate` says a form holds, while
it is sent, what was sent or is late (`TypedIsKept`). That the profile of a user is filled anew
only by a crossing or a loss needs `FollowedFit`: otherwise what is stored of the fields is what is
shown or is under way to this page, so no answer brings other fields than the form has, except
the form's own. For the screen, `AnswersFit` says that,
unless operations crossed, each answer under way is what is stored of its row, and `ScreenFits`
that the screen lacks exactly the operations stored and not heard of; with none under way
that is `ShownIsStored`. `OffForCause` is inductive by itself: a button that is off has an operation
under way, because a page loads its list itself or by `useAsync` and never both. `WebClients_proofs` extends both `BrowserSession` and `FormPages`,
which is why the latter's `FormInit`, `FormNext` and the like carry their prefix.

*ReadingRoom.* `LatestKnown` and `LatestIsHere` say that the latest save is under way, lost or
served, and carries what the screen shows unless the timer will send it again. `Followed` says that
an open session has the page on it, an end on its way, or an answer that will send one; `CallsFit`
puts every call at a line that fits its session, and a heartbeat either at the chapter on screen
or among the excuses. The theorems hold for both hooks at once and any number of chapters shown; the
run takes one hook at a time.

*Proved of more than the runs show.* Three statements need none of the switches that the run of
their module sets, and cover the interleavings it leaves out: `ClosedForGoodHolds` any number of
cancellations and fulfilments at once (`turns` serves them one after the other), `RollbackNeedsOverlap`
any number of devices (no run; `sync` has one), which says that the hash goes back to a lower
version only by a save or a refill that had looked at it before another request wrote it, and never by
deletions, expiry, the worker or failures, and `RenewCapHolds` any number of loans. `LoanClosedWhenBackHolds`
covers loans of several copies, which `faults` does not have.

*Only model-checked:* liveness (`RequestAnswered`, `LockFreed`, `SavesReachMongo`,
`TransferOpensBook`, `WindowLearns`, `RequestsSettle`, `CatchesUp`, `ButtonsComeBack`,
`ReachesTheApi`), which the prover cannot do under fairness.

## 6 Where the code differs from what is said of it

The run `ttl_double` shows one: a checkout slower than its 10-second lock lets a second one take
the lock, and both lend the copy (`BorrowingService.cs:79`), although `src/README.md:138` says the
10-second lock removes it completely.

The others were met while modelling. Where a definition states the claim it is in the module,
checked by no run because the code does not keep it under the switches named here:

| Claim | What happens | Said at |
|---|---|---|
| `ChangedHashIsMarked` | a save inside a pass loses its mark; nothing writes it to MongoDB until the next save | `src/README.md:141-142` |
| `NeverWaitsAgain`, with `OneChange` FALSE | renumbering writes back a reservation cancelled meanwhile as WAITING | `src/README.md:92` |
| `OutOnlyWithoutSession` | the profile check of one tab ends signed out because another tab spent the token, though the browser has a good session | `src/apps/admin/src/context/auth-context.tsx:39` |
| `ArchivedStays` | listing the chapters of an archived book publishes it again | `ArchiveBookDialog`: only a change of status brings it back |

Without a definition:

- The limit of `BorrowingService.cs:61` counts every active item, but two checkouts of a member
  count before either inserts (`raced`).
- `src/README.md:145` has the version protect newer progress; two devices pass the check at once and
  the lower version is written last, and a GET that read MongoDB puts an old position over a
  newer one not yet flushed (`overtaken`).
- `ReviewsSection.tsx:224-228` calls an empty list no reviews: when the answer to an older filter comes
  last, its page numbers are used for the new filter, and a page past the end is shown as empty.
- Clearing the filters of the search page leaves the word in its field (`cleared`).
- A report of a lost item that fails takes the note with it; a lock, a role or a retry on the page
  of a user that brings another name throws away the name being typed.
- A chapter's deletion removes it (`$pull`), where
  `src/docs/superpowers/specs/2026-08-05-mongodb-embedded-book-aggregate-design.md:161` has a status
  and `src/apps/admin/src/lib/api/chapters.ts:118-122` says HIDDEN. `chapters.ts:92` lets the number be
  edited; `UpdateAsync` ignores it.
- The drag and drop of chapters always fails: the client sends `{orderedChapterIds}`, the API binds a
  list; the page puts the old order back.
- The progress a chapter is opened with is not filtered by chapter, so another chapter is
  scrolled to the old one's place (`BookReaderContainer.tsx:134-138`). Opening and leaving a chapter stores
  percentage 0. The reading time of a session counts hidden time.
- A closed tab never ends its session, and nothing expires open ones.
- A webhook that stops between SUCCESS and the access is never made good: the next
  report finds SUCCESS and is answered 200 (`cut`). A pass of the worker that read a hash before its
  deletion writes the deleted document again (`disturbed`).
- Renewals and marks are not shown on the page of a loan until it has its own copy
  (`borrowings/[id]/page.tsx:94-99`); of two changes to a user at once the later answer shows the earlier
  undone; a lost answer sent again is stored twice; `EditProfileModal` sends to a fixed
  `http://localhost:5210`.

## 7 What is not modelled

`PROJECT.json` gives the reason for each component.

- *No protocol of their own:* search, files, notifications, presence, audit, promotions, users,
  administration, start-up, display. They insert, edit or list single documents.
- *Reservation expiry:* works on a status nothing writes.
- *Inventory:* whole-copy replaces against checkout's and return's writes. `Circulation` assumes
  staff leave copies on loan alone; without that, `CopyFollowsItem` fails at once and every theorem
  would need the assumption at each step. The hazard is listed.
- *Permission cache, e-mail campaigns, rate limiter:* a race or a crash between two calls each, described
  in `PROJECT.json`; small models whose only property is that the race is there.
- *Reading buffer:* no page calls it, so results are about clients that save through
  `POST /Reading/progress`.
- *Parts of modelled components:* section 2 names them under each module.

Permissions, input validation and wording are left out of every module: they refuse a
request before its first write, and a refused request changes nothing.

## 8 What is left

1. `Inventory`, composed with `Circulation`, and settlements of one fine at the same time.
2. `PermissionCache`: role edits, invalidation and refill; abstract specification "a
   permission is at most one cache lifetime old".
3. `ReadingRoom` with several tabs, over `ReadingProgress` in place of
   its one-step save.
