# Verification of the cassette API

TLA+ models of the server in `src/src` (NestJS, TypeORM on PostgreSQL, BullMQ on
Redis, an S3-compatible store), the TLC configurations that check them on small
instances, and TLAPS proofs for all instances. Paths below are relative to
`src/`; code is under `src/src`, documents under `src/docs`.

The application lets people record short "tapes", send them to friends or as
links, and keep what they receive on a shelf. Credits buy tapes and shelf space;
they come from in-app purchases, ads and gifts.

## 1. Inventory

| Component | State it keeps | Operations | Modelled in |
|---|---|---|---|
| Wallet (`wallet/`) | `users.credits`, `credit_ledger`, `ad_rewards` | `apply`, `gift`, `grantAdReward`, `listLedger` | `Wallet`, `CreditBook`; the list in `Paging` |
| Shop (`shop/`) | `tape_inventory`, `users.drawer_cap` | `purchase` | `Wallet`, `CreditBook` |
| Billing (`billing/`) | `iap_purchases`, `billing_events` | `verifyIap`, refund notifications of both stores, consume and its retry, purge after five years | `Wallet`, `CreditBook`; the retry in `HourlyJobs` |
| Store clients (`billing/`) | AdMob's keys and Apple's certificates, cached | verification of receipts, callbacks, notifications; `consume` | `Verifiers`, `HourlyJobs` |
| Idempotency (`common/`) | `idempotency_keys` | `begin`, `complete`, `abort`, interceptor, hourly clean-up | `Idempotency` |
| Friends and blocks (`friends/`) | `friendships`, `blocks` | `update`, `remove`, `block`, `unblock`; touched by `send` and `claim` | `Friends` |
| Recordings (`recordings/`) | `recordings`, the `recordings` queue, objects in the store | `create`, `complete`, `retry`, the worker; swept by `jobs/` and withdrawal | `Recordings` |
| Deliveries, share links (`deliveries/`, `share/`) | `deliveries` | `send`, `reshare`, `open`, `claim`, `listSent`, previews | `Tapes`; friendships in `Friends`, the list in `Paging`, previews in `LinkPage` |
| Link page (`share/link-page.ts`) | none on the server; the script's, in a browser | the page, and its script from the first tap on | `LinkPage` |
| Shelf (`shelf/`) | `shelf_groups`, `deliveries.group_id`, `position` | groups, `moveItem`, `deleteGroup`, `deleteItem`, `getShelf` | `Drawer`, `Position`; tapes and files in `Tapes` |
| Users (`users/`) | `users` | profile, `withdraw` | `withdraw`: credits and payments in `Wallet`, unsent recordings in `Recordings`, tapes in `Tapes`, logins in `Accounts`, Apple's token in `AppleTokens` |
| Auth, rejoin (`auth/`) | `auth_identities`, `refresh_tokens`, `withdrawn_identities` | login, sign-up, refresh, logout, restriction; tokens of Kakao and Apple | `Accounts`, `AppleTokens`, `Verifiers`; the sign-up gift in `Wallet` |
| Reports (`reports/`) | `reports` | `create`, purge | `Reports`; the block made by a report also in `Friends` |
| Jobs (`jobs/`) | none of its own | the hourly run | `HourlyJobs`; what the jobs remove, in the modules of their tables |
| Notifications (`notifications/`) | `device_tokens` | register, unregister, clean-up of dead tokens; pushes after the commit | `Accounts`, but for the pushes, which change nothing |
| Storage (`storage/`) | objects in a bucket, or files on a developer's disk | signed URLs, upload, `head`, `download`, `delete` | `Storage`; the objects of a recording in `Recordings` |
| ffmpeg, policies, filters, dev tools, app version, configuration, migrations | none at run time | processes, text, start-up | not modelled |

How they interact. Requests run concurrently, each handler in one PostgreSQL
transaction at READ COMMITTED, or in several statements with a commit each. They
share nothing but the database, the queue and the store. `withdraw` deletes a
user, and the foreign keys cascade into nearly every table. Stores and AdMob
call back, any number of times. An hourly job cleans up. BullMQ runs the
conversion, up to three times per job, and once more for a job whose worker
does not renew its lock.

What is hard, and what makes each component correct:

- *Wallet, shop, billing.* A balance is changed by concurrent transactions, and
  retries, callbacks and notifications repeat. Correct if the ledger explains
  the balance, whatever a key stands for moves credits once, a charge and its
  delivery go together, a gift leaves both ledgers or neither, a receipt is paid
  once, a refund takes back what is left, and daily limits hold.
- *Idempotency.* Copies of a request arrive before, while and after it runs, and
  every statement may fail. Correct if at most one copy runs at a time, success
  is only reported of what happened, stored answers stay, and a key left behind
  becomes free.
- *Friends.* Handlers read and write two tables in different orders. Correct if
  nobody is lost from a list, a tape from a blocked sender is suppressed, and a
  block undone gives back what it took.
- *Recordings.* The status lives in the database, the work in a queue, the result
  in a store, with no transaction across them, and workers that lost their job
  go on. Correct if "ready" has a tape and stays ready, the original is there as
  long as it is needed, what is noted as deleted is, and what is "processing" is in
  progress. Two of these hold with exceptions, see section 3.
- *Tapes, shelf.* A request reads rows and writes them by id later, one row at a
  time and not always with a lock, while the tape is claimed, moved, deleted or
  lost to a withdrawal. Correct if a recording is sent once, a link is claimed by
  one user, the first opening is kept, groups hold what may be in them, and a
  file goes with its tape, neither before nor without it.
- *Auth, notifications.* A login is several statements with a commit each, and
  its user may leave, or sign up elsewhere, between any two of them. Correct if
  an account has one user, a refresh token is exchanged once and otherwise kept,
  nothing is left of who has gone, and who has gone does not come back too soon.
- *Drawer, lists.* Moves compute a key from neighbours that are read without a
  lock; lists are read in two queries, or page by page, while rows come and go.
  Correct if a move lands where it was asked to, only requests that overlapped
  give two things one place, room for keys is used up slowly, and what was there
  is shown.
- *Reports.* Many requests of a reporter at once, against limits that are
  counted. Correct if the limits hold and an answered report is on record.
- *Verifiers.* Every call of another service may fail, and keys and certificates
  are shared by requests. Correct if a request is refused, or told to come back,
  for a cause of its own.
- *Storage, Apple's tokens, link page, hourly run.* Uploads, deletions, logins,
  timers and crashes in any order. Correct if a key holds what the last answer
  says, no token outlives its user, the page shows what its player does and
  whoever keeps tapping hears the tape, and what was sold is consumed.

The hazards at their lines, with the properties that cover them, what those except,
or the reason why none does, are in `PROJECT.json`.

## 2. Modules

| Module | What it is |
|---|---|
| `WaitGraph` | Deadlock as a cycle of sessions that wait for one another's locks |
| `Wallet` | Credits: 30 actions, statement by statement |
| `Idempotency` | The `Idempotency-Key` protocol around an abstract handler |
| `Friends` | The tables `friendships` and `blocks` and all handlers that touch them |
| `Recordings` | Upload, queue, conversion, retry and clean-up of an unsent recording |
| `Tapes` | A recording sent, claimed, opened, sorted and deleted, and both sides leaving |
| `Accounts` | Logins, refresh tokens, devices, withdrawal and the restriction on signing up again |
| `CreditBook` | The abstract wallet: credits, goods and receipts change by whole deeds; `Wallet` implements it |
| `Position` | Position keys: order, the key between two others, the keys after one |
| `Drawer` | The order of one user's drawer under overlapping requests; extends `Position` |
| `Paging` | A list read by cursor while rows are stored |
| `Reports` | A user's reports under their advisory lock, with time and withdrawals |
| `Verifiers` | Verdicts on receipts, callbacks, notifications and social tokens |
| `LinkPage` | The page of a share link and its player |
| `AppleTokens` | Apple's refresh token from the login to the withdrawal |
| `Storage` | One key of the object store, under both drivers |
| `HourlyJobs` | The hourly run and the batches it consumes |
| `MCWallet`, `MCIdempotency`, `MCFriends`, `MCRecordings`, `MCTapes`, `MCAccounts` | Constants and symmetry for TLC |
| `MCRequests` | `Drawer`, `Paging`, `Reports` and `Verifiers` in one run: at the start one part is chosen, and the others stay as they are; and the inputs of `keyBetween` |
| `MCOutside` | `LinkPage`, `AppleTokens`, `Storage` and `HourlyJobs` in one run, in the same way |
| `WalletProofs`, `IdempotencyProofs`, `FriendsProofs`, `RecordingsProofs`, `TapesProofs`, `AccountsProofs` | Theorems about the module of that name, and their proofs |
| `RequestsProofs`, `OutsideProofs` | Theorems about the parts that `MCRequests` and `MCOutside` compose, and their proofs |

`MCRequests` and `MCOutside` put parts that share no state into one model: their
behaviours are the union of those of the parts, not an interleaving, and a
property of one part is checked in all behaviours of that part. The modules they
instantiate state what they assume of their constants as an operator
(`TokensAssumption`, ...); `PartsAssumption` asserts all of them.

Definitions marked `\* Mutant:` are not part of the models: they are what the
definition after them would be with a plausible bug. Each property that a run
checks is violated by one of them, which is how it is known to constrain the code.

### From code to model

*Transactions.* `Wallet` and `Friends` model a handler as a session `sess[p]`
with a program counter. A step is what lies between two points where another
session can come in: a statement that waits for a lock, or a commit. Locks are
variables (`userLock`, `rcptLock`, `friendLock`, `blockLock`). In `Wallet` the
rows that a session has written and not committed are in `rows[p]`; `Commit`
publishes them. In `Friends` a session's writes are applied when it commits: the
row locks keep others from the rows meanwhile. In both, `Rollback` drops them;
`Crash` and `DeadlockVictim` roll back at any point, `Fail` (in `Wallet`) when
the next statement throws. A statement that reads with
`FOR UPDATE` sees committed rows only: this is why `RefundLock` does not wait
for a purchase that is being inserted.

*`Wallet`.* `Apply` is `WalletService.apply`: the conditional UPDATE with
RETURNING and the INSERT into the ledger, whose UNIQUE on (user, key) is a guard
(`Accepts`). `First`/`Second` are the id order in which `gift` locks.
`IapInsert` is `INSERT ... ON CONFLICT DO NOTHING`, which waits for an
uncommitted row; the KEY SHARE lock its foreign key takes on the user is
`KeyShare`. `WithdrawDelete` deletes the user and so waits for it, and
`WithdrawSetNull` is the ON DELETE SET NULL on the purchases, one row at a time;
the two together, against `RefundLock` and `RefundLockUser`, are the one lock
cycle. The day in Korea is `day`; `adDate` is read from it twice, as the code
does. `grants` and `purged` are history variables.

*`Idempotency`.* `record[k]` is the row, with its `response_status` as `result`.
A handler is one step that commits or throws, followed by `MakeReply`, the reads
that build the answer after the commit. How an operation takes being repeated
is `Op`: `purchase` and `gift` meet the UNIQUE of the ledger, `send` finds the
recording sent, `iap`, `claim` and `report` find what is there and answer with
it. `answers` is the history of what clients were told.

*`Friends`.* `friend[<<u, v>>]` is the row of `v` in the list of `u`; star and
nickname are one value of `Marks`, as no handler tells them apart. `block` keeps
what `was_friend`, `friend_starred` and `friend_nickname` keep. `last_at` is left
out. `send` and `claim` are their reads of blocks and their two upserts; the
order in which each touches the two rows is `SendOrder`, `ClaimOrder`.

*`Recordings`.* Each database statement, store call and queue operation is a step.
`Finish`, `Throw`, `Take` and `Stall` are what BullMQ does around `process`: a job
that stalls waits again while the worker that was late goes on, and a job that
stalls more than `maxStalledCount` times fails without `process` being called.
`raw` and `tape` are the objects in the store. `dropped` is history: a recording
being converted of which a request or a job was lost. `Discard`, `PurgeFiles` and
the raw sweep are one call each; that the call fails is `Crash` of the session,
which is also what a server restart does. A call that S3 answers with 200 may have
left the object where it was (`DeleteRawObject`): the error is in a body that
`s3-storage.service.ts:144` does not read. The app uploads when it likes while its
URL is valid (`Put`), also during and after `complete`; the hour is only counted
until the upload is completed (`old`), after that a URL stays valid. `left` and
`cut` are history: originals that stay beside a finished recording, and originals
that `complete` deleted as too large.

*`Tapes`.* `delivery[r]` is the row whose UNIQUE `recording_id` is `r`, or `None`.
A request is a session: what it reads, with or without a lock, is one step, and
what it writes appears with its commit. Which rows it has locked follows from
its program counter (`RecordingFree`, `DeliveryFree`, `GroupFree`), so waiting is
an action that is not enabled; a deadlock, like any other error, is `Fail`.
Whether friends are friends and who is blocked is left to `Friends`: `SendCommit`
may hide the tape or not. The rows a handler writes by id are written here by
recording, under the condition that the row still is the one that was read:
a delivery of the user `u` is gone for good when `u` is not its recipient any
more, as a recipient never changes and a user who left does not come back under
the same id. `opened` holds the request that set `opened_at`, which stands for
its time. `forgotten` is history: files whose deletion failed, of which the code
keeps only a line in the log.

*`Accounts`.* User ids are numbers given in order, as uuids are never reused.
`identity[a]` is the row whose UNIQUE (provider, sub) is the account `a`. A login
is `LoginFind`, then either the tokens or the sign-up transaction, whose two
statements before the commit are `AssertCanSignUp` and `ClearRecord`; the inserts
and the commit are `Register`. When the UNIQUE refuses it, `FindAgain` looks once
more. `IssueTokens` is the INSERT and the clean-up after it. Time is three
actions: a token expires, an account cools down, and `cleanupExpired` comes.
`cooling` is history: what has happened, whatever the records say. `overtaken`
holds the sign-ups that were under way when a user of their account left.
`device[d]` is the row of an FCM token, `dead` those whose app is removed.
`SaidInvalid` is what FCM said of a push: when a call fails, dead tokens may stay.
`sub` of Kakao and Apple and names are left out.

*`CreditBook`.* Eight deeds, each one step, with no locks, sessions or keys. The
mapping takes `purchases[r].status` for the state of the receipt and `adDate` for
the callbacks that were paid. A commit of `Wallet` is a deed of the book or
changes nothing the book knows of; everything before a commit is a stutter.

*`Position`.* A key is an integer and a sequence of digits in `Base` digits,
without a trailing zero. `KeyBetween`, `Midpoint` and `Above` are the functions of
`position.ts` and of the library it calls, as recursive functions; that the
encoded integer sorts as a string the way integers do is taken from that library.

*`Drawer`.* Tapes and groups are both things with a place. A request that places
something reads one or two neighbours, each in its own step, and writes one key;
`Unlocked` and `GroupReady` are the row locks and the foreign key. `missed[x]` is
history: what others wrote between the time a place for `x` was chosen and the time it
was written. `End` is an answer, an error, a rollback and a crash. `EmptyGroup` is
`deleteGroup` writing its tapes one after the other under one commit.

*`Paging`.* A row gets its time when its transaction begins and appears when it
commits, so rows appear out of order. `Milli` is what the cursor keeps. `list`
says whose time it is: `sent_at` is a `Date` and loses nothing, `created_at` is the
database's. `Restart` is the app reading anew.

*`Reports`.* A request takes the advisory lock, resolves its target and looks for
an earlier report, counts, writes, and commits; the operator is told after it.
Time passes at most once while a request runs (`Short`). Withdrawals of either
side, deleted tapes and the purge come in at any point.

*`Verifiers`.* What is asked is genuine or not, as an input; the model is about
what else decides the verdict. `ReadCache`, `Send`, `Fetched` and `FetchFails` are
the keys of AdMob, whose fetches may overtake one another while `Rotate` publishes
new ones; `NeedCerts`, `CertsLoaded` and `CertsFail` the promise that requests for
the App Store share. Each service then has an action for what it says and one for
its failure, with the status that the client's error handling turns it into.

*`LinkPage`.* The server's two answers, the script, and the `<audio>` element,
which behaves as the HTML standard says (its definitions are mapped to the lines
of the script that rely on them). `warm` is the muted play within the first tap,
`asked` a play that has not begun. `why` is history: why it is silent.

*`AppleTokens`.* Apple grants a token for a code before the row knows of it, so a
token can be lost with the process (`excused`); `late` and `excused` are history.

*`Storage`.* A bucket takes a body as a whole, at `Stored`; on the disk a file is
truncated at `PutBegin`, grows by `Write`, and its type is written after it. `open`
says whether a writer still has the file under the key: a file that was removed
goes on being written without a name. `expect` is history: what the last answer
promised, as far as it is known (`sure`).

*`HourlyJobs`.* Seven jobs in order; only the consumes are looked into. `refused`
are purchases Google will not consume, any number of them at first, and more
because it had consumed them when the server died before the UPDATE. A failure that
passes is `ConsumeFails`.

## 3. Runs

TLC checks these instances with an exhaustive search.

| Run | Shows | Instance |
|---|---|---|
| `wallet` | `TypeOK`, `LedgerChain`, `KeyMovesCreditsOnce`, `AdRewardsHold`, `KeepsTheBook` | 3 sessions, 2 users (one may withdraw), 2 products, gifts of 1, 2 client keys, 2 ad callbacks, 2 days |
| `wallet_refunds` | `ReceiptsHold`, `OnlyWithdrawAndRefundDeadlock`, `KeepsTheBook`, `SessionsFinish` | 2 sessions, 2 users who may withdraw, one receipt, one ad callback, gifts and a purchase to spend on, fairness |
| `wallet_refund_race` | violation of `AnsweredRefundIsSettled` | 2 sessions, 1 user, 1 receipt |
| `idempotency` | `TypeOK`, `RunsHold`, `StoredAnswerStays`, `PendingSettles` | 2 sessions, a purchase key and a claim key, 2 bodies, fairness |
| `friends` | `TypeOK`, `BlockSuppresses`, `OnlyKnownDeadlocks`, `ListsAndBlocksStay`, `SessionsFinish` | 2 sessions, 2 users, one of whom changes an entry of the list once at a time, fairness |
| `recordings` | `TypeOK`, `FilesFollowStatus`, `ConversionsHold`, `ReadyStays` | 1 recording, 2 sessions, 2 workers, 2 jobs of 2 attempts, one stall each |
| `recordings_stuck` | violation of `ProcessingEnds` | 1 recording, 1 session, 1 worker, 1 job, fairness |
| `tapes` | `TypeOK`, `ChecksHold`, `FilesFollowRows`, `TapesStay` | 3 users, 1 recording longer than the free tape, 2 tapes in stock, 1 group each, 2 sessions, 2 links |
| `tapes_withdrawal` | violation of `KeptForRecipient` | as `tapes` |
| `accounts` | `TypeOK`, `AccountsHold`, `NothingTooEarly` | 2 accounts, one of them restricted, 3 users in all, 2 refresh tokens, 1 device, 2 sessions |
| `requests` | `TypeOK`, `DrawerOrderHolds`, `MovesLand`, `ReadsShowAll`, `ReportsHold`, `VerdictsHaveCauses` | 2 requests; drawer of 3 tapes and 2 groups; 3403 pairs of keys; lists of 4 rows; 1 person and 1 tape to report; 3 keys of AdMob, 1 failure |
| `outside` | `TypeOK`, `PageTellsTheTruth`, `TokensGoWithTheUser`, `ObjectsHold`, `WhatIsDueComes` | one page with 2 failures; 2 logins, 2 withdrawals, 3 tokens; 2 writers of 3 chunks; 4 purchases in batches of 3; fairness |

Several of these are conjunctions of named parts, each with its own comment:
`ReceiptsHold` (`ReceiptPaidOnce`, `PurchaseMatchesLedger`, `RefundNeverRefused`),
`RunsHold` (`OneRunPerKey`, `SuccessIsReal`), `ListsAndBlocksStay` (`MarkStays`,
`ListedUntilRemovedOrBlocked`, `BlockKept`, `UnblockRestores`), `FilesFollowStatus`
(`ReadyHasTape`, `RawFollowsRow`), `ConversionsHold` (`CompleteQueuesOnce`,
`ProcessingIsInProgress`), `ChecksHold` (`SentOnce`, `ClaimedByItsLink`,
`GroupsHoldOpenedTapes`), `TapesStay` (`OneRecipient`, `OpenedStays`),
`AccountsHold` (`OneUserPerAccount`, `ExchangedOnce`, `GoneHaveNothing`),
`NothingTooEarly` (`RejoinWaits`, `DevicesStay`), `DrawerOrderHolds` (`TiesAreRaces`,
`PlayOrderIsDrawerOrder`), `MovesLand` (`LandsAfter`, `RoomLasts`), `ReadsShowAll`
(`ShelfShowsAll`, `PagesShowAll`), `ReportsHold` (`LimitsHold`, `AnswersAreReal`) and
`WhatIsDueComes` (`TapesAreHeard`, `PurchasesAreConsumed`).

`KeepsTheBook` is the refinement: every behaviour of `Wallet` is, under the mapping
at its end (`Book`), one of `CreditBook`. It says that a gift leaves one user and reaches
the other in one step, that price and delivery are one, and that a receipt is paid
out once and taken back once, whatever crashes, retries and withdrawals do.

### Bounds, and why they are enough

- *Sessions.* A lost update, a check that is stale when used and a lock cycle
  take two sessions; a third is there in `wallet` so that a third party can spend
  or withdraw in between. Liveness is checked with two: `IapInsert` waits for the
  other submitter's row and for the user's row in one step where PostgreSQL waits
  for one after the other, so that a third session, which crashes for ever, could
  keep it from both being free.
- *Users.* Two: sender and recipient, or two submitters of one receipt. In
  `Tapes` three: a sender and two who claim the same link. No handler involves
  more.
- *Keys.* With two client keys a key is reused and another is not. Keys that are
  derived (`iap:`, `refund:`, `ad:`) come from receipts and callbacks.
- *Amounts.* Prices and packs are 1 and 2 and the sign-up gift is 0 or 1, so that
  balances run out within a few steps, which is where `apply` decides.
- *Ads.* Limit 1, two callbacks and a midnight: enough for two callbacks to race
  for the last place, and for a callback to count on one day and insert on the
  next.
- *`Leavers`, `MaxDay`, `purged`* (once per receipt), *`Expiring`* and *`Jobs`*
  bound what could otherwise repeat. `PurgeExpiredPaymentRecord` lets five years
  pass at any time, which is more than the clock allows; `ReceiptPaidOnce` says
  what this leaves.
- *`Accounts`.* Three users let one account be signed up, left and signed up again
  while the other account has a user who takes over the device; with two tokens
  one is exchanged for the other, or a user has two devices.
- *One recording in `Tapes`.* Handlers touch several recordings only in
  `deleteGroup` and `withdraw`, each row by itself. Two tapes in stock let it be
  sent again when the user it was sent to has left, and two links let it be
  shared anew.
- *`Drawer`.* Two transactions that write, whichever they are, after a drawer
  with two tapes, one of them in a group, and room for one tape and one group
  more. A column that takes one digit after the integer lets a key run out of room
  (`Width`); a tie, a lost neighbour, an emptied group and a shelf read in between all
  take two writers. `keyBetween` itself is checked as a function of its inputs: the
  part "keys" of `requests` starts in every pair of neighbours with up to three
  digits and whole numbers up to two, 3403 of them, in base 3, which is the
  smallest in which there is a digit between two others.
- *`Paging`.* Four rows, pages of two: three pages at most. Four instants, two to
  a millisecond, are enough for rows that share one and rows that do not.
- *`Reports`.* A limit of one, a window and a retention of two ticks and three
  ticks of time: enough for a report to fall out of the window, and out of the
  record, while another is being answered.
- *`Verifiers`.* Three keys in all of which two are published: a key may be new, known,
  or withdrawn. With one failure, what a failure does and what it does to others
  are seen apart.
- *`LinkPage`.* Two failures: one before and one after the parcel is opened, or a
  failure of what a failure made the listener do. `AppleTokens`: two logins and two
  withdrawals, three tokens, as a token may be replaced and then lost. `Storage`: bodies of up
  to three chunks where the driver takes two, so that an upload may be too long.
  `HourlyJobs`: four purchases for a batch of three, so that one is left out.
- *Attempts.* The code has three, the instance two: what matters is a last
  attempt and one before it.
- *`Serial` in `Friends`.* Three parts of `ListsAndBlocksStay`
  (`ListedUntilRemovedOrBlocked`, `BlockKept` and `UnblockRestores`) are about the rows
  of a user whose app does not block, unblock, mark or remove the same person twice at
  once; what else he sends, and all that others send, overlaps freely. `MarkStays`
  is about everybody. Without the assumption two blocks of the same person at once
  do overwrite what the first kept (`friends.service.ts:136`), although the
  comment at line 116 says that a second block changes nothing. No property covers
  that case.
- *Deadlock checking* is off in `Wallet`, `Recordings`, `Tapes`, `Accounts` and
  the two composed runs: when every user has left, every key is spent and every
  receipt settled, or the writes, ticks and failures are used up, the instance
  has nothing left to do. `OnlyWithdrawAndRefundDeadlock` looks for the deadlocks that matter
  instead. `Friends` and `Idempotency` never stop.

Symmetry is used in runs that check no liveness: sessions, keys and callbacks are
interchangeable. Users of `Wallet` are not, being ordered.

### Fairness

- *Sessions* (`SF` on `Continue`). A request that has begun goes on, and
  PostgreSQL hands a lock to its waiters in turn: a session whose lock becomes
  free again and again gets it. Nothing obliges a client to begin a request, and
  nothing keeps a session from crashing.
- *Deadlocks* (`WF` on `DeadlockVictim`). `deadlock_timeout` is one second.
- *Clean-up* (`WF` on `Expire`). `@Cron(EVERY_HOUR)` deletes keys older than a day.
- *A page in a browser* (`LinkPage`). Requests end, timers fire, URLs age
  (`AUDIO_URL_TTL`), and the listener goes on tapping, which is what "whoever wants
  to hear it" means. A file that is to be played again and again with a fresh URL is
  loaded at last (`SF`): loading may be cut short by taps, but not for ever.
- *Hourly run* (`WF` on the steps of the jobs). The clock strikes and the process
  goes on; failures and deaths are bounded by `Faults`. Any number of purchases may be
  refused; what `PurchasesAreConsumed` says when a whole batch is, see below.
- *Workers and queue* (`recordings_stuck`). Workers take waiting jobs and go on
  with theirs, BullMQ finds jobs whose worker is gone, the hourly job runs.

### Violations

Each is a behaviour of the code that a document or a comment rules out; the
quotation is in `PROJECT.json`.

- `wallet_refund_race`: a refund notification handled before `verifyIap` commits
  finds no purchase, is answered with 200 and is not sent again. The credits stay.
- `recordings_stuck`: `processing` is committed before the job is queued; if the
  process dies in between, the recording stays so.
- `tapes_withdrawal`: `withdraw` reads which of its links nobody has claimed and
  deletes their recordings later. A claim that commits in between, and is
  answered with the tape, loses it, though what was sent is to stay.

One more thing the model showed has no document against it. A withdrawal of the
recipient that reads before a tape arrives deletes the delivery by its cascade
and leaves the recording, which thereby is unsent and may be sent again. A
`deleteItem` that the leaver had under way then marks it purged and deletes its
file: it does not look at how many rows its first UPDATE found
(`shelf.service.ts:265`). So a tape in a drawer may have no file. `AudioHasFile`
is therefore about the row of the recording, which is what `audio` looks at.

### Behaviours the properties except

The models show these, and the properties above name them as exceptions; they
have no document against them, or one that says less than it seems to.

- *Retries.* What fails after the handler's commit frees the key, and the retry
  of a tape that was sent is refused, not answered as the first time
  (`idempotency.interceptor.ts:71`; docs/api.md:616 promises the first answer).
  A purchase or a claim that is repeated finds what is there.
- *Originals.* An original is missing before its conversion if a `complete` that
  judged it too large deletes it after a smaller one was uploaded and queued
  (`recordings.service.ts:79`). An original stays although the row says it is
  deleted if S3 refused its deletion without a word, or the app's URL was still
  valid and it uploaded again. No job looks for such an original again: the comment
  at `recordings.processor.ts:89`, that the clean-up deletes again what failed, is about
  deletions that throw. `RawKeptForRetry` and `MarkedIsDeleted` say that there is no
  other way.
- *Unblocking.* A tape that was on its way when its sender was blocked lists the
  sender anew; `unblock` keeps that row, and the star and the nickname kept with
  the block are forgotten (`friends.service.ts:197`). `UnblockRestores` says so.
- *Drawer.* Moves that overlap may give two things one key; then `sent_at` decides,
  and groups with one key are played interleaved (`PlayOrderIsDrawerOrder` excepts
  them; within the bounds of the run no such two groups hold enough tapes to be). `deleteGroup` puts a tape that was moved on meanwhile back among the
  unsorted ones. A tape moved between `getShelf`'s two queries may be counted and
  not shown.
- *Ledger pages.* Rows in the millisecond of the last row of a page are skipped.
- *Link page.* An error of the file before the parcel is open leaves the broken
  URL in use until it ages. The muted play of the first tap, which is to help the
  later one, stops it when the file comes late. The automatic play comes even if
  the listener paused within its 700 ms. A pause while the file loads is shown as an
  error. Fetching the URL has no timeout: the model assumes that the browser's
  ends it.
- *Verifiers.* Four failures of others are answered as if the request were
  forged: an AdMob callback with a new key while the keys cannot be fetched, a Pub/Sub
  push whose keys cannot be fetched, an Apple login without configuration or when the
  key server answers with an error, and an App Store receipt when its revocation check cannot
  be made (`Mistakable`). Stores send notifications again; the app shows the user
  a failed login.
- *Storage.* On a developer's disk an upload that fails takes an earlier good one
  with it, and two uploads at once mix. The answer of `DeleteObjects` is not looked
  at: a key that S3 could not delete is answered as deleted
  (`s3-storage.service.ts:146`). `ObjectsHold` is silent (`sure`) until the next answer
  that settles what is there.
- *Hourly run.* Fifty purchases that Google refuses for good may keep all
  others from being consumed (`billing.service.ts:273`), which is the one case
  `PurchasesAreConsumed` excepts; likewise 200 originals that cannot be deleted
  (`cleanupReadyRaw`).
- *Apple's token.* A login that overlaps a withdrawal may leave a token at Apple.
- *App Store.* The server does not ask the App Store whether a receipt has been taken
  back: it looks at `revocationDate` in what the client sends
  (`billing.service.ts:58`). `IapVerify` asks the state of the purchase of Google
  Play's only (`PlayReceipts`).

And `RejoinWaits` makes an exception, because the restriction has a gap: a sign-up
whose login found no account, because another login of the account had not
committed yet, does not see a withdrawal that commits before its own INSERT.

## 4. Proofs

Every invariant and action property that a run checks is also proved, for every
value of the constants: any number of users, requests, rows, workers and keys, any
prices, limits and bases, under the assumptions below. The symmetric, small
instances of section 3 found the invariants; the theorems are about all instances.

| Module | Theorems | Properties |
|---|---|---|
| `WalletProofs` | `Typing`, `BalancesExplained`, `KeysMoveCreditsOnce`, `ReceiptsAreKept`, `RewardsAreKept`, `WalletKeepsTheBook`, `OneKindOfDeadlock` | `TypeOK`, `LedgerChain`, `KeyMovesCreditsOnce`, `ReceiptsHold`, `AdRewardsHold`, `KeepsTheBook`, `OnlyWithdrawAndRefundDeadlock` |
| `IdempotencyProofs` | `Typing`, `CopiesRunOnce`, `AnswersStay` | `TypeOK`, `RunsHold`, `StoredAnswerStays` |
| `FriendsProofs` | `Typing`, `BlocksSuppress`, `ListsAndBlocksAreKept`, `TwoKindsOfDeadlock` | `TypeOK`, `BlockSuppresses`, `ListsAndBlocksStay`, `OnlyKnownDeadlocks` |
| `RecordingsProofs` | `Typing`, `FilesAreThere`, `ConversionsAreKept`, `FinishedStays` | `TypeOK`, `FilesFollowStatus`, `ConversionsHold`, `ReadyStays` |
| `TapesProofs` | `Typing`, `ChecksAreKept`, `FilesFollow`, `ReceivedTapesStay` | `TypeOK`, `ChecksHold`, `FilesFollowRows`, `TapesStay` |
| `AccountsProofs` | `Typing`, `AccountsAreKept`, `NothingEndsEarly` | `TypeOK`, `AccountsHold`, `NothingTooEarly` |
| `RequestsProofs` | `PartsAreTyped`, `VerdictsAreCaused`, `LimitsAreKept`, `DrawerOrderIsKept`, `MovesLandWhereAsked`, `ReadsMissNothing` | `TypeOK`, `VerdictsHaveCauses`, `ReportsHold`, `DrawerOrderHolds`, `MovesLand`, `ReadsShowAll` |
| `OutsideProofs` | `Typing`, `TokensAreRevoked`, `AnswersAreTrue`, `PageIsTrue` | `TypeOK`, `TokensGoWithTheUser`, `ObjectsHold`, `PageTellsTheTruth` |

### Assumptions

All are named, stated in the module that declares the constants, and evaluated by
TLC on every run.

- *`None` is none of the values it is compared with*: in `UsersAssumption` (`Wallet`),
  `NoneAssumption` (`Idempotency`, `Recordings`, `Tapes`), `FriendsAssumption`,
  `BoundsAssumption` (`Accounts`), `DrawerAssumption`, `TokensAssumption`, and
  `Nobody` in `ReportsAssumption`. NULL is not a value; a model value has to be said
  to be none. `NoKey` is no key for the same reason.
- *Numbers*: prices and packs are positive and limits natural (`PricesAssumption`);
  there is an attempt (`AttemptsAssumption`), a page has a row (`PagingAssumption`),
  the base of the digits is at least 2 (`BaseAssumption`; the code's is 62), a report
  is kept at least as long as it counts (`ReportsAssumption`: five years and a day).
- *Identity*: users of `Wallet` are numbers, because `gift` locks in id order; tapes,
  groups and rows are numbers and not each other's, because lists break ties by id or
  by `sent_at`.
- *Finiteness*: of tapes, groups (`DrawerAssumption`), rows (`PagingAssumption`) and
  purchases (`JobsAssumption`). A table is finite; without it there need not be a
  first row in an order.

### Arguments

None of the properties is inductive as it stands: each says what the tables hold
when a request commits, and a request commits what it read some statements ago.
The inductive invariant says for each program counter what is still true of what a
request has read, and why: because it has the row locked, because the rows only grow
in one direction, or because the statement that writes looks again. Each was checked
by TLC on the run's instance before it was proved.

*`Wallet`.* `IInv` says that a session with an uncommitted ledger row for `u` holds
the lock on `u`, that `u` is active, and that the row continues from the balance that
everybody else still sees (`RowsHeld`). It is preserved because a balance changes
only at the commit of the lock's holder (`CommitEffect`) or by a withdrawal, which
holds the same lock. `KInv` adds that the key of an uncommitted row is not yet in the
ledger (`FreshKeys`). `TxInv` says the rest: which rows a session has written by
which amount (`TxRows`), exactly which locks it has (`TxLocks`), and what it has read
(`TxKnows`): a purchase that is being inserted is absent, one that is being refunded
is granted, with the amount that its owner has left, and an ad callback that was
counted is within the limit of the day it counted. With `GrantsOK`, `ReceiptsOwned`
and `AdDatesPast` about the tables this is inductive and implies `ReceiptsHold` and
`AdRewardsHold`.

*The refinement.* With `TxInv` a commit is known as a whole: it changes these users by
these amounts and this receipt in this way. So each of the commits is one deed of
`CreditBook` (`BuyDeed`, `GiveDeed`, `TopUpDeed`, `TakeBackDeed`, `RewardDeed`,
`LeaveDeed`, and `JoinDeed`, `ForgetDeed` of single statements), all else is a
stutter (`QuietDeeds`), and `WalletKeepsTheBook` follows step by step.

*Deadlocks.* A cycle is a least set of sessions each of which waits for another
(`WaitGraph`). Whoever is in one holds a lock and waits for one, which leaves few
program counters (`WaitsFor`). In `Wallet`, an insert of a purchase only waits for
sessions that wait for nobody; gifts lock in id order, so that a cycle of gifts would
have the session with the highest first lock wait for a higher one; what is left is
a withdrawal and a refund, and these two alone are a cycle. `TwoKindsOfDeadlock`
argues likewise about the two tables of `Friends`.

*`Idempotency`.* A session past `begin` holds its key (`KeyHeld`): the record is the one
it wrote, and no other session has the key.

*`Friends`.* Which rows a request has locked (`LocksOK`) and, for a user whose app
changes an entry once at a time, that what such a request read of the entry is what it
holds (`SerialOK`, `OneAtATime`): tapes and claims that overlap add a row where there
was none and change no other. `ListsAndBlocksAreKept` is an action property and needs
the invariant only before the step.

*`Recordings`.* What a request and a worker know of a recording (`RequestsKnow`,
`WorkersKnow`), though the worker may have lost its job: all it relies on are states
that are not left again. `JobsOK` is about the queue, `RowsHold` about row and files:
an original is there or accounted for (`Kept`, `Accounted`), because whoever deletes it
has seen that the recording is ready, or leaves its name in `left` or `cut`.

*`Tapes`.* What `SendCommit`, `ClaimCommit` and `MoveCommit` found is kept by a lock
(`Keeps`, `Apart`). What `deleteGroup` read without one is so still, or gone with its
recording or its recipient (`Read`). Whoever is about to delete files has taken the
row away before (`Purges`). The proof classifies what a step may do to the rows of a
recording, and shows once for each class that others keep what they know.

*`Accounts`.* Accounts and users are one to one (`OneToOne`), which the UNIQUE of
`auth_identities` and the cascade of `users` give; a token exchanged is gone
(`Exchanged`); a withdrawal is on record or a sign-up that overlapped it has taken
the record away (`OnRecord`, `Overtaken`).

*`LinkPage`, `AppleTokens`, `Storage`, `HourlyJobs`.* Their behaviours in `MCOutside`
are disjoint, so the invariant is the conjunction of theirs. `LiveTokens` names for
every token Apple holds who will revoke, replace or excuse it. `PutsHold` says that a
writer who is alone on the disk writes the file that is seen, and `ButtonFollows`
what settles a button that does not show what the element does.

*`Reports`, `Verifiers`.* Under the lock the reports of the last day are those
counted (`Counted`). A verdict is justified when it is given (`Judged`): the keys of
AdMob only move on, and who had an answer without the key was sent it before the key
was published, or after it was withdrawn.

*`Drawer`.* A request that is about to write has a place for its thing, between two
keys. It is true of it (`Choosing`) that no other thing of the list has a key strictly
between those two, unless that thing was written since the request chose
(`missed`). So the new key is another's only if the two overlapped, which makes
`TiesAreRaces` inductive. `deleteGroup` writes whole keys behind the last one, and
all it read as tapes of the group (`Emptying`). `OneHolder` says that a thing is
moved by one request at a time, `Lies` that what lies in a group is there.

*Keys.* `KeyFits` says that `keyBetween` of any two keys in order is a key between
them and how long it is. It rests on `AboveIsAbove` and `MidpointIsBetween`, about
recursive functions on sequences. First, there are functions as their equations say
(`UnfoldingExists`): a function that is given by one recursive call on an argument of
lesser rank is built level by level. Then, an induction without an induction theorem:
if the claim failed for some arguments it would fail for some of least length, and
there the equation leads to shorter ones.

*`Paging`.* A page is the first rows of what is stored in an order; that a finite set
with a total order has such a list is `SortedLists`, with the number of predecessors
as rank. Everything shown is newer than the last row shown or that row (`Reached`),
a row stored at the start and not shown is below the cursor or shares its millisecond
(`PagesHold`); rows that commit later do not matter to either. `Millis` is about the
division that the cursor makes.

### What the proofs changed

- Two CASEs, in `Said` of `Verifiers` and in `Init` of `Drawer`, had guards of which
  none, or two, might hold; they are IFs now, as in the code.
- `Midpoint` was recursive over all pairs of sequences, also those for which the code
  does not call it; its recursive case has a guard now, under which the second
  argument gets shorter.
- What sets are sorted by is an operator of its own (`Listed`, `NewestFirst`), with the
  position of an element said by the number of those before it.

### Only model-checked

- *Liveness*: `SessionsFinish`, `PendingSettles` and `WhatIsDueComes` need fairness, which
  means ENABLED, of which the prover can show nothing.
- *The refuted statements* of the three `violation` runs: a counterexample is a behaviour
  of an instance.
- *That a behaviour is possible at all*: that a run reaches every action and that each
  property can be violated by a plausible bug is shown by TLC.

## 5. Not modelled, and why

- Cryptography, HTTP, ffmpeg, the FCM's and the stores' own state: they compute or
  transmit; the models take their outcomes as input, and `Verifiers` what the code
  makes of them.
- The unlinking of a Kakao account (one call after a withdrawal, whose outcome
  nothing depends on), the creation of the bucket at start-up, profile updates
  (single statements), the login for developers.
- Wording, validation of DTOs, response mapping, cleaning of display texts, the
  layout of the link page, policies, the app version's comparison: no state.
- Whether two users are friends when a gift is given: `gift` reads it before any
  lock, so `Wallet` lets the check pass at any time.
- `TRUNCATE`-like operations of the development tools, configuration, migrations.
  The constraints in the schema are those of the entities.
- The order and batch size of the clean-up jobs other than `retryPlayConsumes`:
  a batch is any one row.
- The composition of `Recordings` with `Storage`: `Recordings` has objects that are
  written and deleted as a whole, or silently not deleted, which is what `Storage`
  shows of a bucket.

## 6. Plan

Done: all modules above, and a theorem for every invariant and action property that
a run checks. Left:

1. The step simulation of an abstract specification for the other components, as
   `CreditBook` is for `Wallet`: a queue whose jobs are done at least once for
   `Recordings`, a register per key for `Storage`, whose last answer `ObjectsHold`
   speaks of.
2. Theorems about reachable states that no run states, because they are the
   inductive invariants: `TxLocks` (which locks a handler holds at each statement)
   and `RowsHold` are of use by themselves.
3. For liveness, the safety half: that a variant decreases with each step of a
   session, which is an action property and needs no ENABLED.
