# Gibyeol 2026: a TLA+ model

Gibyeol 2026 lets people send each other encrypted letters that can be opened
only at Christmas 2026. A letter is a transaction of a Base contract plus an
encrypted media package on a PHP server; the browser does all cryptography, the
server stores packages, proves e-mail addresses, helps a recipient who lost a
passkey, and mails every recipient once on Christmas day.

This directory holds TLA+ modules translated from that code, TLC configurations
that check them on small instances, and proofs of the safety properties that
matter most, which TLAPS checks for all values of the constants. Paths below are
relative to the repository.

## The system

| part | state | operations | talks to |
|---|---|---|---|
| contract `contracts/src/Gibyeol2026.sol` | key counter, keys and open flag per owner, sealed letter ids, event log | `registerMailboxKey`, `deactivateMailbox`, `sealLetter` | called by browsers, read by everyone |
| sending `use-send-letter.ts` | draft in React state and localStorage, transaction hash | load, `update`, `reset`, `seal` | contract, wallet, package store |
| package store `Package/PackageStore.php` | one file per SHA-256 | PUT, GET | browsers, orphan collector (by the directory only) |
| orphan collector `Operations/OrphanGarbageCollector.php` | none (flock) | cron run, dry or `--apply` | chain logs, package directory |
| Christmas postman `Operations/ChristmasPostman.php` | table `notifications` | cron run | chain logs, `mailboxes`, mail provider |
| mail webhook `Email/ResendWebhookService.php` | tables `webhook_events`, `notifications` | one event | mail provider |
| e-mail verification `Email/EmailService.php` | tables `email_verifications`, `mailboxes` | challenge, verify | browser, mail provider |
| authentication `Auth/AuthService.php` | tables `auth_nonces`, `sessions` | challenge, verify, resolve, logout | browser wallet, RPC |
| recovery `Recovery/RecoveryService.php` | reads `email_verifications` | unwrap | contract by RPC |
| cleanup `Command/MaintenanceCleanupCommand.php` | deletes from four tables and temporary files | cron run | package directory |
| wallet session `use-wallet-session.ts`, `wallet-provider.ts` | session, provider, account | connect, restore, change, log out | wallet, authentication |
| e-mail registration `use-email-registration.ts` | verified address of the screen | ask the status, verify a code | wallet session, e-mail verification |
| onboarding `use-mailbox-onboarding.ts` | prepared registration, stored envelope | register, deactivate | contract, passkey |
| inbox `use-inbox.ts`, `onchain-inbox.ts` | letters, opened letter, activity | refresh, open, recover | chain logs, package store, drand, recovery |
| media `media-preprocessing.ts`, `timelapse-transcoder.ts` | the tab's one ffmpeg core and its files | prepare a selection | sending |
| letter formats `packages/protocol` | none | pack, parse, encrypt, wrap | sending, inbox |

What is hard in it, and where each hazard bites, is listed in `PROJECT.json`
under "hazards". The common pattern: a program reads the chain or a row, waits
(an await, an HTTP request, a directory listing), and acts on what it read,
while the recipient rotates a key, a transaction is mined or dropped, another
tab or cron run does the same work, or an answer is lost.

## Modules

| module | models | kind |
|---|---|---|
| `LetterLedger` | what the contract's event log promises its readers | abstract specification |
| `Gibyeol2026` | the contract; `Ledger == INSTANCE LetterLedger WITH log <- log` | component |
| `SendLetter` | `use-send-letter.ts` over the contract (`Chain == INSTANCE Gibyeol2026`), wallet, mempool and store | composition |
| `PackageStore` | PUT, the orphan collector and the chain snapshot it reads | composition |
| `ChristmasPostman` | the notification job, the provider and its webhook | composition |
| `EmailVerification` | the challenge, its verification, the mailbox it writes, and the cleanup of the proofs | component |
| `MailboxOnboarding` | `use-mailbox-onboarding.ts` over the contract, with the buttons of `MailboxOnboarding.tsx` | composition |
| `WalletSession` | one tab's wallet session and the e-mail registration that trusts it | composition |
| `LetterFormats` | GBYL, GTX1, GPK1, the time lock and the wraps | operators |
| `MediaPreparation` | the preparation of photos and videos in the sender's tab | component |
| `Inbox` | the recipient's tab: chain reader, opening, recovery | component |
| `LetterDelivery` | media, formats, chain, store and inbox, from the sender's files to the recipient's screen | composition |
| `*_proofs` | theorems about the module they are named after: eight of them | proofs |
| `MC*` | the values and symmetry sets of the TLC instances | model |

### `Gibyeol2026` and `LetterLedger`

Each external function is one action, because a transaction is atomic; a call
that reverts is a stuttering step. The order of the reverts is kept in
`RegisterError`, `DeactivateError` and `SealError`. Ciphertext that the contract
never reads is represented by its length, on both sides of each limit.
`type(uint32).max` is the constant `KeyIdMax`.

`LetterLedger` has the log as its only state. The inbox, the collector, the
postman and the recovery service know the contract through `eth_getLogs` alone,
so this is the contract's promise to them: key ids count up from 1 without gaps,
a mailbox is closed only under the key it is open with, a letter is recorded
once and to the key its recipient is open under at that place of the log. The
refinement mapping takes the ledger's log to the contract's; the contract's
four mappings are hidden from the ledger.

### `SendLetter`

`seal()` is one asynchronous function with some twenty awaits. An action is the
code from one await to the next, and `run[m].pc` names the await at which the
`seal()` of mount `m` is. A tab shows one mount of the hook (`shown`), and the
user may leave it for another page of the site: by the links of
`PostOfficeFlow.tsx:32` and `:73`, or because the gate of line 73 finds the
mailbox, the e-mail or the session no longer ready. `Leave` is leaving and coming
back. Nothing stops the `seal()` that runs: it goes on out of sight and saves
(`Persist`), while the hook is mounted anew, is not busy and loads what is saved
(`Load`). `Reload` closes the page itself and ends all its runs. `draft` is the
React state of the mount shown, `saved` localStorage, `working` the copy a
running `seal()` captured: `update` and `reset` have no guard against a running
`seal()`, whose next `persist` overwrites what they wrote. A letter key, its text and its archive
are made together, so one value of `Archive` stands for all three, and a wrapped
key is the pair of that value and the public key it is wrapped for.
`Mine`, `Drop` and `Rotate`/`Close` are the chain, the mempool and the recipient.
`Fault` holds everything that may go wrong: a request refused or unanswered
(`AwaitFails`), served but not answered (`AnswerLost`), media that cannot be
packed, a reload at any await, a dropped transaction. One sender, one recipient.
`leftUnpacked` is a history variable: the letters whose page was left while
`seal()` had not yet saved their archive.

Not modelled here: replacement of a transaction by the wallet (speed-up,
cancel), where viem resolves with the replacement's receipt
(`use-send-letter.ts:188`); chain reorganisations; a recipient address edited
between two attempts; a change of the sender's wallet, which loads the draft of
another key of localStorage; a saved draft that cannot be parsed (L57), which
this program does not write. A `SEALED` draft may name the hash of an earlier reverted
transaction when another one of the letter was mined (L208): the letter is on
the chain, so no property forbids it.

### `PackageStore`

A PUT is a write to a temporary file and a rename; what can be seen between them
is nothing, so a failed PUT leaves no trace. The collector takes the lock, reads
the logs up to the safe block, lists the directory, and deletes file by file;
each is a step of its own, and it may end (dry run, exception, kill) at any of
them. Time is counted in blocks and is also the clock that file times are
compared with. `MaxLag` says how far an endpoint may be behind, `MaxRun` how
long one request or one collection lasts: the real values (10-20 s RPC timeouts,
minutes) are far below the minimum age of 72 hours, and `StoreAssumption` keeps
that relation. No reorganisation is deeper than `SAFE_BLOCK_CONFIRMATIONS`.

### `ChristmasPostman`

The 15-minute lease of a claim and the back-off of a failed row are one flag,
`due`. `Send` and `Record` are separate steps, so a crash or a webhook may fall
between the provider's acceptance and the row's update. The provider keeps an
idempotency key until it forgets it (`Forget`), and emits its events in any
order; an event id already in `webhook_events` changes nothing. A mailbox row is
absent, good, or cannot be decrypted, and does not change during the campaign.
Table and column names follow the migrations.

### `EmailVerification`

`challenge` counts the recent rows and then inserts one, two statements without a
transaction: `ChallengeCount` and `ChallengeInsert`, with `challenge[q]` between
them. `verify` is one transaction under the lock of the row it selects, hence one
action per outcome that changes a table: a wrong code (`VerifyInvalid`), a right
one (`VerifyOk`). A code is right or wrong for the selected row and has no other
value; sending it by mail changes no table. The upsert follows MySQL: the row
found by the primary key is updated, or the row that the unique address finds, or
the statement fails and the transaction with it. `Cleanup` is the statement of
`MaintenanceCleanupCommand.php:36`; the others of that command are not here.
`provedBy` and `lastProved` are history variables.

### `MailboxOnboarding`

One page whose logged-in wallet (`address`) may change at any await. `op` is the
running `register()` or `deactivate()` with the address it captured; there is at
most one, because the buttons are disabled while it runs. `Start` is the part up
to the first await, `EnsureProvider`, `Approve`, `Receipt`, `ReadKey` the awaits
of the registration, `Catch` what the catch and finally blocks do. A public key
stands for the seed, the passkey and both envelopes, and is made new each time.
The question before a deactivation (`confirming`) stays open when the wallet
changes without a logout, as its component is not unmounted. Transactions of one
wallet are mined in the order of their nonces. `madeFor` and `lost` are history
variables. Not modelled: leaving the page for another route of the application
during an operation, an RPC endpoint that lags behind the receipt, dropped or
replaced transactions.

The fields `keyId` and `active` of the hook belong to no address: after a change
of wallet they show the old mailbox until `LoadActive`, and `ReadKey` writes the
answer for the old wallet on the new one's screen. The model keeps this; no
property forbids it, because nothing in the repository promises otherwise. When
the passkey is refused after its seed was drawn, `createPasskeyMailbox` leaves
the seed in memory (`passkey.ts:81`); no letter was ever sealed to it.

### `WalletSession`

The state is that of one tab in layers of different lifetimes: the browser
(`device`, `accounts`), the module variables of `wallet-provider.ts` (`active`,
`wcMade`), the server's cookie, localStorage (`saved`), the store (`session`,
`status`), and the mounted hook (`page`). `Navigate` replaces the last one and
keeps the others: calls of the old mount go on and reach the store but not the
new page (`current`). `Reload` keeps only cookie and localStorage. A call names
in `step` the answer it awaits: `Cleared` (the logout before a new connection),
`ConnectAnswer`, `Sign`, `Verified`, `LogoutAnswer`, `Disconnected`; each of
them may fail or lose its answer after the server acted. `Commit` is a render:
it stores the new state and runs the effects whose dependencies changed, among
them the one that listens to the wallet's `accountsChanged` (`SwitchAccounts`,
`Timer`, `AccountsAnswer`). `Elsewhere` is another tab, `Expire` the server's
end of a session. The e-mail hook asks the status for an address and posts a
code under the cookie; `email.post` holds both, because they may differ by the
answer. A connection refused by the wallet leaves the refusing provider the
active one (`ConnectFails`; `wallet-provider.ts:249`).

The mismatch flag of the hook is lost by going to another page and back; the
session it belongs to is still the server's, so `ScreenMatchesCookie` holds there.

### `LetterFormats`

Bytes are sequences of chunks, a value and its size each, in the order a
`ByteWriter` appends them; a parser that reads other sizes or values fails.
Cryptography is ideal: a ciphertext is the tuple of what it was made of and
opens under exactly that. `DamagedGbyl` and `DamagedText` are the alterations in
one place that `DamageShows` speaks of: the magic, a count, length, flag, type or
nonce changed, a ciphertext of another key, two items exchanged, a byte missing or
left over. The codec byte is not among them, for nothing in the archive binds it:
the hash on the chain does (`OpenedIsAuthentic`). A
leading byte order mark is taken away by `TextDecoder` (`gtx1.ts:112`), so a
text reads back without it. The number of items is a uint16 (`MaxItems`), which
`packGbyl` checks and nothing before it. The store reads an archive with a parser
of its own before it keeps it (`Validates`, `StoreAccepts`): `ParcelFits` asks
that whatever the sender prepares passes there too, down to the eight bytes of a
letter without files.

### `MediaPreparation`

A preparation goes through its files; `prep[p].step` is the await it is at.
Photos are decoded, kept if they fit, else encoded to WebP or, failing that,
JPEG; videos go through WebCodecs, and if that fails through the one ffmpeg core
of the tab, whose file names are fixed. Leaving the page does not stop a
preparation, so two of them may overlap in the core; `collided` remembers that
they did. `held` are the bitmaps, decoders and files that a `finally` must
release. The core is taken to be usable after a conversion that failed or timed
out, and to delete what it is asked to delete: `ffmpegPromise` is reset by a
failed load only (`timelapse-transcoder.ts:83`) and failures of `deleteFile` are
swallowed (L121), so a core that ffmpeg.wasm itself leaves broken would be used
again, which is not in the model.

### `Inbox`

A call is `refresh`, `open`, `code` or `recover`, and `step` its await.
A transaction of the chain is recorded as what its data was made of; the formats
are computed from that when a reader asks. Random values that only have to be
unequal to others are determined by what they belong to (`Seed`, `LetterKey`).
`refresh` reads the chain in ranges (`BlockRanges`) up to the head it asked for,
sorts, and shows. `open` loads the envelopes of the letter's own key id, asks the
passkey, fetches the package, waits for the drand round, unwraps and decrypts;
`recover` gets the seed from the server instead, after an e-mail code.
`secrets[c]` are the buffers that a call has filled and not yet erased:
`Erased` is what its finally blocks erase at the await it is at. `Leave` unmounts
the hook; its calls go on unheard. A call's secrets exist from the place where the
code makes them; the statements between that place and its `try`
(`use-inbox.ts:117`-`121`) await only the import of a module that is loaded already,
and are taken not to throw. `CheckKey` decodes the transaction's data and compares
the arguments of `sealLetter`; the field `direct` says that the data are that
call. To whom the transaction went is not looked at, in the code or in the
model. Not modelled: an endpoint that lags behind or a reorganisation of the
chain while the inbox reads it.

Object URLs made after leaving are never revoked (`use-inbox.ts:80`) and are not
in the model. `ChristmasArrival` speaks of the first letter that arrived while
its button opens the head of a list sorted newest first; `FirstButton` does what
the button does. What the recovery service answers (unlock time, a fresh proof,
the key registered on chain) is in `Verified` and `Unwrapped`; it keeps no
state.

### `LetterDelivery`

`SealParcel` takes a finished preparation through `packGbyl`, `encryptText` and
the wraps to a transaction; that sealing may fail and be retried is
`SendLetter`'s subject. `SealElsewhere` is a letter of some other client, within
what the contract and the store accept: through a contract wallet, wrapped for
an old key, or with the bytes of a letter that is already on the chain. A letter
sent through a contract wallet has another call's data in its transaction: it is
listed and cannot be opened, and the same holds for a registration by one.

## Runs

| run | instance | what it shows |
|---|---|---|
| `contract` | 2 accounts, 2 keys, 2 letters, 1 archive, `KeyIdMax` 2 | readers of the log learn the mailboxes, letters are sealed to live keys, the counter's end, refinement of the ledger |
| `send_one_tab` | 1 tab of 2 mounts, 2 letters, 2 archives, 2 keys, 2 faults or the page left once | every submitted letter can be opened and has one content per id, unless the page was left before the archive was saved; a letter does not wait for its transaction for ever |
| `send_two_tabs` | 2 tabs, 1 letter id, 1 fault or the page left once | two tabs on one draft submit only what is stored |
| `send_sealed` | 1 tab, 1 fault | counterexample: SEALED without a sealed letter |
| `package_store` | 2 packages, 2 uploads, 2 collectors, 8 blocks | nothing partial is published, nothing young is deleted, promptly sealed packages are kept |
| `package_store_accepted` | the same | counterexample: a late letter loses its package |
| `postman` | 1 wallet, 2 runs, 2 faults | one mail per remembered key, rows tell the truth, every reachable recipient is mailed |
| `email` | 2 wallets, 2 addresses, 2 clients, 2 requests, 3 rows, time 4 | limit overshot only by concurrency, mailboxes hold proved addresses, only a shared address takes one away |
| `email_mailbox` | the same | counterexample: verified and without a mailbox |
| `onboarding` | 2 wallets, 2 passkeys, 3 key ids, 2 lost answers, 1 other device | the key of the right wallet, once unless an answer was lost, its envelope under its id, no second passkey after a failure |
| `wallet_session` | 2 accounts, 2 calls in flight, 2 troubles | the screen shows the wallet the server acts for, an e-mail is shown for the wallet that proved it, restoring ends |
| `delivery` | 9 selections, 2 preparations, 2 letters, 2 keys, 2 calls, 1 fault on each side | media in their places and sizes, damage is noticed, the list is complete, secrets are erased, what is shown is authentic, honest letters open |

Type invariants are among the properties of four runs, and proved in every proof
module. For the contract, the package store, the postman and e-mail verification
they are proved and not checked again; so are the contract's `KeysAreHistory`, `SealedOnce` and
`MissingKeyUnreachable`. `StoredBeforeSubmitted` is checked with two tabs and
`Openable` with one; both are proved for any number. `OneContentPerLetter` is a
property of one tab, and excepts the letters in `leftUnpacked`.

### Why the bounds are enough

*contract.* Two key ids reach first registration, rotation and exhaustion; two
accounts make self-sealing, cross-sealing and interference; two letters race one
another and themselves. The log grows only with ids and letters, so the state
space is finite without a further bound. TLC says nothing of larger instances;
the proofs do.

*send.* `seal()` wraps a key on three paths and retries a failed write once; two
keys let each path see a rotation, and what two rotations of one letter do is
left to the proofs. Two faults cover a failure and a second one
during its repair (a lost answer, then a reload). Two mounts are the one that was
left with its `seal()` running and the one shown. To keep the instance small,
leaving the page counts for both faults (`LeaveFaults`); with one letter and
leaving counted as one fault, so that another failure meets it, the same
properties hold (1.2 million states). Without the exception for `leftUnpacked` TLC
finds two contents under one id in seconds. The number of transactions is
bounded by the faults and rotations, because each retry needs one. Drawing a
letter id, an archive or a mailbox key at random is drawing one never drawn
before.

*package_store.* `MinAge` 4, one block each of confirmations, lag and run length
leave `SafeAge` = 1 > 0, and 8 blocks hold an upload, its ageing, a collection and
a second upload with its own collection. Two collectors are needed for the lock.

*postman.* Two faults are any two of a crash, a failed request and a forgotten
key, at each place. Wallets share only the run that mails them and the message
ids, and a crash of a run between two wallets is a crash of it before one of
them. Two cron runs exclude each other by flock, so their interleaving is that
one dies and the other starts.

*email.* A limit of 1 and two requests reach the overshoot, three rows let a
mutant exceed it. One attempt and a lifetime of two reach both ends of a code;
the retention of 3 is over at time 4, when a mailbox has lost its proof. Two
wallets and two addresses give every case of the upsert.

*onboarding.* Two wallets are the one that was left and the one that is logged in;
two passkeys are one for each, or the page's and the other device's. Two lost
answers register one key three times, which needs three key ids; a third
passkey (with two ids and one lost answer) shows nothing new.

*wallet_session.* Two accounts are the one shown and the one it changes to. Two
calls in flight are one of the old mount and one of the new. `MaxTrouble` counts
page changes, failures, calls that overlap and what happens elsewhere: two of
them give every pair, such as a page change during a call whose answer is lost.
Only one of the accounts registers an e-mail (`Mailers`), its code is entered
while nothing else is under way, and after another tab logged in or out no
further trouble follows.

*delivery.* The sizes are scaled: an archive of at most 160, a text of 100, a
source video of 200 bytes leave parcels on both sides of each limit, and the
headers keep their real sizes. The selections hold every path of the preparation
and every reason to refuse a file; two videos of one form meet in the core's
files. Two preparations overlap. One failure of the browser per preparation
phase and one of the inbox fall on any await. Two keys and two letters let the
honest letter and the foreign one be sealed before and after a rotation. Pages
of two blocks make the list cross a page. To keep the instance small, the inbox
moves once the honest letter is sealed (before, there is nothing to read), one
prepared parcel is carried on to it (`Parcels`), the sender's page is closed by
then (`Blank`), the foreign letter comes before Christmas is seen, a rotation
and the honest letter each have a block of their own, and this device's clock is
not behind drand, which would only leave the buttons disabled for longer.

### Fairness

`send_one_tab` assumes that the user keeps pressing the button of the mount that
the tab shows and answers the wallet (`WF` of `Seal` in each tab and of
`SealStep` in each mount, for a `seal()` out of sight runs on as well; every
await of the code has a timeout),
and that a pending transaction is mined eventually unless it is dropped.
Rotation, closing and faults have no fairness. `postman` assumes what
`docs/operations-runbook.md:22` sets up, a cron entry every five minutes, that a
started run goes on unless it dies, and that time passes (`Elapse`).
`wallet_session` assumes that the browser runs the store's rehydration
(`Rehydrate`), that the request for the session is answered or fails
(`RestoreAnswer \/ RestoreFails`: fetch does not hang for ever), and that
restoring the provider ends (`RestoreProvider`). Nothing is assumed of the user,
the wallet or the other calls.

### Deadlock

The contract, sending, package-store, e-mail and onboarding instances stop when
their bounds are used up (no id, block, fault or row left), so deadlock is not
checked there. `wallet_session` stops where a wallet that withdrew its accounts
leaves a signature unanswered and `MaxTrouble` is used up, so that it cannot be
refused; `delivery` where all preparations ended without a parcel to seal. The
postman's runs can always start again and are checked for deadlock.

## Findings

* `use-send-letter.ts:146` - the receipt of the transaction left in the draft is
  awaited without looking at its status. A letter whose transaction reverted
  while the key was unchanged is shown as SEALED at the next attempt.
  `UnrecordedOnlyAfterRevert` shows that this is the only way to it.
* `OrphanGarbageCollector.php:42` - the documents say an accepted package is
  never deleted whatever its age; a package sealed late is. What does hold is
  `PromptlySealedKept`: a letter sealed before its package has the age
  `MinAge - Confirmations - MaxLag - MaxRun` keeps it.
* `EmailService.php:90` - a second wallet that verifies an address held by another
  wallet updates that wallet's row, with ciphertext that decrypts under the
  second wallet only: both are without a usable mailbox. `LostOnlyToSharedEmail`
  shows that this is the only way to lose one.

Not runs of their own: when the page of a letter is left while `seal()` looks up
the mailbox or packs the archive, and is come back to, the hook is not busy and
takes PACKING for DRAFT (`use-send-letter.ts:54`), so that a second press packs
another archive under the same letter id and both runs ask the wallet. The
contract seals one of them; `docs/protocol-v1.md:95` has a retry use its
letter's id and says nothing of two contents under one. It is the exception in
`OneContentPerLetter`. Further: a delivered event handled before the message id
is stored is consumed without effect and the row stays `sent`
(`ResendWebhookService.php:35`), while `docs/architecture.md:81` says events
update the rows; after the newest code of a wallet is verified, an older one
that is still alive is accepted (`EmailService.php:72`, the guard of
`Selected`), while `docs/data-model.md:61` promises one active challenge per
wallet; a selection of more than 65535 small files passes the size test of the
preparation (`media-preprocessing.ts:116`), which does not count them, and is
refused by `packGbyl` (`gbyl.ts:57`): `ParcelFits` speaks of the parcels with at
most `MaxItems` items, and its proof does not go through without that.

## Proofs

`Gibyeol2026_proofs` proves, for every set of accounts, keys, letters and
archives and every `KeyIdMax`, from `ContractAssumption` (the zero address and
zero key are not ordinary ones; the limits are naturals):

* `TypeCorrect`, the type invariant together with "an open mailbox has a key";
* `SafetyInvariant`, the inductive invariant `IInv`, the conjunction of `TypeOK`,
  `LogTellsMailboxes`, `KeysAreHistory`, `SealedOnce` and `SealedToLiveKey`;
* each safety property of the run from it, `MissingKeyNeverReported` and the
  action property `ExhaustedStaysClosedAlways`;
* `Implementation`: `Spec => Ledger!Spec`.

No conjunct is inductive alone. That a new letter is sealed to a live key
(`SealedToLiveKey`) needs that the mappings the code tests are the latest event
of the log (`LogTellsMailboxes`); that a refinement step of `Deactivate` or
`Seal` is allowed by the ledger needs the same; that a registration does not
overwrite a key which an earlier event announced needs that ids above the newest
are unset (`KeysAreHistory`). The argument runs over one lemma per action
(`RegisterStep`, `DeactivateStep`, `SealStep`). They rest on lemmas about the log:
appending an event leaves the latest event of an owner before any old position
unchanged (`LatestBeforeStable`), leaves it the latest if the new event is not
about the owner's mailbox (`LatestUnmoved`) and replaces it otherwise
(`LatestMoves`).

`EmailVerification_proofs` proves, for all sets and bounds that satisfy
`EmailAssumption`, `TypeCorrect`, `BoundedChallenges`, `MailboxesProved` and
`LostOnlyThen`, each from `SafetyInvariant`. `ChallengesBounded` is not
inductive: an insert is allowed by a count that was taken earlier, and other
requests may have inserted since. `RoomLeft` counts the pending requests as if
they had inserted: recent rows plus requests pending for one wallet, address or
client are at most limit - 1 plus the number of requests. An insert moves one
from the second term to the first, a count adds one to the second only below the
limit, and time, the cleanup and a verification never add a recent row
(`ReplaceCount`, `NothingAdded`). `LostOnlyToSharedEmail` needs `HoldersProved`,
that the holder of a mailbox row has verified the row's address; `MailboxProved`
needs `RowsInTime`, that a code is verified before it expires, so that its row
outlives the verification by `Retention - Ttl`.

`PackageStore_proofs` proves, for any number of uploads and collectors and all
times that satisfy `StoreAssumption`, `PublishedWhole`, `YoungNeverDeleted` and
`PromptlySealedKept`. The assumption is the real relation of the constants: the
minimum age exceeds confirmations, endpoint lag and the length of a request and
of a run together; `None` is not a file or a letter. `PromptlySealedKept` is
about two clocks. A file that a collector has listed was old when the list was
made (`CandidatesOld`), so if its letter was sealed promptly, the letter is old
too, older than what the snapshot lacks (`SnapshotComplete`): the collector saw
it and does not list the file (`PromptSpared`). That a young file is not on a
list needs that runs and uploads are short (`Timely`, `WritersEarly`).

`ChristmasPostman_proofs` proves `RowsTellTheTruth` and `OneMailWhileRemembered`
for any number of wallets, runs and faults. The first needs that the answer a
run holds is that of a mail to the wallet it works for (`AnswersTrue`) and that
the provider answers a remembered key with the mail it stands for (`KnownTrue`).
The second counts: mails to a wallet are at most the keys that the provider has
forgotten plus the one it remembers (`MailsCounted`, `ForgottenBounded`).

`SendLetter_proofs` proves `Openable`, `StoredBeforeSubmitted` and
`UnrecordedOnlyAfterRevert` for any number of tabs, keys and faults.
`SendAssumption` says that sender and recipient are accounts, that a letter id
can be drawn, that the limits are naturals, and that zero values are not
ordinary ones. `Good` says what a
draft holds at each stage, `Goes` where a running `seal()` may be with one. The
tabs share nothing but localStorage, so each draft is good by itself, and
`World`, which has the transactions, only moves forth (`Forth`): a key once
registered keeps its value, a package once stored stays (the collector is
`PackageStore`'s subject), a reverted transaction stays reverted. So a step of
one tab leaves the drafts of the others good (`GoodStays`, `GoesStays`), and an
action needs to show only its own draft's goodness (`TabKeeps`).

`OneContentPerLetter` is a theorem for one tab (two may pack one saved draft
twice), with any number of mounts. Its invariant (`LetterInv`) speaks of the live
drafts (`Live`): the saved one, the one shown, and that of every running
`seal()`. Those of one letter are forms of one another (`Like`: none of them is
packed yet, or all are and have one archive), so what a lost answer leaves behind is
always a draft that knows what was submitted; they agree with its transactions
(`Agreed`, `AsSubmitted`). Only a mount on the screen is at the steps that pack,
unless its letter is in `leftUnpacked` (`PacksOnScreen`), and an id in use is not
drawn again (`IdsDrawn`). Each step only makes other forms of live drafts, begins
a new letter or submits a live draft (`LiveFrom`, `TxsFrom`), and whatever does
no more than that keeps the invariant (`Carried`); packing is the exception and
has a lemma of its own (`PackLetter`).

`MailboxOnboarding_proofs` proves `KeyOfItsWallet`, `TwiceOnlyAfterLoss`,
`EnvelopeUnderItsKey` and the action property `PreparedKept` for any number of
wallets, keys, lost answers and other devices, with three invariants, each of
which rests on the ones before it. `IInv`: the wallet may change at every await,
so it follows the key: the running call's key was made for the address the call
captured (`OpOK`), what is prepared for the address in it (`PreparedOK`), every
pending transaction's for its sender (`PoolOK`); making a key changes none of
them, for only new keys are made (`MadeStays`). `CallInvariant`: only the newest
pending transaction is awaited (`Awaited`), and when it was mined nothing of its
owner is pending, so that the current key is its key unless another device
acted (`Landed`). `RetryInvariant`: a key that was not lost is pending once or on
the chain, never both (`Once`), and a key that is prepared for a retry, or that
a call is about to submit, is neither (`PreparedUnused`, `CallUnused`).

`ContractKept`, in both modules, says that the contract takes only the steps of
`Gibyeol2026` in the composition: `Spec => Chain!Spec`. What is proved of the
contract, and of the log that its readers see, holds there too.

`WalletSession_proofs` proves `TypeOK`, `ScreenMatchesCookie` and
`EmailOfItsWallet` for any number of addresses, connectors and calls in flight
(`WalletAssumption` says that the absent value is none of the others). The cookie
and the store are written by calls of any mount, so the invariant says what a
call may count on at each await: who is asked to sign is an account
(`CallsOK`), the status of an e-mail is asked for the address the page shows
(`AskedIsShown`), a code under way is for the wallet of its cookie
(`PostOfItsWallet`), and a provider is listened to for a session only
(`ListenOK`).

`LetterDelivery_proofs` has five parts, for every selection of files, parcel,
text, page length, number of calls, keys and faults.

* *The calls of the inbox*: `SecretsErased` and `OneAtATime`. Each call holds at
  most the secrets that its finally blocks erase at the await it is at
  (`Covered`): what `Erased` gives to an await must grow with what the steps
  before it draw. `OneAtATime` needs that a call which is heard belongs to the
  mounted inbox (`Heard`, `Hidden`), and that a button starts one only when the
  inbox is not busy, that is, when none lives (`Alone`).
* *Media*: `MediaInPlace`, `FailsForACause`, `NothingHeld`. `Undisturbed` says
  what the files of the core are at each await of their only user, and holds
  until a second preparation enters the core (`collided`); that a leftover has a
  user to remove it (`Leftovers`) holds whether they collide or not.
  `MediaAssumption` says that a selection is a sequence of files with a name and
  a size, and that what an encoder makes is not empty. That a preparation which
  is done is within the size limit is part of the invariant (`Placed`).
* *Formats*: a parser is the inverse of its maker for every list of items, text
  and envelope that packs (`GbylDecrypts`, `TextDecrypts`, `SeedUnwraps`). The
  parsers are predicates over the chunks, so that no step needs induction.
* *Sizes and damage*: `ParcelFits`, `DamageShows`. What the reader's parser takes
  the store's takes as well (`StoreKeeps`). A size is a fold over chunks.
  That the fold's function exists for every length (`RunExists`), and that the
  packer makes the bytes that were estimated (`SizeOfArchive`), is shown of the
  least number for which it would fail (`Least`). Each alteration of
  `DamagedGbyl` and `DamagedText` has a lemma that says where the parser stops
  (`WrongMagic`, `WrongNonce`, `WrongHeader`, `WrongItem`, `GarbledItem`, `MovedItem`, `WrongCount`,
  `ShorterArchive`, `WrongText`). `ParcelFitsAlways` assumes that an error is not
  a sequence, as it is compared with an archive that was packed.
* *Reading*: `LettersComplete`, `OpenedIsAuthentic`, `HonestLetterOpens`. The
  invariant (`InboxInv`) has what the chain is (`ChainOK`: every key id registered
  once, every letter packs), what a call has in hand at its await (`CallOK`), and
  what the screen shows (`ScreenOK`). The first holds by `Loading`: the pages read
  so far list the letters below the next range, each once, and the ranges left
  go on from there to the head without a gap (`Chained`); sorting keeps the list.
  The chain grows while a call waits, and a letter, once on it, stays as it is, so
  what is in hand stays right (`Grows`). A seed in hand is that of the letter's
  own key id, whatever was rotated since (`Proceeds`), which is why an honest
  letter opens. `InboxAssumption` says that a page has at least one block and an
  owner at least one key; `DeliveryAssumption` that parcels are lists of items
  and that an error is none of the values it stands in for; `KeyAssumption` the
  latter for the keys derived from a letter key.

Checked by TLC only: `Settles`, the mailing of every recipient and
`RestoringEnds`, because liveness is out of TLAPS's reach. Every invariant and
every action property of the runs is proved.

## Not modelled

* The mathematics of the cryptography, and the strength of anything: a key opens
  what was made for it, and nothing else does.
* The JSON-RPC client is stateless: it compares the answers of the configured
  endpoints. What its callers see, an answer that lags, is `MaxLag`.
* SIWE: a nonce is one row that is consumed under its lock in one transaction, so
  its races are MySQL's; the session it gives is the `cookie` of `WalletSession`.
* The recovery service's unwrap reads and answers; its answers are in `Inbox`.
  The proof of the e-mail address may expire between the code and the unwrap
  (`RecoveryService.php:43`), which `Unwrapped` refuses.
* The cleanup of nonces, sessions, webhook events and temporary files: no reader
  outlives the rows, and a temporary file is removed a day after its request
  (an upload that takes longer would lose it).
* HTTP headers other than the length of a body, rate limits of the
  framework, rendering, deployment scripts and CI.

## Plan

1. Browser: an inbox in two tabs; the post-office flow's steps over
   `WalletSession`, `MailboxOnboarding` and `SendLetter` at once.
2. Proofs: an inbox in two tabs keeps `LettersComplete` and `SecretsErased`; a
   ledger of mails that the postman implements.
