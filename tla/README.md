# A verification development for CERVEL

CERVEL is a TypeScript "knowledge infrastructure": a vault of knowledge objects
on each device, an API with a PostgreSQL database behind it, connectors that
import documents, a gateway to language models, and an end-to-end encrypted
Cloud Sync between the devices of a vault. This directory models the parts of it
that hold state and act on it, checks them with TLC on small instances, and
proves what matters most with TLAPS.

## Inventory

| part | state it keeps | operations | hard behaviour | what makes it correct |
|---|---|---|---|---|
| Cloud Sync engine (`packages/cloud-sync/src/engine.ts`) | journal, sent ids, applied records, cursor, counter, current revisions, conflict history, chunks | put, delete, attachArtifact, sync, pause, reset, backup, restore | merges in any order, crash between any two steps, lost answers | nothing journaled is lost, nothing is skipped, restart rebuilds, devices agree |
| Cloud Sync relay (`relay.ts`; `apps/sync-relay`) | one log of envelopes per vault, devices, nonces, chunks | register, enroll, revoke, push, pull, chunks, reset, delete | concurrent transactions, retries, replays | a log that only grows at its end, pulls never skip, a device stays |
| Controller and clients (`apps/local-node`, `apps/desktop`) | state file, cached engine | journal, sync, pause, reset, backup | two processes on one file, overlapping calls | the state file is durable and never goes back |
| Device enrollment v2 (`device-registry.ts`, `device-enrollment-v2.ts`) | signed registry, recovery envelopes | begin, approve, accept, revoke | several writes, partial failure, stale registry | it is known who holds which key, a revoked device is refused |
| Connectors (`apps/api/src/connectors.ts`, `source-*.ts`) | connections, watches, documents, runs, cursor | OAuth, watch, sync, delta sync, pause, disconnect | one transaction for a batch, rollback of failure records, token rotation | a changed document becomes a version, a failure is recorded, a cursor never passes unread changes |
| Identity (`identity.ts`, `workspace.ts`) | challenges, principals, passkeys, sessions | OIDC, passkey registration and sign-in, sign-out | concurrent use of a challenge, of a first sign-in, of a passkey | a challenge pays once, one signs in as oneself |
| Objects, storage, ingestion (`experience.ts`, `objects.ts`, `artifacts.ts`, `ingestion.ts`, `embeddings.ts`) | objects, versions, artifacts, fragments, embeddings, capture jobs | capture, upload, edit, reindex | savepoints, bytes outside the transaction, two indexings | no row without its bytes, every version kept, every text found |
| Corpus engine (`corpus-engine.ts`, `life-corpus.ts`, `vault-explorer.ts`) | filings, suppressions, sealed sessions | classify, file, remove, unlock, the views | classification and a person's edits, each several statements | the person has the last word, a seal holds in every view |
| Reasoning and retrieval (`reasoning.ts`, `semantic.ts`, `retrieval.ts`, `answer-boundary.ts`) | entities, claims, conflicts, evidence, answers | retrieve, ask, trace | rows shared by questions, deadlock, citation numbers | facts are shared, an answer's trace is its evidence, a citation is its paragraph's |
| Intelligence gateway (`packages/intelligence-gateway`) | provider health, receipts, budget ledger | plan, ask, fall back, charge | calls inside one transaction, fallbacks, concurrent spending | nothing leaves unallowed, the account is right |
| Developer commands (`scripts/developer-*.ts`) | vault, passphrase, setup.json, pid file, processes, container | setup, dev, verify, stop, reset | interrupted anywhere | what a command reports is so, a vault can be opened |
| Capture queues (`apps/capture-extension`, `packages/mobile-capture`, `apps/mobile`) | offline queue | enqueue, flush, deliver | load-modify-save races, crash, duplicate delivery | what is queued arrives, and arrives once |
| CKEP runtime (`ckep-runtime.ts`, `ckep-reactive.ts`, `agent-ckep-runtime.ts`) | event journal, subscriptions, dispatches | append, publish, poll, dispatch, drain | overlapping transactions, poison events, rollback | the journal is one chain, an event is dispatched once, a subscriber gets it once and in order |
| Watch and impact engines (`watch-engine.ts`, `impact-engine.ts`) | watches, alerts, dependencies, impacts | evaluate, propagate | cooldown, cycles, re-evaluation | no event passes without an alert for its subject (propagation is not modelled yet) |
| Embodiments, compilers, enterprise corpus, demonstrations, user interface, build | rows of one request, or none | | none that spans steps | not modelled |

How the parts talk to each other: the desktop app and the CLI call the
controller of the Local Node, which owns one engine object and one state file;
the engine calls the relay over HTTP. The worker, the dispatcher and the routes
of the API each run one PostgreSQL transaction per call, with calls to the
provider, to object storage and to language models inside it; they meet in the
database only. A question resolves its scope, packs context, ensures claims and
asks the gateway, all in its transaction. No part calls back into another one
while holding its state, so the interesting interleavings are those of handlers
between awaits, of transactions between statements, of messages, and of
commands that are interrupted.

## Modules

| module | what it is | checked by | proved in |
|---|---|---|---|
| `VersionVector` | `compareVectors` and `mergeVectors` of `protocol.ts` | `sync` | |
| `CloudSync` | engine, controller, clients and the relay's log of one vault | `sync`, `overlap`, `live`, `convergence` | `CloudSyncProofs` |
| `RelayLog` | what the relay promises the engine: the abstract specification | `devices` | |
| `PostgresRelay` | the relay's transactions, which implement `RelayLog` | `devices` | `PostgresRelayProofs` |
| `ChunkUpload` | encrypted chunks of artifacts on their way to the relay | `devices`, `chunks_resume` | `DevicesProofs` |
| `DeviceEnrollment` | enrolling and revoking devices, against relay and registry | `devices` | `DevicesProofs` |
| `DeveloperRuntime` | the developer's commands over a Local Node | `devices` | `DevicesProofs` |
| `SourceSync` | one connected account: watches, documents, four callers | `source_*` | `SourceSyncProofs` |
| `Identity` | sign-in and sessions | `node` | `NodeProofs` |
| `Capture` | captures, uploads, edits, indexing | `node` | `KnowledgeProofs` |
| `CaptureQueue` | the offline queues of extension and phone, and their deliveries | `devices` | `DevicesProofs` |
| `Corpus` | filing of objects, and the views over it | `node` | `KnowledgeProofs` |
| `Answers` | questions over shared claims | `node` | `KnowledgeProofs` |
| `WorkspaceGraph` | what a session sees of them | `node` | `KnowledgeProofs` |
| `AnswerText` | the wording a reader is shown without a model, and its citations | `node` | |
| `Gateway` | routing, disclosure and spending | `node` | `NodeProofs` |
| `EventStream` | the event journal, its dispatches, alerts and subscriptions | `node` | `EventStreamProofs` |
| `DataLemmas` | facts about sequences, sets and sums that several proofs cite | | itself |
| `MCCloudSync`, `MCOverlap`, `MCSourceSync`, `MCChunkUpload`, `MCNode`, `MCDevices` | instances for TLC | | |

Definitions that a comment calls a mutant (or named `X_Something` beside `X`)
are a definition with a plausible bug. `PROJECT.json` names for each checked
property the mutant that TLC finds with it. Variables marked *ghost* or *history*
exist for the properties alone.

`MCNode` and `MCDevices` gather modules that share no state: in each behaviour
one of them moves (`part`), so the states add up and do not multiply.
`WorkspaceGraph` extends `Answers` and asks its queries of the same rows.

### CloudSync

`engine[g]` holds the fields of a `CloudSyncEngine`, `disk[d]` the state file of
a device, `log` the relay's records in sequence order, `task[h]` where a call is
and what it keeps across awaits. JavaScript runs a handler to completion between
two awaits, so an action reaches from one await to the next; the two loops that
apply many records take a step per record (`todo`, `replay`) during which no
other handler of the engine moves. `sync()` is four awaits: chunks, push, pull
(repeated), persist. A push can succeed, fail before it arrives, arrive after
its caller gave up (`stray`) or arrive with its answer lost; a process can exit
at any point, and what it had in memory is gone. The controller's `load` is the
constructor applied to `disk`. With `DiskFails` a state file may fail to be written
while the process goes on, with what it holds in memory (`CallFails` at `persist` and
`write`), and one that cannot be read passes for one never written (`Readings`:
`cloud-sync.ts:17` catches every error). The runs have no disk failures; the theorems
that do not say `Undisturbed` or `~DiskFails` hold with them.

Since an envelope enters a journal when it is made, journals are sets with an
order given by `nr`. `record_id` is an HMAC, so its order is a parameter
(`IdAbove`), and runs take orders that rise and that fall with the counters.

### RelayLog and PostgresRelay

`CloudSync` takes the relay's log for granted. `RelayLog` says what that is: a
log that grows at its end and has no record twice, of which each device holds a
prefix, and members of which one always remains and none that was revoked comes
back. `PostgresRelay` has the rows and the open transactions: each request
authenticates (its device's row locked shared, its nonce inserted), takes its
locks in the order of the code, and writes at COMMIT. A request can be sent
twice, arrive late, lose its answer, or fail anywhere; PostgreSQL ends one of a
circle of waiting transactions. `RelayImplementsLog` is `RelayLog`'s
specification with `log` read from the rows in the order of their sequence
numbers. Authentication and the nonce are one step; the clock, in units of the
five minutes of the window, does not advance inside a transaction.

### ChunkUpload

A chunk's name depends on its plaintext and an encryption has its own nonce, so
what the relay has of a chunk is recorded as the sequence of parts it accepted,
each with its encryption and offset. `Refused` is the list of comparisons in
`putChunkPart` (both relays make the same ones; PostgreSQL's inside one
transaction with the row locked, so a call is one step). `Put` is an answered
part, `PutUnanswered` one whose caller times out or stops, `StrayArrives` and
`StrayLost` what may become of it. `attachArtifact` is used by the engine's tests
and validation script, and no command of the Local Node calls it yet.

### DeviceEnrollment

`onRelay` and `registry` are the two places that know a device; an operation
reads the registry, calls the relay and writes the registry, each its own step,
and its process may fail between them. Two commands may run at once and the later
write carries the registry the other had read before. Three things a
maintainer should know of hold in the model as in the code: a revocation whose
registry write fails cannot be retried (the relay refuses the device it has
revoked), a grant whose answer is lost cannot be asked for again
(`DEVICE_ALREADY_ENROLLED`), and a device that was revoked and enrolled again is
live in the registry and revoked at the relay. `EnrollmentIsSound` is about what
nevertheless must not happen: a key in hands nobody knows of, or a revoked device
that the relay serves.

### DeveloperRuntime

Every write of `cervel:setup`, `:dev`, `:verify`, `:stop` and `:reset` is a step;
between any two the command may be interrupted or the machine reboot, and the
next command finds what is left. Vaults, processes and generated passphrases are
numbers never used twice, so a property can say *this* vault's. A process told
to end is taken to be gone before the next command begins. What `docker stop`
returns is not looked at (`cli.ts:12`), and neither command asks whether Docker runs: `StopDatabase`
may leave the container as it is, which with `--restart unless-stopped` also stands for
one that the daemon brings back (`kept`). A failing `rm` is an interruption. Known and
allowed by the properties: a stop or a reset reports success over a container that
runs on, and after such a reset the next setup finds its port taken and refuses; `verify`
takes such a database for its own; `verify` trusts a `setup.json` that an interrupted reset left; a
start interrupted between spawn and pid file leaves a process no command finds
(`lost`); and a half-made vault refuses every setup until a reset.

### SourceSync

`db` maps each row to its committed value; a transaction `tx[t]` has its own
`writes` over it and the `locks` it holds, and reads its own writes first (READ
COMMITTED). A statement that needs a row another transaction has locked waits
(`Wants`, `BlockedBy`); transactions that wait in a circle lose one of them
(`DeadlockVictim`). `Commit` copies the writes, `Rollback` drops them. The steps
of a transaction lie between its calls to the provider and to object storage:
lock the watch, authorize (and refresh the token), fetch, store, next. The two
versions of `syncWatch` differ in `Authorize`, `Changed`, `Unchanged` and `Fail`,
where `V1(t)` tells them apart; the callers differ in what follows a failure:
the worker and the dispatcher catch it and go on, Sync now and delta roll back.
Time appears as what comparisons with the clock decide (`due`, `late`, an expired
token).

A provider's feed begins at its first entry or, as Google Drive's does, at the time
it is first asked for (`FromNow`): the first answer has no changes and today's page
token (`StartPage`, `source-provider.ts:123`), and `skipped` are the changes that token stands
behind. The delta never reads those, and neither does a webhook's activation, which sets the cursor in the
same way (`source-experience.ts:124`); a file that changed before is read when its watch
is next due. A batch whose source holds text PostgreSQL refuses is rolled back as a
whole, whatever the loop's `catch` does: the other sources of the batch stay as they were, at
every run, for as long as that file is there (`Poisoned`). Coarser than the code: a folder is
watched in one step, and an authorization waits for the connection's row where
`connectors.ts:170` only reads it. Freer than the code: a delta may end after any page
(the code counts to a thousand changes).

### Identity

A request is cut where it awaits the provider or the passkey library and where
it may wait for a row: `ConsumeChallenge` (an UPDATE that waits for the row and
looks again), `InsertPrincipal` (a unique key that waits), `SignIn` and `Register`
(COMMIT). A route under a session resolves it in a transaction of its own, so a
session ended meanwhile still finishes its request. Two concurrent sign-ins with
one passkey read its counter and write it later, so the counter can go back; no
property of the run says otherwise.

### Capture

A request makes an object with text, with other bytes, or with none (`Payloads`):
content that decodes to no bytes gives a ready job with an object and no artifact
(`experience.ts:77`). Objects are also made without a job, by `POST /v1/objects` and by
source imports (`BeginObject`). The bytes of an artifact go to the storage inside the transaction and stay
there when it rolls back; a capture that fails rolls back to its savepoint and
commits its job as failed. Three things the model shows and no property forbids:
two first indexings at the same time make two rows of the embedding model (there
is no unique index and the lookup has no order), after which a fragment can be
embedded and found twice, or two embeddings collide and one request is refused;
the first snapshot of a note lacks its note; of two edits the last wins.

### CaptureQueue

The extension's `flush` and the phone's `drain` have one shape: load the queue,
deliver record after record, save what remains. So do `enqueue` and the popup's
retry, without the deliveries. `doing[a]` is an operation between its load and
its save, `requests` are deliveries, which may be served after the device has given
them up or been killed. Whether a record is due is left open (`Skip`). At the node
a delivery takes the advisory lock of its fingerprint, looks for the row and
inserts it; a unique index stands behind the lock, and a request it had to refuse
would be a `conflict`. Nothing in the code keeps two operations on a queue apart,
and what `QueuedUntilStored` says of one at a time does not hold of two (see
below); the limit of the queue removes its oldest record without a word, and a capture
whose text is stored already is answered with that row, its own note and tags
unseen.

### Corpus

Every write to a filing is statement by statement. A classification looks for a
suppression and then upserts, candidate after candidate (`Check`, `Upsert`), and holds the
rows it wrote. A filing by hand deletes the suppression and then upserts the row (`File`,
`FileLife`, `PutFiling`, `CommitFiling`), a removal deletes the row and then inserts the
suppression (`RemoveFiling`, `Suppress`, `CommitRemoval`); at READ COMMITTED each statement
waits for the rows others have written and sees what is committed when it runs. So a
removal may be overtaken: a classification that looked, or a filing that deleted nothing, before
the removal was committed, writes the row after it, which is then both filed and
suppressed. `history.raced` names these places and `PersonHasLastWord` excepts them
and nothing else; `RemovalHolds`, which says that no classification puts back what a
person removed, is refuted (below; migration `035:20-21` and
`docs/MULTI_CORPUS_REGISTRY.md:28` promise it).

The views (`queryCorpusView`, `getLifeCorpus`, the runtime envelope, the semantic views, the
explorer's lists and objects) are operators over the same rows, so that
`ViewsKeepTheSeal` can compare them. A further one, what a capture says is related
(`Related`, `relatedVaultKnowledge`), joins through rows whose seal it does not ask for, and
has a property of its own, which is refuted (below). What a maintainer should know of:
whoever lists corpora first owns them, and another person's
life bootstrap is then refused; the explorer's home is refused to anyone who may
not see one of the built-in corpora; a sealed subtab filed before the life corpus
is installed is not sealed; a view grant suffices to file by hand; `listCorpora`'s
`membership_count` (`corpus-engine.ts:29`) counts sealed rows.

### EventStream

Every route, and the drain script for every event, runs one transaction on a
connection of its own. `tx[w]` has what it still has to do (`todo`), the locks it
holds (the advisory lock of the stream, that of an event, or the row of a
subscription) and what it has written; `Conclude` is COMMIT, `Undo` every error.
An external producer says where in the stream its event belongs (`Follows`), a
knowledge event is put at its end, an analysis publishes and dispatches in
turn. A dispatch looks again once it has the event's lock; a poll moves its
cursor to the last event it delivers, an agent's stops before the first that is
not dispatched. What a maintainer should know of, and no property forbids: the row
that says a dispatch failed is rolled back with the exception that follows
(`ckep-reactive.ts:39`; `docs/ckep-reactive-intelligence.md:13` says errors are
recorded), so a poisoned event looks like one never tried; it keeps agents
waiting for good, and rolls a whole drain back; and the answer to a poll that is
lost is not delivered again.

### Answers, WorkspaceGraph, AnswerText

`Answers` is the transaction of a question: ensure entities and semantic claims,
look for scope conflicts, ensure claims of fragments, look for contradictions,
write the answer. Rows are a bag, so that two rows of one fact could be seen. A
unique index makes a second insert wait and then fail its question, and two
questions that wait for each other lose one. `/v1/context/:id/reason` answers
from a package made earlier, without looking at permissions again.

`WorkspaceGraph` gives each query of `workspace.ts` and the graph as an operator
on those rows. They filter by workspace and not by permission bindings, and an
entity's kind and confidence are those of the first text that named it, in
whatever workspace (`semantic.ts:27`). The condition `lifecycle_status <> 'deleted'` that some
of the queries have is left out, since nothing in the repository writes that value.

`AnswerText` poses every list of paragraphs up to a length and follows the path to the
reader: `executeContextReasoning` joins the first four with their marks on one line
(`reasoning.ts:206`), and the sanitizer judges the result line by line. The adapter that
makes its paragraphs safe one by one (`composeCitedAnswer`) is not on that path.
A paragraph may have several lines, as ingestion splits at blank lines only, so its
last line is one line with its mark and with the next paragraph's first. Two things
follow. When one of these must be hidden the mark goes with the line, and what is left of the
paragraph is read with the next mark; and a line with a role before a colon, known by its
beginning, is not recognized behind a mark. `ShownTextIsCited` says what holds in spite
of this: nothing is renumbered, no mark stands behind another paragraph's text, and whatever is
shown of a paragraph whose mark is shown leads to it. `AnswersExposeCitations` says what
the boundary's test says, and is refuted (below).

### Gateway

A question is one transaction which stays open while it calls one provider after
the other; `sent` records what left the device and what the policy in force said of
it. The classifier is given the question and the first 100,000 characters of the
evidence (`semantic-reasoning.ts:16`), the provider all of it: a package has what the
classifier `found` and what it `held`, and `DisclosureIsAllowed` is about the former. The quality floor is
lowered with `CERVEL_OFFLINE_ONLY` alone (`GoodEnough`): where only the network is not allowed and
no model runs locally, the built-in provider is below it and a generation fails. A provider's health row is locked from its write to COMMIT, so questions wait
for each other, or deadlock. The receipt's `external_disclosure` is what the plan
said of the selected provider: it stays FALSE when a cloud fallback got the
evidence, and a question that rolls back leaves no receipt of what it disclosed.

## What the runs check

Every run finishes within five minutes with two workers. A run with the result
*violated* shows a disagreement between the code and a sentence of its
documentation; `PROJECT.json` quotes both under "findings".

| run | instance | properties | question |
|---|---|---|---|
| `sync` | `MCCloudSync`, 438 000 states | `TypeOK`, `NothingDiscarded`, `SentIsStored`, `LogIsCausal`, `CurrentIsMaximal`, `RestartRebuilds` | Two devices write and synchronize with one lost answer or crash anywhere: is anything lost, pushed out of order or rebuilt differently? |
| `overlap` | `MCOverlap`, 1 210 000 states | `CursorSound`, `JournalIsDurable`, `RecordIdsAreUnique`, `InSyncSameRecords`, `ShownNeverRegresses` | Resets, or syncs, backups and pauses that overlap in one process: is a record skipped, a journal entry lost, a counter used twice, an older revision shown again? |
| `live` | `MCCloudSync` | `JournaledIsDelivered` | Does what is journaled reach every device after one failure? |
| `convergence` | `MCCloudSync` | `Convergence` *violated* | Do devices with the same records show the same revisions (`docs/CLOUD_SYNC.md:28`)? |
| `chunks_resume` | `MCChunkUpload` | `AttachedIsPushed` *violated* | Can an upload be resumed after a part was stored (`docs/CLOUD_SYNC.md:30`)? |
| `devices` | `MCDevices`, 1 940 000 states | `PassphraseOutlivesVault`, `CommandsTellTheTruth` | Developer commands interrupted anywhere, and a container that is not stopped: can a vault still be opened, and is what a command reported so? |
| | | `ChunksAreWhole`, `RecordsHaveChunks` | Two devices upload the chunks of one artifact, calls get lost: does the relay ever hold a mixed chunk, or a record before its chunks? |
| | | `EnrollmentIsSound` | Enrollment and revocation fail between relay and registry: is it known who holds a key, is a revoked device refused? |
| | | `RequestsServeOnce`, `RelayImplementsLog` | Requests repeated, late and concurrent, transactions that deadlock: is each served once, and is what pulls see the log of `RelayLog`? |
| | | `CapturesArrive` | Queued captures whose deliveries are lost, repeated or overlap, on a device that may be killed: does each arrive, and once? |
| `node` | `MCNode`, 1 080 000 states | `NodeTypeOK`, `SignInsAreSound` | Two requests answer one challenge, or sign the same person in for the first time. |
| | | `FactsAreShared`, `WorkspaceSeesItsOwn` | Two questions over the same facts, which may deadlock: is each fact one row, is the trace of an answer what it rests on, and does a workspace see its own only? |
| | | `ShownTextIsCited` | Every short list of paragraphs: does what the sanitizer drops renumber a citation or lend it to another paragraph? |
| | | `DisclosureIsAllowed`, `SpendingIsAccounted` | Providers fail, the policy changes, two questions spend at once: does evidence leave the device unallowed, and is the account right? |
| | | `CapturesAreWhole` | Captures, other new objects, uploads, edits and indexings that fail or overlap, with and without bytes: is a row without its bytes, a version lost, a text not found? |
| | | `PersonHasLastWord`, `ViewsKeepTheSeal` | Classifications, filings and removals that overlap, statement by statement: who prevails, and does a sealed coordinate stay hidden in every view? |
| | | `SignalsFollowTheJournal` | Appends, publications, analyses, dispatches, drains and polls that overlap, fail or crash: is the journal one chain, does each event take effect once, does a cursor pass what was not delivered? |
| `source_worker` | `MCSourceSync` | `OneCurrentArtifact`, `HealthIsResolved`, `FailureIsDurable` | Two runs of the worker with two failures. |
| `source_service` | `MCSourceSync` | `HistoryComplete` | Dispatcher, Sync now and delta with a user who disconnects, reconnects or syncs. |
| `source_together` | `MCSourceSync`, 3 180 000 states | `TypeOK`, `NoDuplicateRevision`, `CursorSound` | All four callers on one file, with content that PostgreSQL refuses and a feed that begins at "now". |
| `source_live` | `MCSourceSync` | `ChangeIsImported` | Does a change of either of two files get imported whichever single failure comes first, unless the other holds what PostgreSQL refuses? |
| `source_failed_manual` | `MCSourceSync` | `FailureIsDurable` *violated* | Does a failing Sync now leave a failed run (`docs/pr7-principle-explicit-errors.md:3`)? |

### Bounds, and why they are enough

- `sync`: three mutations on two devices are the least with which a pairwise
  merge and a merge of all can differ (a chain on one side, a concurrent edit on
  the other). `PageLimit` 2 makes a pull have a page boundary; a `BatchLimit` of 2
  stands for 500. One fault can fall anywhere, and what it leaves behind is
  followed to the end.
- `overlap`: `InScenario` keeps to states in which each device has one call at a time
  (any, also a reset), or device a has two (no reset, no journal). With a reset
  beside another call `CursorSound` is refuted, and with a journal `JournalIsDurable`,
  see below. Pages of one record, one failure.
- `source_*`: one file suffices where the property is about one row; two files are
  used where batches matter. Two transactions at a time give every pair of
  callers; `MaxChanges` 2 gives create and change, or create and delete; `source_live`
  has two contents that can be stored beside one that cannot. In
  `source_together` a feed that was never asked for, and what its first answer passes
  over, are explored with the dispatcher and the delta alone and without failures
  (`FirstFeedAlone`): what is read later than that answer is the same for every caller.
- `node`: two overlapping requests, questions, transactions (`Two`, symmetric)
  in every part. `Identity`: three challenges and two sessions, so that a
  challenge can be answered twice, by two people, and beside another.
  `Answers`: two paragraphs from three texts that agree, differ or contradict,
  two packages, two questions. `AnswerText`: six shapes of paragraphs of one or two lines, lists up
  to five (the code uses four).
  `Gateway`: five providers, a budget of one and questions of up to two, packages that
  are what they look like or worse.
  `Capture`: four requests over two objects and artifacts. `Corpus`: one object with two
  contents, three coordinates of which one is sealed, four operations, two of them by hand
  at once. `EventStream`:
  four operations on two connections over three events, two of one analysis and of
  one subject and one external, with a subscription that filters and one that does
  not, so that a publication, its dispatch, a drain and a poll can overlap (five
  operations, 71 000 states, find nothing more).
- `devices`: `DeveloperRuntime` with four commands (a setup, an interrupted one,
  a reset, and one that finds the rest); `ChunkUpload` with two devices, two
  chunks of two parts in two encryptions each and two lost calls;
  `DeviceEnrollment` with two identities, two commands at once, two epochs;
  `PostgresRelay` with two devices, three records, two open transactions, two
  requests that can be repeated, pages of one record, and a clock that passes the
  window and the nonce's life; `CaptureQueue` with three captures, two of them alike,
  a limit of two and two deliveries, so that one can be repeated while the first is
  still served.

Histories are bounded and an account, a vault or a question may be the last, so
`CHECK_DEADLOCK FALSE` is set except in the runs of Cloud Sync, where a sync can
always be asked for.

Some properties hold only for the caller they were written for:
`HealthIsResolved` and `FailureIsDurable` hold for the worker alone,
`HistoryComplete` for the second version of the synchronization without the first,
`OneCurrentArtifact` for the worker under every failure. `CursorSound` of
`SourceSync` excepts the changes before Google's first page token (`skipped`), and
`ChangeIsImported` a file beside which another holds what PostgreSQL refuses
(`Poisoned`). `CursorSound` is checked without user operations: when the user pauses or
disconnects between two overlapping deltas, the older one, whose list of watches
is stale, can enable a file whose change the newer one skipped, and the cursor
has passed it. `RecordsHaveChunks` holds when artifacts are attached between
syncs (`MidSync = FALSE`). `BudgetHolds` bounds the month's spending by the ceiling
and what the other questions under way may cost: each plan reads the ledger before
they commit.

### Refuted by small changes of a run

The runs above say under which circumstances a property holds. These
circumstances matter: TLC finds each property below violated when a listed run
is changed as the table says (the property checked alone, other bounds kept or
lowered). Each is a behaviour of the code that a maintainer should know of. What survives a
change is as telling: with `DiskFails = TRUE`, `MaxWrites = 2`, `MaxFaults = 2` (from
`sync`, 624 000 states) TLC still finds `NothingDiscarded` and `CursorSound` kept.

| property | start from | change | what happens |
|---|---|---|---|
| `CursorSound` | `overlap` | no `CONSTRAINT`, `Ops = {"sync", "reset", "backup"}`, `MaxFaults = 0` | a reset during the pull of another call leaves the cursor past records it dropped (`engine.ts:27`) |
| `CurrentIsMaximal` | `sync` | `Ops = {"journal", "sync", "reset"}` | a reset forgets a device's own revisions too; if its next sync fails, a mutation made then is applied before the earlier one it follows, and another device's revision that comes between them brings the earlier one back (`engine.ts:27`, `:23`; `docs/CLOUD_SYNC.md:28` says version vectors distinguish causal updates from concurrent edits) |
| `JournalIsDurable` | `overlap` | no `CONSTRAINT`, `Ops = {"journal", "sync"}` | two calls of one process persist at once, and the older state is renamed over the newer (`local-node/src/cloud-sync.ts:18`) |
| `JournalIsDurable` | `sync` | `SharedEngines`, `SharedDeviceOf`, `SharedEngineOf` for engines and handlers | Desktop and CLI persist whole states over one file (`local-node/src/cloud-sync.ts:18`) |
| `JournaledIsPushed` | `live` | `BatchLimit = 1` | a journal longer than one push is refused at every sync (`relay.ts:12`) |
| `RecordsHaveChunks` | `devices` | `MidSync = TRUE` | the record of an artifact attached during an upload is pushed before its chunks (`engine.ts:25`) |
| `FailureIsDurable` | `source_worker` | `Poison = {contentP}`, `Contents = {contentA, contentP}` | one refused text rolls the worker's batch back (`connectors.ts:364`) |
| `HistoryComplete` | `source_worker` | `Kinds = {"worker", "batch"}`, `MaxChanges = 3`, `Failures = {}` | the two versions of `syncWatch` number `cko_versions` differently (`connectors.ts:318`) |
| `HealthIsResolved` | `source_worker` | `Kinds = {"worker", "batch"}` | an alert of the worker outlives the dispatcher's success (`source-sync-v2.ts:3`) |
| `OneCurrentArtifact` | `source_service` | `Failures = {"upload"}` | a failed upload in a batch leaves a document without an artifact (`source-sync-v2.ts:3`) |
| `OneObjectPerWatch` | `source_service` | `Failures = {"upload"}`, `MaxFaults = 2` | each retry of a first import makes a knowledge object (`source-sync-v2.ts:3`) |
| `PausedStaysPaused` | `source_service` | `Kinds = {"delta"}`, `UserOps = {"pause"}` | the delta of a watched folder enables a paused file (`source-experience-v2.ts:207`) |
| `DisconnectionHolds` | `source_service` | `Kinds = {"delta"}`, `UserOps = {"disconnect"}` | a token refresh revives a disconnected account (`source-provider.ts:69`) |
| `ReadIsCurrent` | `source_service` | `Kinds = {"delta"}`, `MaxChanges = 3` | a file deleted and restored with the same bytes stays out of date (`source-sync-v2.ts:3`) |
| `NothingIsLost` | `devices` | `Moving = {"queue"}` | two operations on a device's queue overlap, and the later save drops what was queued in between (`queue.ts:6`, `background.js:11`; `docs/MOBILE_CAPTURE.md:19` says records remain until delivered or deleted) |
| `AlertsAreSpaced` | `node` | `Moving = {"stream"}` | two dispatches of one subject's events read the cooldown before either commits, and both surface an alert (`watch-engine.ts:52`; `docs/cervel-watch-proactive-intelligence.md:32` says the cooldown suppresses the second) |
| `NobodyWaitsForever` | `node` | `Moving = {"stream"}` | an analysis and a drain take the locks of two events in different orders, until PostgreSQL ends one (`ckep-reactive.ts:29`) |
| `RestartRebuilds` | `overlap` | no `CONSTRAINT`, `Ops = {"journal", "sync", "reset"}`, `PageLimit = 3`, `MaxWrites = 3`, `MaxFaults = 0` | after a reset a pull of another call brings the records in another order before the reset is written, and the conflict history differs from the one a restart rebuilds (`engine.ts:27`) |
| `RestartRebuilds` | `sync` | three engines and handlers, two of them on the state file of device a, `RisingIds`, `MaxFaults = 0` | Desktop and CLI have the same records in different orders, and so different conflict histories; a restart takes that of whoever wrote last (`local-node/src/cloud-sync.ts:18`) |
| `CursorSound` | `source_together` | no `CONSTRAINT`, `Kinds = {"delta"}`, `UserOps = {"pause"}` or `{"disconnect", "reconnect"}`, `MaxUser = 2`, `Contents = {contentA, contentB}`, `Poison = {}`, `Failures = {}` | see above |
| `GoodChangeIsImported` | `source_live` | | a file whose text PostgreSQL refuses keeps the rest of its batch from being imported, at every run (`connectors.ts:391`, `source-sync-v2.ts:3`) |
| `JournalIsDurable` | `sync` | `DiskFails = TRUE` | a state file that cannot be read is taken for one never written, and the next write replaces it (`local-node/src/cloud-sync.ts:17`; `docs/CLOUD_SYNC.md:28` says local mutations enter a durable offline journal) |
| `RecordIdsAreUnique` | `sync` | `DiskFails = TRUE` | a mutation whose state file could not be written is pushed all the same; after a restart its counter is given to another (`local-node/src/cloud-sync.ts:18`) |
| `StopStopsTheDatabase` | `devices` | `Moving = {"runtime"}` | `docker stop` fails, or the daemon is down, and stop reports success; the container runs on or comes back (`cli.ts:12`; `docs/GETTING_STARTED.md:132` and `developer-lifecycle.ts:85` say it is stopped) |
| `AnswersExposeCitations` | `node` | `Moving = {"text"}` | a mark goes with a line that is dropped, and what is left of its paragraph is shown without a citation or with the next one's (`reasoning.ts:206`; `tests/reasoning-boundary/answer-boundary.spec.ts:29` says deterministic answers expose citations) |
| `NothingConfidentialLeaves` | `node` | `Moving = {"gateway"}` | what stands behind the first 100,000 characters is sent and was never classified (`semantic-reasoning.ts:16`; `docs/INTELLIGENCE_GATEWAY.md:25` asks for an opt-in for confidential packages) |
| `RemovalHolds` | `node` | `Moving = {"corpus"}` | a classification that looked before a removal was committed puts the row back (`corpus-engine.ts:52`; `docs/MULTI_CORPUS_REGISTRY.md:28` says it cannot) |
| `RelatedKeepsTheSeal` | `node` | `Moving = {"corpus"}`, `Documents = {"d1", "d2"}` | where a captured object is filed under a seal decides which neighbours are called related to it (`capture-routes.ts:15`; `docs/LIFE_CORPUS_RUNTIME.md:9` says sealed views fail closed) |

## Fairness

- `CloudSync`: an engine that can step does (JavaScript's event loop), a call
  that began goes on or fails, the relay finishes a push it has begun, and
  somebody keeps calling sync (strong fairness: the calls of other operations
  may take their turn in between). Nothing is assumed about failures, but they
  are bounded.
- `SourceSync`: time goes on, the scheduler calls again (the repository deploys
  the dispatcher as a scheduled job), and a transaction takes its next step.
- `ChunkUpload`: sync is called again and again and a call is answered.

The other modules have safety properties only and assume no fairness: a developer
need not run another command, and a request may be lost for good.

## Proofs

### CloudSync

All of it is for every set of devices, processes and calls, any entities, any
order of record ids and any bounds, from three assumptions on constants:
`CloudSyncAssumption` (kinds, page and batch limits above zero),
`BackupAssumption` (the random name of a backup is nobody else's entity) and
`NoEnvelopeAssumption` (the absent envelope is none). `TypeOK` is inductive as it stands; what makes the proof
long is that each action must be shown to build engine states, saved states and
calls of the right kind, for which the lemmas say what a merge, a mutation, a page
and the constructor return (`ApplyEffect`, `MutateEffect`, `PageMembers`,
`ConversionTypes`). `OldestIsMember` rests on the well-foundedness of the
naturals.

Each further theorem has its own invariant, proved after those it builds on:

| theorem | property | hypothesis | invariant |
|---|---|---|---|
| `SentIsAlwaysStored` | `SentIsStored` | | `ReplicaInv` |
| `CursorNeverSkips`, `InSyncAgrees` | `CursorSound`, `InSyncSameRecords` | `ResetsAlone` | `ReplicaInv` |
| `NothingIsDiscarded` | `NothingDiscarded` | | `MaterialInv` |
| `ShownOnlyAdvances` | `ShownNeverRegresses` | | steps only |
| `AcknowledgedIsDurable` | `JournalIsDurable` | `Undisturbed` | `SoleInv`, `SafeInv` |
| `IdsAreNeverReused` | `RecordIdsAreUnique` | `Undisturbed` | `UniqueInv` with these |
| `LogStaysCausal` | `LogIsCausal` | `Undisturbed` | `CausalInv` |
| `ShownIsMaximal` | `CurrentIsMaximal` | `Undisturbed`, `NoResets` | `OrderInv`, `CurrentInv` |
| `RestartsRebuild` | `RestartRebuilds` | `OneProcess`, `ResetsAlone`, `~DiskFails` | `RebuiltInv`, `FilesInv` |

- `ReplicaInv` says what engines, state files and calls have of the log. What is
  sent is in the log, also the ids an answer that is still under way accepts; what
  is applied is in the log or in the journal; a page is what follows its cursor;
  and everything up to a cursor is applied, or in the loop that applies it. The
  last holds where a call that resets has its engine to itself (`ResetsAlone`):
  with a reset beside a pull TLC refutes it.
- `MaterialInv` says that what an engine shows is one of its records and every
  record is shown, kept, or superseded. It needs that comparing vectors is an
  order (`VersionVector`), since the revision that supersedes may itself have been
  superseded. Nothing is assumed of the calls: a merge is one uninterrupted step.
- `Undisturbed` is one process per device and one call at a time on it, which is
  how the Local Node's commands use the controller, and a state file that can be read and
  written. Without it `JournalIsDurable`
  is refuted in three ways (table above). `SoleInv` says where a mutation is
  before it is acknowledged: in memory, then in the state the call is writing; and
  that a state file's counter is not below its journal's. `SafeInv` adds that what the
  relay has or may still get is in a state file, whatever was reset or killed:
  the controller persists the journal before it syncs. So `mutate` gives a counter
  above all others of its device, and ids are unique (`UniqueInv`).
- `CausalInv` follows a revision and what it has seen from the journal to the log.
  A vector counts only mutations that exist (`SourceInv`, `VectorInv`); a revision
  is pushed together with, or after, everything of its device it has seen
  (`TurnInv`), because a sync pushes all that is unsent and the relay stores a batch
  in its order; hence in the log the past comes first (`PastFirst`), and siblings
  come in their order (`InTurn`).
- `OrderInv` does the same for each engine: what it applies, from pages, from its
  own journal and after a restart, never comes before what it has seen. A record
  that arrives therefore never precedes what is shown, or is compared with it as
  the merge expects (`CurrentInv`). With resets this fails, and not only the proof:
  looking for the reason it would not go through led to a behaviour of the code
  (table above, `CurrentIsMaximal`).
- A restart replays records one by one, and what it shows depends on their order. So
  `RebuiltInv` says that whatever has records and a materialization (an engine, a state
  file, a call about to write one) has the end of a `Trace`: the materializations on the
  way, each merged from the one before. A sequence has one such end (`OneMaterial`, by
  the least place where two traces differ). `FilesInv` says that the records of a
  state file begin those of its engine, or are what the constructor still reads, or the
  engine has just been reset and is about to write. Equal sets of records are then
  equal sequences (`SameRecords`). Calls may overlap in one process; with two processes
  on a file, or a reset beside a pull, the orders differ and TLC refutes the property.

### ChunkUpload

`DevicesProofs!ChunksStayWhole` proves `Spec => [](TypeOK /\ ChunksAreWhole)`
for all devices and chunks, any number of parts, of artifacts and of faults, and
both values of `MidSync`, from `ChunkUploadAssumption`. The invariant `IInv` is
the conjunction itself; `TypeOK` is needed because a part that is stored must
come from a real encryption, which for a part sent by a device means that
the chunks it is working on are in its cache (`TaskOK`). The heart is the lemma
`StoredWhole`: a part is appended only at the offset that was received and only
from the encryption the chunk was begun with. All steps that change the store,
answered or stray, go through `RelayStep`.

`RecordsAreRestorable` proves `RecordsHaveChunks` for `MidSync = FALSE`. The
invariant `UploadInv` accounts for each chunk of an artifact whose record is not
sent yet, at each stage of its device's sync (`Accounted`): it is to be asked for,
to be put, being put, or complete at the relay, by whichever device's encryption;
when the sync reaches its push, all are complete. What is complete stays so
(`CompleteStays`), since a part is refused then. An artifact attached while a sync
waits would be unaccounted for, and with `MidSync = TRUE` TLC refutes the property.

### DeveloperRuntime

`DevicesProofs!PassphraseIsNeverLost` proves `PassphraseOutlivesVault` for
any number of commands. It is not inductive by itself: a passphrase is chosen
three writes before the vault is sealed with it, and a reset removes the file
after the vault. `SealInv` adds that the file holds what the command is about to
seal with (`PassphraseIsKept`), and that no vault is left when the state is cleared
(`ClearsAfterVault`). Steps that write neither go through one lemma (`QuietStep`);
an interruption or reboot is such a step. `ResetLeavesNothing` adds which steps
only a reset takes (`StepsOfReset`).

`ReportsAreTrue` proves `CommandsTellTheTruth`, with a `docker stop` that may fail unnoticed
at any stop and reset. `StateInv` says which command takes which step, what of the vault
is written at each step of a setup (`VaultWritten`), that a process is
the one the pid file names over its running database, or was told to end, or its
pid was lost in a crash (`PidOK`), and of the database (`DatabaseOK`) that it is the
present vault's or one that was not stopped, that whoever spawns a process has found no
other on the port, and that once a stop has passed it only what was not stopped runs.
`ReportsInv` adds what a ready node and a refused setup are. While a command that
starts something is under way nobody is told to end, so that what listens goes on
listening until the command reports (`ReadyStays`): one command runs at a time, and a
reboot ends it. The database of an earlier vault makes a setup fail before it
spawns anything, which is why only `verify` can take it for its own.

### Gateway

`NodeProofs!NothingLeavesUnallowed` proves `DisclosureIsAllowed` for any
providers and any number of questions. The invariant `GatewayInv` says that every
cloud provider of every chain under way is allowed, by the policy in force, what
the classifier found in its question and evidence (nothing can be proved of what it was not
given: `NothingConfidentialLeaves` is refuted); `ChainsAreEligible` shows it of what `planRoute` returns,
fallbacks included, and a change of policy keeps it because no question survives
the restart of the process. `LedgerIsTrue` proves `LedgerMatchesReceipts` from
it, by the one place where receipts and ledger are written (`CompleteLedger`). Both
rest on `GatewayAssumption` (finitely many providers, the local ones without cost).

`AccountIsKept` proves `SpendingIsAccounted`: the month's spending exceeds the budget
by no more than what the questions that planned at the same time may spend, one of
them excepted. It takes finitely many callers besides. The property is not inductive:
a question plans against what is spent then, and is charged at its COMMIT, after
others have been. `BudgetInv` adds that one of the open questions still `Fits`:
charge it, and all the others their most, and the ceiling holds. The question that
planned last is such a one, since it counted everything charged until then; when it
commits, what it was charged has been counted, and any other fits in the place it
leaves (`OthersGrow`, `OthersAreMore`). That a receipt adds its amount to the sum of the
ledger is a fact about a recursive function which takes the elements in some order:
`DataLemmas!SumIsUnique`, two such sums of the same set agree, is proved by taking a
smallest set on which they differ.

### Identity

`NodeProofs!SignInsStaySound` proves `SignInsAreSound` for any people and any
number of requests served at once. The invariant `SignInv` says what a request has
found out so far about the person behind it (`RequestOK`), and that no two
transactions hold one challenge or insert one subject (`Exclusive`): this is what
the row lock of `consumeChallenge` and the unique key of `principals` give, and
why a challenge that pays is still unpaid at COMMIT. Steps that write nothing the
invariant looks at go through `OneRequest`, commits through `CommitRequests`.

### DeviceEnrollment

`DevicesProofs!EnrollmentStaysSound` proves `EnrollmentIsSound` for any number of
joining roots and of commands at once. Its parts are about the registry that is
written, but a command writes the registry it read earlier: `EnrollmentInv` says the
same of the copy in every command's memory (`CommandOK`). What makes a stale copy
harmless is that the relay takes no revocation back and forgets no device
(`Onwards`), so that what a copy said of the relay stays true (`StaysOK`), and that
a copy is at one epoch throughout, whichever that is (`EnrolledOK`, `RevocationOK`).

### Corpus

For any people, objects, coordinates and overlapping classifications, filings and
removals, each statement by statement, from `CorpusAssumption`
(a corpus has a name). `KnowledgeProofs!PersonKeepsLastWord` proves `PersonHasLastWord`.
The invariant `CorpusInv` says what a classification has written and not committed:
rows whose place it holds, none of a person's and none over one (`WrittenOK`), which
stays true because who files or removes by hand waits for that place (`HoldsOK`); and
that a suppression at a place it is about to write, or has written, came while it ran
(`RemovalsOK`), the exception the property makes. Of a filing by hand `EditOK` says the
same: the suppression it deleted is still committed until it commits, and one that it did
not delete came while it ran. `LiftsApart` is the row lock of the suppression: two
filings do not delete the same one, so neither finds at COMMIT that it is gone. A removal
needs nothing of this kind, since it holds the row from the SELECT on. That an upsert takes over no row
of a person is the lemma `UpsertedRows`. `ViewsStaySealed` proves `ViewsKeepTheSeal`
of every state: each view asks `Open` of every row it counts or lists, and the
objects of rows exist (`IsRows`).

### Capture

`KnowledgeProofs!WholeOrNotAtAll` proves `CapturesAreWhole` for any clients and any
number of requests, failing wherever they may. A request writes rows of five tables at
COMMIT, and what makes them agree is what it knew when it read. `CaptureInv` has a
part on the rows (`RowsAgree`, `HistoryAgrees`, `IndexAgrees`: one row of an object
and one of a job under a number, versions without gaps, each text under some model) and
one on the requests: `WorkOK` says of each kind of request, at each of its steps, what
it will write, and `Apart` that two of them share no number, no locked row and no
embedding. An edit writes the version after the one it read because it holds the row
from then on. An embedding is not written twice because of the unique key, where the
second request waits and fails. A capture that fails has nothing left to do or to
write but its job, which is what the savepoint gives. Objects without a job and
contents of no bytes are among what a request may make (`Payloads`), so a ready job
promises an object, and an artifact only where there were bytes.

### Answers, WorkspaceGraph

`KnowledgeProofs!FactsStayShared` proves `FactsAreShared` for any askers, texts and
packages. That a fact has one row is the work of the unique index: `OneRowEach` says
it of the rows and of what the open questions have inserted, against the rows and
against each other. That an answer is contested exactly when two of its paragraphs
contradict each other needs an account of the whole question: for each phase, what it
has still to do (`ToDo`), which claims it must have linked to their paragraphs by the end
of it (`Due`) and which conflicts it must have found (`Sought`). `LinksSoFar` and
`SeenSoFar` say that each of these is done or among what is left. A question that
becomes a row elsewhere while it waits fails instead of going on, so the others' commits
leave its account alone (`QuestionStays`), and rows are only ever added (`StoredStays`).
`AnswersStayTyped` proves `AnswersTypeOK` from the same invariant.

`WorkspaceStaysClosed` proves `WorkspaceSeesItsOwn`: every operator of `WorkspaceGraph`,
applied to all that is stored, gives what it gives when nothing has been said outside
the workspace (`SeenAtHome`), and what it gives can be followed to an object at home
(`SeenLeadsHome`), as each link leads to an object that exists (`LinksLeadHome`, from
`AnswersInv`). `HomesAssumption` says that the empty string, by which the queries mean
the entire node, names no workspace.

### SourceSync

All of it is for any files, contents and transactions, any bounds and limits and
any of the modelled callers, user operations and failures, from
`SourceSyncAssumption`. One invariant, `SourceInv`, gives the first six theorems; where a
property holds only for some callers or failures, the theorem says which:

| theorem | property | hypothesis |
|---|---|---|
| `RowsAndLocks` | `TypeOK` | |
| `RevisionsDiffer` | `NoDuplicateRevision` | |
| `CurrentArtifactIsSingle` | `OneCurrentArtifact` | `NoHalfImports`: no batch of the dispatcher, or no failing upload |
| `VersionsAreRecorded` | `HistoryComplete` | `OneVersion`: the worker alone, or the others without it |
| `FreshMeansHealthy` | `HealthIsResolved` | `WorkerAlone` |
| `FailuresAreKept` | `FailureIsDurable` | `FailuresAlone`: the worker alone, and no content that PostgreSQL refuses |
| `PassedChangesAreRead` | `CursorSound` | `NothingPaused`: no user pauses a source or disconnects the account |

The hypotheses are not for the proof's sake: each names what the run of that
property leaves out, and the code breaks the property without it (the table of
refuted properties above, and `source_failed_manual`). `WorkerAlone` and `OneVersion` are
deployments: the repository has both the worker and the API's dispatcher, and does
not say that they exclude each other.

`SourceInv` has to hold of the rows that are committed and of those a transaction
would leave behind, so its parts on rows are predicates of a row, and a lemma
(`OverRows`) lays the ones over the others, as `Commit` does. Its parts:

- `RowsOK`: the kinds of rows, and of each document that what is stored is what was
  registered last, with no content twice in a row (`DocOK`).
- `IsTx` and `LocksOK`: where a transaction is, and that whoever checks a file, from
  `LockWatch` to the end of the check, holds the row of its watch, as it holds every
  row it has written.
- `WritesOK`: what a transaction has written is as good as what is committed.
- `ReadOK`: what a check has found out about the content (`same`) is still so when it
  stores; a transaction that holds a document without its watch, as the delta does
  when it drops a file, does not touch its content. This is why a stale comparison is
  impossible although nothing is compared again after the provider's answer.
- `NotedOK` and `OutcomeOK`: what a check reports, its row says too.
- `Apart`: no two transactions hold one row.

A commit changes what others have read: `ReadOK` survives it since the committer
holds either the watch, which nobody else then has, or leaves the content alone.

`PassedChangesAreRead` has its own invariant, `CursorInv`, on top of this one. It is for both
kinds of feed: of one that begins at "now" the changes which its first token passes
(`skipped`) are excepted, and the invariant says that a delta which asked for the token has
excepted all it is going to pass, whether or not it commits. A row
answers for a change of its file when its watch is not enabled, or it was read later, or
is due, or shows an error (`AnswersFor`). A cursor may pass a change which is answered
for now and whoever commits next (`Answered`): each transaction leaves no row that
would not answer, and reads no content older than the change (`LeavesAnswer`). A delta
that is to move the cursor has, for each change of its page, adopted the file or
dropped it and so answers for it with its own commit, or found nothing to do for it
(`HasRead`, `WillAnswer`). The delta skips a change when neither the file nor the
folder is watched; that nobody has then written the file's row or is checking it is
`FolderFirst`: the folder is watched before any file of it is, and as long, since nobody
pauses it. Whoever watches the file later makes it due. A change that nobody has seen
yet is later than anything read, so it disturbs nothing; most steps of a check change
nothing the invariant looks at (`ChecksOnly`). The hypothesis is needed, and TLC shows in
two ways that the property fails without it. When a file and then its folder are paused
while a delta is under way, that delta enables the file again (`Adopt`) and reads
it, the file changes, and a second delta passes the change, since it finds no enabled
watch; once both commit the cursor is past a change nobody will read. A
disconnection and reconnection between a delta's reading of a page and its adopting
of a file does the same.

### CaptureQueue

`DevicesProofs!CapturesAlwaysArrive` proves `CapturesArrive` for any captures,
any number of operations and requests and any limit, from `CapturesAssumption`.
The invariant `QueueInv` has a half for the node (`NodeOK`: a request that writes
has its text to itself, among the rows and the other requests) and one for the
device (`AloneOK`: as long as no two operations have overlapped, the one under way
has loaded the queue as it is, and what it has neither kept nor still to do is at
the node). They meet in `Delivered`, where the answer to a request allows the
record to go.

### EventStream

`EventStreamProofs!SignalsAlwaysFollow` proves `SignalsFollowTheJournal` for any
number of connections and operations, any events, analyses and filters, from
`StreamAssumption`. The invariant `StreamInv` says of each open transaction what its
locks give it: who has rows has the stream, and they go on from the journal
(`RowsOK`), what it dispatched was dispatched by nobody else (`RanOK`), what it is to
dispatch is published (`TodoOK`), and what a poll has found is everything wanted
between the cursor and its end (`PolledOK`), which stays true while others append,
since their rows come after all rows a cursor can have seen. A step changes its
own transaction only (`OneMoves`); `Commits` shows for COMMIT what becomes of the
tables and of the others (`NewRowsAreAhead`, `OthersCommitted`).

### PostgresRelay

For any devices, records, open transactions and requests, any page size and any
clock, from `RelayAssumption`, `RowsAndNonces` proves `RequestsServeOnce` and
`ImplementsLog` proves `RelayImplementsLog`: the initial state is one of `RelayLog`,
and every step of the transactions is a step of `RelayLog` or changes nothing of
it. The invariant `RelayInv` has four parts beside the types. `RowsOK`: the rows are
numbered from 1 to `next_sequence` without gaps, each record once, and only a
deleted Vault has no active device. `GotOK`: what a device was given are the rows
from 1 on. `NoncesOK`: a request that was carried out has its nonce in the table as
long as its signature is in time, with the limits of both comparisons in the
place where the code has them. `TxnsOK`: what a transaction has read it holds locked
until COMMIT, a number or the active devices, so that no two give out one
sequence number or carry out one request (`Apart`). That a number is the rank of
its row, and so its place in the log, is counting (`CountNumbered`), and uses the
library's facts about cardinalities.

### What is only model-checked

- Liveness (`JournaledIsDelivered`, `ChangeIsImported`, `AttachedIsPushed`): the
  prover has no rules for `ENABLED` and fairness.
- `ShownTextIsCited` of `AnswerText`: what is composed, sanitized and cited from a list
  of paragraphs, all of which are folds over sequences. TLC checks every list up to a
  length and all shapes of one or two lines that differ for the sanitizer.
- `NodeTypeOK`, which has the types of the parts of `MCNode`. Those the other
  invariants need are proved with them (`AnswersStayTyped`).
- The runs that violate a property.

## Not modelled

Of the modelled components: cryptography (a signature or a nonce is taken to do
its job), restoring artifacts, enabling sync and deleting a vault from a device;
a `registerVault` repeated within five minutes after its vault was deleted, and the
keys a device is enrolled again with, in `PostgresRelay`; recovery envelopes in
`DeviceEnrollment`; webhooks, the browse cache, provider-specific ids, routing to
libraries, refresh-token rotation and the text extracted from a file in
`SourceSync`; sizes in bytes in `ChunkUpload`; demo sessions in `Identity`;
pairing, the share inbox and the back-off of retries in `CaptureQueue`;
libraries and provenance in `Capture`, and texts of more than one paragraph (their
fragments share `created_at`, so indexings may take them in different orders and
deadlock, which PostgreSQL ends); hooks, custom corpora and tenants in `Corpus`; scores,
graph expansion and what a model or an extractor makes of a text in `Answers`; the
bindings of `retrieval.ts`, a fold of sets without steps that nothing in the repository
writes to (a denial of an object has effect there; one of a library, a workspace or the node
has none, `retrieval.ts:52`, where `tests/permissions/README.md:4` expects that a denied
principal cannot retrieve);
latencies and token counts in `Gateway`; the validation of envelopes, queries and
replays, acknowledgements, the agents' other signals (`pollAgentSignals`), the scores
of watches, what the impacts of an event are, and the passing of a cooldown's time in
`EventStream`.

Of the others, the propagation of impacts and the embodiments have state or
decisions worth modelling and are in the plan;
compilers, demonstrations, user interfaces and build have none that spans steps.
`PROJECT.json` gives each its reason.

## Plan

1. Theorems about `AnswerText`, with the fold as a recursive function, and the types
   of `MCNode`.
2. `ImpactPropagation` as a function over bounded dependency graphs against a
   reference definition.
3. `pollAgentSignals`, whose cursor is a time, beside `EventStream`'s polls.
4. The permission decisions of `packages/embodiment` and `packages/policy`.
