# MetaReverse backend: TLA+ models and proofs

The MetaReverse backend schedules, reviews and publishes posts to Facebook,
Instagram and Threads pages. This directory holds TLA+ modules of it, TLC
configurations that check them on small instances, and TLAPS proofs of the
properties that matter most, for every value of the constants. Paths below are
relative to `src/`.

## The system

Four services run the code (`RAILWAY.md`): **api** (uvicorn with `main.py`,
which can be replicated and overlaps with its successor during a deployment),
**worker** (Celery, four child processes, queues publish, insights, email and
health), **beat** (RedBeat, exactly one replica) and **redis** (broker, result
backend, OAuth state). Postgres holds everything that lasts; Meta's Graph API,
Clerk, R2 and Resend are outside.

A request handler is `async def` and calls psycopg2 without ever awaiting: one
API process runs one handler at a time, from its first statement to its
response. `get_db` (`app/core/database.py`) commits when the block is left
normally, rolls back on an exception and closes the connection either way. A
Celery task runs in one child process; `publish_post_impl` is one database
transaction from the claim to the outcome, with the call to Meta inside.

| Component | State | Operations | Hard because |
|---|---|---|---|
| Publish task (`app/tasks/publishing.py`) | `posts.status`, `publishing_started_at`, `reclaim_count`, messages of the queue, copies on the platform | claim, load, pick, call Meta, record, retry, acknowledge; the orphan sweep | repeated and redelivered messages, crashes after Meta accepted, rollback of a status just written |
| Posts API (`app/api/posts.py`) | `posts` | create, update, submit, schedule, retry, delete | a row read without a lock and written later |
| Approvals API (`app/api/approvals.py`) | `approvals`, `posts.status` | create_approval | two reviewers at once |
| Posting ID rotation (`services/publishing/rotation.py`) | `posting_ids.last_used_at` | pick_round_robin | read minutes before it is written |
| Uploads (`app/api/uploads.py`) | `post_media`, `organizations.storage_used_bytes` | presign, confirm, delete | a confirmation names any key and size; duplicates checked before they are written |
| Token health (`app/tasks/health.py`, `services/oauth/token_monitor.py`) | `pages.status`, messages of the queue | ping, check_all_tokens, alert | a ping of a minute between read and write; an alert after the commit |
| OAuth (`app/api/oauth.py`) | state tokens in Redis, page tokens, posting IDs | start, callback | GET then DELETE of the state |
| Pages, posting IDs, batches (`app/api/*.py`) | their rows, assignments | create, update, bulk_connect, retire, assign, delete | checks and triggers against concurrent writers |
| Team and invites (`app/api/team.py`) | `invite_links`, `team_members` | create, resend, accept | several pending invites |
| Clerk webhooks (`app/api/webhooks.py`) | `users`, `organizations`, `team_members` | seven event handlers | lost, repeated and reordered deliveries |
| Event bus (`services/sse_bus.py`, `app/api/sse.py`) | per-process queues of 200 | subscribe, publish, unsubscribe | full queues, events of a transaction rolled back |
| Dead letters (`app/api/admin.py`) | `dead_letter` | list, replay | message sent before the row is committed |
| Insights (`app/tasks/insights.py`, `services/insights/*`) | `page_insights`, `revenue_records`, `posting_ids.health_score` | upserts, recompute | repeated tasks, refreshes that cross midnight |
| Permissions, auth, notifications, reports, dashboard, email, schemas, configuration | little or none | guards, reads, rendering | not concurrent |

They interact through Postgres rows and row locks (API handlers, publish task,
token pings), through Celery messages (sweep, replay, beat to workers), and
through Meta's answers. The correctness of each component is, in short: a post
is published once and no sent post is lost; one review decides a round; the
rotation is fair; storage accounting follows the media confirmed and deleted; a
dead token is found out, alerted and healed by an editor alone; a batch with
pages stays; an email has one pending invite and an invite is accepted once;
membership follows Clerk; a stream gets the events of its key in order; figures
are stored under their day.
`PROJECT.json` lists the hazards line by line.

## Modules

| Module | What it models |
|---|---|
| `PostStatus` | the post statuses, the sets of statuses the code guards on, and the transition table of `state_machine.py` |
| `Publishing` | workers, messages, row locks, Meta and the API requests that touch a post on its way out |
| `PostLedger` | abstract: what the pipeline promises for each post, with no workers or messages |
| `PostReview` | the API handlers that change `posts.status`, statement by statement, over several API processes, with the pipeline taken as its ledger |
| `Rotation` | which posting ID the rotation picks while transactions overlap, and the requests that change its candidates |
| `Storage` | media, the bucket and the quota of one organization, statement by statement |
| `StorageLedger` | abstract: what the storage promises in bytes, with no files, rows or requests |
| `Pages` | pages, batches and the OAuth callback, as the API changes them |
| `TokenHealth` | the token sweep, the pings and the alerts of the health workers; extends `Pages` |
| `Permissions` | the permission matrix and the check made with it |
| `Membership` | who belongs to an organization under the Clerk webhooks and the team API; extends `Permissions` |
| `Invites` | invite links, with the row locks of their transactions; extends `Permissions` |
| `EventBus` | the per-process bus and the streams that listen on it |
| `Refresh` | the scheduled refresh of insights and revenue, and its events; extends `EventBus` |
| `Publishing_proofs`, `PostReview_proofs`, `Rotation_proofs`, `Storage_proofs`, `TokenHealth_proofs`, `Membership_proofs`, `Invites_proofs`, `Refresh_proofs` | the proofs |
| `MCPublishing`, `MCPostReview`, `MCRotation`, `MCStorage`, `MCMembership`, `MCEventBus`, `MCRefresh` | definitions the instances need: functions for the constants, symmetry, views, a constraint |

The modules are tied together three ways. `PostReview` takes the publish
pipeline as `PostLedger`, which `Publishing` is proved to implement, so the API
is checked against a pipeline and not against a guess of one. `TokenHealth` and
`Refresh` extend the module of what they act on: a step of one leaves the
variables of the other alone, or is composed with one of its actions (`Emit` is
`Publish` of the bus). `Membership` and `Invites` share the matrix.

### Publishing

`status`, `started` and `reclaims` are the committed columns of a row. What a
worker has written and not committed is implied by its `pc`, and the row lock
it holds meanwhile is `lock`: between `Claim` and the end of the transaction
the committed row does not change, which is why `Claim` leaves `status` alone.
`pc` follows `publish_post_impl`: `claim` (line 98), `load` (105), `pick`
(123), `call` (133), `record` (152 to 208) and `ack` (the return to Celery).
`Commit` is the normal end of `with conn`, `Rollback` its end by an exception.

- `Claim` waits for the lock and looks at the status again, as an UPDATE does
  at READ COMMITTED; `Skip` is the UPDATE that matches no row.
- `MetaAccepts`, `MetaRefuses` and `MetaAcceptsThenFails` are the outcomes of
  the client: the last covers an answer that timed out and a thread comment
  that failed after the post was up (`fb_publisher.py`), which may raise any
  error.
- `RetryTask` is the `raise` of line 208: the `failed_temporary` just written
  is rolled back with the claim, Celery sends the retry and acknowledges.
  `GiveUp` is the same with `max_retries` used up.
- `Abort` is an exception outside `autoretry_for` (a missing media URL, a
  connection error) or a time limit: rolled back and acknowledged. `Crash` is
  the death of the child process: rolled back, and the message returns
  (`acks_late`, `reject_on_worker_lost`).
- `ReclaimOrphans` is the sweep with its off-by-one: the third reclaim sets the
  row to queued and sends nothing.
- `Send` is a message from outside the task: the scheduler that turns due posts
  into messages is not in this repository, and the replay of a dead letter is.
- `RetryPost`, `PatchStatus`, `RetirePostingId` and `ConnectPage` are the API
  requests that touch the rows the task uses.

`recorded`, `orphaned`, `sent`, `requeues`, `dropped` and `faults` are history
variables the properties count with. Which active posting ID is picked is a
free choice here.

### PostReview

One variable per column the handlers use, and for each API process where it
stands (`pc`), its post and the value it has read or will write. Handlers of
one guarded statement are one action (`OneStatement`: the UPDATE, or the 404
that changes nothing). `submit_for_approval` is three: `SubmitRead`,
`SubmitPage`, `SubmitWrite`, none of which locks before the UPDATE;
`SubmitVanished` is the UPDATE that finds its row deleted.
`create_approval` is `ReviewLock` (SELECT ... FOR UPDATE), then
`ReviewConflict` (the 409) or `Review`. `Pipe` is a step of `PostLedger`.
`rounds` counts how often a post became pending_approval, `edits` the PATCHes
and retries by editors. `overlapped` records that a request came while another
process was in a handler: with one process it never becomes true, so a
property guarded by it says what a single process, or several that take turns,
can rely on.

### Rotation

`publish_post_impl` seen from `posting_ids.last_used_at`: a worker's
transaction begins with the claim (`Begin`), which fixes `now()` for all of it;
it loads the active candidates and picks the oldest (`Pick`), and minutes later
writes that old `now()` (`RecordUse`). `last_used_at` can therefore go
backwards, and two workers can pick the same ID. All other outcomes are
`NoUse`, and `Revoked` for the one that retires the ID. `assign_to_page` is a
check and an INSERT (`AssignCheck`, `AssignInsert`), between which a worker may
retire the ID. `passes[x][y]` counts how often y was published instead of x
since x was last published; `overlapped` records that two transactions were
open at once. The assignment has a `last_used_at` of its own that is written
and never read; it is left out. Two transactions never begin at the same
microsecond in the model; equal times would add ties only.

### Storage

Keys of objects (`issued`, `bucket`) and ids of rows (`media`) are apart, as
nothing in the code ties a row to an upload: `confirm_upload` takes the post,
the key, the hash and the size from the body, for a key that was never presigned
or put, for one that is being confirmed by another request, and again after a
deletion. `ConfirmCheck` therefore takes any of them. The handler is three steps
(`ConfirmCheck`, `ConfirmOrder`, `ConfirmWrite`) and so is `delete_media`
(`DeleteRead`, `DeleteObject`, `DeleteRow`), since nothing they read is locked;
the writes of one transaction are one step, as its last one waits for the row of
the organization. `ConfirmPostGone` is the foreign key of a post deleted
meanwhile, `ConfirmCut` and `DeleteCut` a crash or a statement that fails: the
transaction is rolled back, but an object that is gone is gone. `DeletePost`
takes the rows of the post along and touches neither the bucket nor
`storage_used_bytes`, as in the code: `leaked` counts those bytes. A row id
stands for one INSERT and is not used again, so the columns of a deleted row
stay readable to the properties; a confirmation that comes to nothing gives its
id back (`Withdraw`).

The other histories record what the properties have to except, each an event and
not a guess: `credited` (a row of negative size was inserted), `contended` (a
row was deleted that another request was deleting), `beside` (which rows were
inserted while the confirmation of a row was at work), `early` (a row inserted
with no object under its key) and `cut` (a deletion cut off past the bucket).

`StorageLedger` sees two numbers, what is used and what is kept (the media and
`leaked`), and whether requests contended. A confirmation is its `Keep`,
`DeleteRow` its `Remove`, or `RemoveAgain` when another request has deleted the
row since this one read it. Everything else changes neither number.

### Pages and TokenHealth

`batches`, `unassigned` (the batch of that name), `batchOf`, `status`, `active`
and `token` are the rows; `oauth` is what Redis holds of the state tokens. A
page exists from its INSERT on, as nothing deletes one. The token is kept as
what a ping finds in it: none, more or less than seven days from its expiry, or
dead, which is refused by Meta or encrypted with another key. Requests of one
guarded statement are one step. The OAuth callback is four: `CallbackGet` and
`CallbackDelete` (or `CallbackForeign`, another user's state) are two calls to
Redis, `CallbackExchange` the calls to Meta, `CallbackStore` the transaction
that upserts the pages; `CallbackFails` leaves at either of the last two.
`DeleteBatch` states what the trigger and the foreign key decide together.

`Sweep` is `check_all_tokens` for one page. A ping is `PingRead`, then
`PingWrite` (the UPDATE, by id alone and whatever the row has become) or
`PingOutage` (any exception of the client counts as a refused token), then
`Alert` over a second connection or `AlertCut`. `PingFails` is a ping that
raises or runs out of time before its commit: it is rolled back and its message
is acknowledged, as `max_retries` alone retries nothing. If the task was done
again after a crash that followed the first commit, the alert of that commit is
never sent, which `cut` records. `Crash` puts the message back.
`Granted` is how far ahead the `expires_at` of a new token lies: the live
client sets it to now, so its pages are expiring at the first ping, the mock
client two months ahead; the run covers both. `placed`, `exchanges`, `cause`,
`alerted` and `cut` are history.

### Permissions, Membership and Invites

`RolePermissions` is the matrix, `HasPermission` the check. The team API and the
invites make it; the other modules take the requests that pass it.

`Membership` numbers the events of a user in an organization as Clerk sends
them. An event stays in `events` until its answer reaches Clerk (`Answer`), so
it may be delivered late, after a later one, or again. A webhook handler is one
transaction and one action: `OrgCreated`, `Joined` (which moves the user and
inserts the member unless there is one), `JoinedUnknownOrg` (answered ok, and
nothing written), `Left`, `UserDeleted`. `RemoveMember` and `PatchMember` are
the team API, allowed by the roles of an active member in the organization the
user is in today. `late`, `strayed` and `patches` record what the properties
have to except.

`Invites` splits `create_invite` and `resend_invite` into the UPDATE that
invalidates (it waits for rows another transaction holds, and keeps its own
locked) and the INSERT with the commit, and `accept_invite` into its unlocked
SELECT and its UPDATE by id. A link expires without a change of its status.
Accepting admits nobody: membership comes from Clerk.

### EventBus and Refresh

A process has a bus of its own, with queues per key. `Publish` puts an event
into every queue of its key that has room and gives it up for the others,
without waiting. A stream goes through `Subscribe` (in the handler), `Hello`
(its generator is begun), `Check` and `Yield` in turn, and `Close`; `NeverBegun`
is a client that leaves between the first two, whose generator never reaches its
finally. An event is the number it has among those of its source.

`Refresh` counts time in beats of six hours. `Beat` sends a message for each
page that is due, of the revenue once a day; `Take` reads the token and the day,
`Ask` is Meta's answer with the figures of that moment, or of the end of the
day that was asked for, `StoreInsights` and `StoreRevenue` the upsert by page
and day, `Emit` the event, in the worker's process and under the UUID.
`AskNothing` is an answer without figures, which is all the live client returns
today. `Fail` ends a task without a retry and `Crash` returns its message.

### What a definition leaves out

Captions, thread comments and event payloads; failure texts, `failed_category`
and the time columns other than the ones named above, of `publishing_started_at`
only NULL or not; names, colours, intervals and time zones; the profile fields
of users and organizations; `batch_ids` of members and invites; the rows of
other organizations where one is enough.

## Runs

| Run | Instance | Shows |
|---|---|---|
| `publish` | 1 post, 2 workers, 2 messages, 1 retry, 3 reclaims, 2 faults, 1 edit, all error classes but two of the three temporary ones, which the task treats alike; fair workers | the accounting of copies, statuses and messages; what the pipeline commits is legal; it implements `PostLedger`, comes to rest, and settles every post that was sent |
| `review` | 2 API processes, 1 post, PATCH to three statuses, 2 edits, 1 lost copy; fair handlers | one review per round; without overlap a review is final, a submission obeys the gate and no copy is unwanted; every request is answered |
| `rotation` | 2 workers, 2 pages, 2 posting IDs, 1 API process | overtaking in the rotation is bounded however transactions overlap; without overlap the rotation is exact |
| `storage` | 2 API processes, 2 posts, 2 keys, 2 hashes, sizes of 1 and -1, a limit of 1; 2 rows, and a third for the places of the media in a post | the usage is exact but for contended deletions and negative sizes; content and places of the media are distinct but where two confirmations overlapped; a row loses its object for a named reason only; it implements `StorageLedger` |
| `tokens` | 1 page, 1 batch, 1 state token, 2 API processes, 2 workers, 1 message waiting, 1 outage, 2 faults, 1 edit; fair sweep and workers | pages keep their batch, a state token lets one callback through, or one for each process where callbacks overlap, an alarm has a cause and is sent, who makes a page ready and who heals it, a dead token is found out |
| `team` | 1 user, 2 organizations, 2 joinings in each, 1 repeated event, 1 PATCH | membership follows Clerk but for the named exceptions; nobody removed comes back by an event |
| `invites` | 2 API processes, 3 links, 2 emails, requests of an owner and of a publisher, 1 resend of a link no longer pending | one pending link per email; a link is good once, or once for each process where requests overlap |
| `events` | 2 clients of one organization, one organization more, queues of 2, 4 events of each; fair streams | every event is received, waiting or missed for a full queue; the queue of a client that left is released |
| `refresh` | 1 page, 1 client, 2 workers, 2 beats a day, 3 beats, 1 fault | figures lie under their day, and older ones replace newer ones only where two workers were at one refresh |
| `firstwins` | 2 API processes, 1 post | violation, see below |
| `joinlost` | 1 user, 1 organization, fair delivery | violation, see below |
| `eventlost` | 1 client, 1 page, 1 worker, fair beat, worker and stream | violation, see below |

Why the bounds are enough. Two workers or two processes let every pair of
transactions meet, and each race the code has is one of two. Two messages, one
retry and two faults make a redelivered message meet its own retry; a third
reclaim would be the off-by-one of the sweep. Two rows of one key are two
confirmations of it, at once or one after the other's deletion, and what two
deletions of one row need to subtract its size while another is left; sizes of
either sign reach the cut at zero. A row deleted between two others' INSERTs
takes a third, which `Few` of `MCStorage`, a constraint of the run, allows where
all are of one post, one key and size 1, the object was put first and nothing
was cut off or contended for. `Seen` is the view that forgets, of a row that is
gone, all but its key, as nothing looks at it again. A ping that commits and
dies and a second try that raises take one message and two faults, and the sweep
may send another message beside them. Three links are the least for a resend to
leave two pending ones after a create. Two joinings in each of two organizations
let a user move, leave, join again and have any pair of events exchanged. Queues
of two with four events are full at a reader that stops and not at its
neighbour; the code's 200 changes nothing but the number. Two beats to a day and
three beats in all put a task on either side of midnight, which is all
`FiguresStayInOrder` depends on. The rotation has no bound on time: `Ranked` is
the view of a state that keeps the order of the times only, and each step
depends on no more than that order; the W * W of `BoundedOvertaking` for W
workers is reached with two (four passes).

`MaxSends`, `MaxRequeues`, `MaxFaults`, `MaxEdits`, `MaxLost`, `MaxOutages`,
`MaxMessages`, `MaxJoins`, `MaxRepeats`, `MaxPatches`, `MaxRevived`, `MaxOthers`
and `MaxTime` bound counters; `MaxRetries`, `MaxReclaims`, `QueueSize` and
`TicksPerDay` are parameters of the code, smaller in the runs than the 5, 200
and 4 of the code (the 3 of the sweep is 3). What is proved does not depend on
any of these values.

Deadlock is checked in `publish`, `review`, `firstwins`, `rotation`, `storage`,
`tokens` and `invites`. In `team`, `events`, `refresh`, `joinlost` and
`eventlost` the bounds bring the system to an end: Clerk has sent all its
events, the clients have left, the beat has stopped. Symmetry is used where the
properties of the run are safety properties only (`rotation`, `storage`,
`team`).

Each property has a seeded bug it catches: the operators marked "Bug seeded",
defined before the operator they replace (a claim without its lock, a commit of
a status that should be rolled back, a connection never closed, swapped
branches, a sweep that skips the expiring, a message acknowledged too early).

### Disagreements found

- `firstwins`. `create_approval` says "first action wins"
  (`app/api/approvals.py:62`). `FirstActionWins` fails with two API processes:
  `submit_for_approval` (`posts.py` 209-230) updates by id a row it read without
  a lock, and may overwrite a review. `SerialReviewIsFinal` is what is left.
- `joinlost`. The handler of a membership says it creates the team member of a
  user who joins (`app/api/webhooks.py:126`). `JoiningAdmits` fails: when the
  event comes before its organization's, the handler returns, the webhook is
  answered 200 and Clerk does not repeat it.
- `eventlost`. The stream says it carries the events of "publishers, task hooks"
  (`app/api/sse.py:4`). `EventsReachClients` fails: tasks publish on the bus of
  their own process under the UUID of the organization, streams listen on the
  bus of the API process under its Clerk id. Either difference is enough.
- Without a run: `retry_post` and `schedule_post` make two status changes,
  failed_needs_editing to queued and changes_requested to queued, that
  `LEGAL_TRANSITIONS` does not list. No code path consults the table, and no
  interleaving matters to it: the sets `Retryable` and `Schedulable` of
  `PostStatus` are to be read against `LegalTransitions` beside them.
  `PipelineChangesAreLegal` shows that the task keeps to the table.

### Facts worth knowing

They are how the code is, and no document of the repository says otherwise.

- The statuses `publishing` and `failed_temporary` are never committed by the
  task, so nobody but the worker sees them, and the sweep that looks for
  `publishing` never finds a row. A post whose message was given up stays
  `queued` (`dropped` in `NoSilentLoss`). A failing thread comment duplicates or
  blocks a post that is live (`orphaned`).
- The quota is looked at when a URL is handed out and never again. A confirmation
  adds the size its body names, whatever was presigned and whatever the limit:
  the usage may exceed the limit by any amount, and no property bounds it. A
  negative size lowers the usage, and a deletion never takes it below zero again
  (`credited`). A key can be confirmed before its object is there (`early`), or
  for two rows, of which the first to be deleted takes the object of the other.
- Storage that went with a deleted post is never given back to the quota, nor
  its objects removed from the bucket (`leaked`). Two requests that delete one row
  both subtract its size (`contended`), which is the one way the usage gets too
  low (`UsageIsRight`). Confirmations that overlap may give two media one content
  or one place in the order (`MediaDistinct` excepts just the two).
- Two OAuth callbacks that overlap may both pass with one state token, and two
  requests may both accept one link. `StateUsedOnce` and `LinkIsSpent` bound how
  often: once for each API process.
- An outage of Meta marks a good page token_expired, and the sweep never pings it
  again; a reconnect stores a good token and leaves the status. Only an editor
  heals the page (`HealedByEditor`). If the second connection of the ping fails,
  or the ping dies past its commit and then raises when it is done again, nobody
  is alerted (`cut`).
- The live `exchange_code` sets `expires_at` to now, and the live insights return
  nothing: the rows of `page_insights` and `revenue_records` come from the mock
  client only.
- A member who was removed and joins again in Clerk stays removed until an editor
  sets the status (`RemovedStaysRemoved`): that keeps late events from
  readmitting anybody, and keeps out those who were invited back.
- A stream whose client left before its generator was begun leaves its queue on
  the list for the life of the process (the exception in `GoneIsReleased`).

## Fairness

- `Publishing`: weak fairness of each worker. A child that can go on does, as
  every call to Meta has a timeout and Celery replaces a child that dies.
  Editors, faults, sweeps and new messages owe nothing.
- `PostReview`: strong fairness of each handler that has begun. It may have to
  wait for a row lock again and again, and Postgres queues waiters in order.
  Nobody owes a request.
- `TokenHealth`: weak fairness of the sweep (the beat has one replica that is
  restarted) and of each worker; strong fairness of a page's message being
  taken, as the queue is first in, first out and cannot be overtaken for ever.
  OAuth callbacks, editors and outages owe nothing.
- `EventBus`: weak fairness of each stream that can go on, which is the event
  loop. Clients come and go as they like.
- `Refresh` (`eventlost` only): the beat, the workers and the streams. The
  violation is not one of a system that stops.
- `Membership` (`joinlost` only): an event is delivered while there is one, as
  Clerk repeats what is not answered.

## Proofs

The only assumptions are the named ones on the constants of each module
(`PublishingConstants`, `ReviewConstants`, `HealthConstants`, ...): their types,
and that null values are not elements. Two sets are assumed finite, as they are
counted: the workers of `Rotation` (the children of one Celery process) and the
API processes of `Pages` and `Invites` (the replicas of one service). The sizes
of `Storage` may be any integers. Posts, pages, posting IDs, keys, rows, the
processes and the workers of the other modules may be infinitely many, and no
bound has a value.

`Publishing_proofs` proves, for any posts, workers, pages and posting IDs:

1. `TypeCorrect`: `TypeOK`, strengthened with `Locals` (what a worker knows at
   each `pc`).
2. `Invariance`: the inductive invariant `IInv`. Its core is `LockOwner` (a row
   is locked by w exactly while w is inside the transaction for it) and
   `LockedWaits` (a locked post is queued or failed_temporary in the committed
   state); `HeldAccountedFor` and `Quota` add the copies up. The accounting is
   not inductive by itself: without `LockOwner` a second worker could be inside.
3. From it `EveryCopyAccountedFor`, `NoDuplicateWithoutLoss`,
   `PipelineStaysLegal` (the claim starts from a claimable status that nobody
   can change before the outcome, because of the lock), and
   `PipelineImplementsLedger`: every step of the pipeline is a step of
   `PostLedger` or a stutter, under the refinement mapping that counts a copy
   when it is recorded or orphaned. `OneTransactionPerPost` (`SingleFlight`),
   `SweepIsIdle`, `TransientStatusesNeverCommitted` and
   `PublishedStaysPublished` follow too; they are in no run, as the runs check
   what they are part of.
4. `NothingLostSilently`: `NoSilentLoss`, by a case for each way a message can
   leave a worker's hands.

`PostReview_proofs`: `ReviewersTakeTurns`, `CopiesAreWanted`, `ReviewIsFinal`
and `SubmissionsObeyTheGate`. `IInv` is `TypeOK`, `Requests` (a process knows
its post and, in a review, holds its row and the status it read), `Rounds` (a
pending post has one round more than it has approvals) and `Serial`: while no
two requests have overlapped at most one process is in a handler, what it has
read is still so, and the copies are those that were wanted. `OneReviewPerRound`
alone is not inductive, as it does not say the row a reviewer decides on is
still pending.

`Rotation_proofs`: `RotationTypes`, `RotationIsExact` and `OvertakingIsBounded`.
`SerialTurns` is not inductive by itself; the invariant `Serial` adds why it
holds: one transaction at a time, which began after every recorded use
(`BeganLast`), has picked the candidate used longest ago (`PickedOldest`), and a
candidate that was passed over has been used less recently than the one that
passed it (`PassedIsOlder`), so it comes next. `BoundedOvertaking` allows any
overlap, and needs to know how often y can still pass x over. `Budget` counts
it: while y was used later than x nobody picks y, and only the workers that have
picked it already (`Callers`) can record it, once each; a transaction that began
no later than x was last used (`Old`) can set the time of y back, once, and then
all W workers can pick y again. `WithinBudget` says that passes and budget
together stay within W * W: every recorded use pays for the pass it adds, with a
caller or with an old transaction, and a use of x itself starts the count again
with the worker that recorded it idle, so that W - 1 old transactions are left
at most.

`Storage_proofs` proves every property of the run, for confirmations of any
key and size, with posts, keys and rows infinitely many if need be; that the
media are finite is a part of the invariant, `Sized`.

1. The invariant. `Requests` says what a process in a handler knows of its row: a
   row that is being confirmed is in no other hand and not inserted yet. `Checked`
   relates a confirmation at work to the media: a row of the same content, or of
   the place it is about to take, was inserted beside it. `MediaDistinct` is not
   inductive without it. `Explained` says the same of objects: a row whose key has
   no object is in the hands of a deletion or is one of the named exceptions, and
   `RowThere` that a row under deletion is there unless requests contended for it.
   `Signs` keeps the sizes natural while nothing was credited.
2. The sums. `Bytes` is a fold, which is a function chosen for its recursive
   equation. `SumsExist` and `SumsAgree` show that there is one on the subsets
   of a finite set, and that its values are unique; from them what a sum is
   with a row more, a row less, and split in two. The induction is over a set,
   not over a predicate (`SetInduction`), from the library's theorems on
   well-founded orders. `MaxOfNaturals` does the same for the maximum.
3. `StorageTypes`, `MediaAreDistinct` and `MissingObjectsExplained` from the
   invariant.
4. `StorageImplementsLedger`: each statement is a move of the ledger (`Moves`) or
   leaves its numbers alone (`Kept`).
5. `UsageIsCounted` from `Balanced`, which is arithmetic on those moves.

`TokenHealth_proofs`, in two layers. `PagesInv` holds of the API's part and is
kept by the workers: `Holding` and `AloneInCallback` (who holds which state
token), `Unspent` (a token still in Redis let nobody through), `NotThereYet` (a
page before its INSERT has its initial columns). `Room` bounds the race of
callbacks: those that let through and those that still may (`Finders`, the
processes past the GET) are at most as many as there are processes. From it
`NoPageIsOrphaned` and `StateTokensAreSpent`. `HealthInv` adds `Enqueued` (a
message, or a worker's job, is for a page that has a token) and gives
`OperatorsSetUpPages`, `AlarmsHaveCauses`, `ExpiriesAreAlerted` and the action
property `EditorsHealPages`. `Enqueued` is the point of the first: a ping writes
over whatever it finds, and can make a page ready only because the sweep sends
no message for one that nobody has set up.

`Membership_proofs`: `TeamFollows` and `RemovedAreNotReadmitted`. The invariant
orders a member's events: the first is a joining and the second a leaving
(`Numbering`), the number sent says whether Clerk has the user in (`Belonging`),
while none came out of order those after the last taken are under way
(`InFlightInOrder`), and the status is the one the last event gave
(`StatusInOrder`).

`Invites_proofs`: `OnePending` and `LinksAreSpent`. Without overlap one process
at most is in a handler (`OneBusy`), a link about to be accepted is pending
(`AcceptsPending`), and a link about to be inserted has room: the pending links
of its email that are not about to be invalidated are at most the revived
(`RoomForOne`). `Accepts` bounds the race: the acceptances of a link and the
requests that have read it pending (`Readers`) are at most as many as there are
processes.

`Refresh_proofs`: `StreamsMissNothingElse` for the bus alone, from `Streamed`
(what a stream received, what waits and what it missed are together the events
since it subscribed, and waiting ones are later than received ones), and
`StreamsKeepTheirEvents` for the bus with the tasks publishing on it, since
every step of `Refresh` is a step of the bus or leaves it alone.
`FiguresAreInOrder` rests on `Dated` (a worker holds figures of the day it asked
for, and so does every row) and `TakenInTurn` (unless two workers were at one
refresh, the figures a worker will store are no older than those of the row).
`RefreshTypeCorrect` gives the types, which no run checks again.

Left to TLC: liveness (`Drains`, `SentPostSettles`, `RequestsFinish`,
`DeadTokenIsNoticed`, `GoneIsReleased`), which is out of the prover's reach with
ENABLED. Every other property of a run that passes is proved.

## Not modelled

- Reports and dashboard: read-only SQL. Notifications: they are marked read, and
  nothing in the code inserts one. Email: rendering and one HTTP call.
- Authentication, configuration, logging and process start: libraries and wiring
  with no state of the system. Schemas: they decide which inputs reach a handler.
- The health score of a posting ID: an average nothing else reads.
- The rows of `dead_letter` and the guard of `replay`: a replay is one `Send` of
  `Publishing`, whose properties hold for any number of them.
- `user.updated` and `organization.updated`: profile fields.
- Captions and thread comments, the mock client, row level security, seed data
  and the scripts.

## Plan

1. Dead letter replay with `resolved_at`, composed with `Publishing`.
2. The health score as an operator against a reference definition.
3. Abstract specifications of the invites and of the event bus, and proofs that
   `Invites` and `EventBus` implement them.
