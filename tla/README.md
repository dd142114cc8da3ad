# GoMusical in TLA+

GoMusical is a platform for independent musicians: a Go API over PostgreSQL and
Redis, a transcoding worker in the same process, and three small React front
ends. This directory holds TLA+ models of the parts of it in which steps of
several actors meet, what TLC finds about small instances of them, and theorems
about all instances, with proofs checked by TLAPS.

Paths below are relative to `src/backend/internal/` unless they start with
`src/`. The package `storage` that some files import is not in the repository:
what it does is modelled from how it is called, and marked external. There is no
`docs/` directory; the promises the models are held against come from
`src/README.md`, comments, tests and the texts the front ends show.

## 1. The system

One server process: `src/backend/cmd/server/main.go` opens the database,
migrates and seeds it, starts the worker's goroutine and serves HTTP, one
goroutine per request. Nothing in memory is shared between requests but the
bandwidth buckets (under a mutex) and a `sync.Pool`; everything else meets in the
database, in Redis and on the disk. **No handler uses a transaction**: each call to
the database is atomic by itself and anything may run between two of them.
Every call takes the context of the request, so it fails when the client hangs up.

| component | state | operations | meets |
|---|---|---|---|
| checkout and fulfilment (`service/sponsor.go`) | orders, grants, subscriptions, `tracks.sponsor_cents` | CreateTrackSponsor, CreateFanSub, Callback, Fulfill | payment channel; the track row |
| payment channel (`payment/`) | none but its configuration | Charge, VerifyCallback | called by checkout |
| access decisions (`service/access.go`) | reads tracks, subscriptions, grants | Decide, for OpenStream, IssueTicket, CreateComment | what checkout writes |
| streams (`handler/stream.go`, `hmacx/stream.go`) | signed tokens, held by clients | OpenStream, Segment | the track row; the worker's segments |
| tickets and downloads (`handler/download.go`, `download/resume.go`) | ticket rows | IssueTicket, Download, RevokeTicket | limiter; access |
| limiter (`download/limiter.go`) | Redis counters `dl:conc:*`, `dl:day:*`; buckets in memory | Acquire, release, MarkComplete, WaitBytes, WaitUser | downloads |
| upload and content store (`handler/track.go`, `service/upload.go`) | upload rows, temporary files, blobs, tracks | InitUpload, UploadChunk, CompleteUpload | the worker, by jobs |
| worker (`transcode/`) | job rows, the track row, segments on disk | tick, runOne, fail; RetryTranscode | everything that writes the track row |
| sessions (`auth/`, `handler/auth.go`) | session rows, cookies, CSRF tokens | Register, Login, Logout, the middleware | every handler |
| comments (`handler/social.go`) | comment rows | CreateComment, ModComment, LikeComment | access |
| envelopes (`httpx/respond.go`) | a pool of response structs | JSON | every handler |
| start (`main.go`, `db/`, `seed/`) | schema, first rows | Migrate, seed.Run | another server starting |
| front ends | the order in which requests are sent | | the API |

`PROJECT.json` lists them all with their status.

What is hard about it:

* *Read, change, write back.* The track row is written as a whole by checkout,
  OpenStream, PatchTrack and the worker, each from a copy that may be minutes old.
  ModComment does the same with comments.
* *Effects in several calls.* Fulfill marks, grants and counts in three calls,
  CompleteUpload hashes, renames and inserts; each may fail, be cancelled or be cut
  off by a restart, and nothing repairs what is left half done.
* *Check, then act much later.* The daily limit, the ticket row, the subscription,
  the hash of a file: read once, relied on for minutes.
* *Counters outside the process.* The slots of a process that dies stay in Redis.
* *Shared memory.* A bucket's mutex is let go for the sleep, and an envelope goes back to
  its pool before it has been encoded.
* *Two servers at once.* Migrations take a lock with a deadline, the seed takes none.
* *Retries.* Payment callbacks, chunks, completions and transcodings arrive twice,
  at once, and after the answer.

## 2. Modules

| module | what it is | proofs |
|---|---|---|
| `Sponsor` | checkout and fulfilment, call by call | `SponsorProofs` |
| `Fulfilment` | what checkout promises of one order; `Sponsor` implements it | in `SponsorProofs` |
| `Access` | Decide and what is done with its answer | `AccessProofs` |
| `Slots` | the concurrency slots of one listener in Redis | `LimiterProofs` |
| `Semaphore` | what those slots promise; `Slots` implements it and `Tickets` relies on it | in `LimiterProofs`, `TicketsProofs` |
| `Tickets` | what a download costs: ranges, uses, bytes, the daily count | `TicketsProofs` |
| `Buckets` | the bandwidth of downloads: two token buckets and the sleeps at them | `LimiterProofs` |
| `Upload` | chunks, hashing, the content store | `UploadProofs` |
| `Transcode` | the worker, its jobs and the track rows | `TranscodeProofs` |
| `Sessions` | whom a request acts for: session rows, cookie, tokens; ModComment | `SessionsProofs` |
| `Startup` | servers that migrate and seed one database | `ServerProofs` |
| `Responses` | the pooled envelopes of answers | `ServerProofs` |

For each module `M` that TLC runs, `MCM` defines its small instances and
`MCM_*.cfg` chooses them. Definitions marked as faulty variants stand for plausible
slips in the code; they are no part of a specification. Each is put in the place of
the definition before which it stands, to see that a property notices it.

All modules follow one form. A member of `Requests` is one request goroutine with a
program counter (`pc`, `at`, `phase`, or a record `call[e]`) naming the next call to the
database, Redis or the disk; each such call is one action, since that is the grain at which
requests interleave. Local work between two calls belongs to the action of the call
before or after it. An effect that may fail says so with a member of `Faults`.

### Sponsor and Fulfilment

`status`, `row`: the orders table; `issued[o]` counts the grant rows and
subscription upserts an order led to; `credited[t]` is `sponsor_cents` as a bag of
orders, which is what lets a property say *whose* amount is in it; `subs` the
expiry of subscriptions. `InsertOrder` is the start of both checkouts, `Charge` the
provider under each `MOCK_PAY_BEHAVIOR`, `Callback` a callback for an order that
exists, whoever sends it. `MarkOrderPaid` is the UPDATE whose row count elects the
request that settles. `CreateGrant`, `ReadTrack`, `UpdateTrack` and `ComputeExpiry`,
`UpsertSub` are the rest of Fulfill. A member of `Writers` is other code that holds a copy
of a whole track row and writes it back, `sponsor_cents` with it: the worker after minutes
of ffmpeg, PatchTrack, OpenStream (`HoldRow`, `WriteRow`, `DropRow`). `CallFails`,
`Answered` and `Restart` are the
faults: a call that was not applied, one whose answer was lost, a process that stops.
`raced` is a history of the tracks whose row was written while someone else had a copy of
it, `cut` of the orders whose elected request did not come through.
`Fulfilment` knows only the life of an order: absent, pending, settling, then
delivered or stranded. `Stage` maps the rows and the requests to it.

### Access

`track` holds the settings and `duration_ms` of one track, `sub` the ticks each
subscription still runs, `granted` who has a grant. `Begin` is the handler up to
TrackByID, `ActiveSub` and `GrantsFor` the two queries of Decide, the latter with
the decision it takes from all three answers. `OpenStream` writes the row back and
hands a token out, `Segment` serves by it; `CreateGrant`, `UseGrant`, `InsertTicket`
are IssueTicket; `CreateComment` the comment window. Meanwhile `SponsorTrack`,
`Subscribe`, `ReadTrack`/`WriteTrack` (PatchTrack and the worker) and `Tick` change
what is asked. `seen[e]` is a history: what was true at some or at every moment
while `e` was deciding. That is what "was entitled" can mean with three queries.

### Slots and Tickets

`Slots`: `conc` and `ttl` are the Redis key; `Incr`, `Expire`, `Admit`, `Daily`,
`Refuse`, `Release` are Acquire and what it returns, command by command; `Tick`
passes ten minutes and expires the key. `drift` and `lapsed` are histories of what
faults did to the count. `Tickets` takes the slots at their word (at most `MaxConc`
requests hold one, any may be refused: `Acquire`, `GiveUp`). That word is `Semaphore`: a
slot is taken in one step when fewer than `Limit` are, and given back; a restart frees
all. Its `holders` are the requests of `Slots` that have been let in (`LetIn`), and those
of `Tickets` that are past `Acquire` (`Holding`). `Tickets` models the rest of Download: `Begin` reads the row, `CheckDaily` the day's counter, `Serve` moves some
bytes, `AddTicketBytes` accounts from the copy, `MarkComplete` counts the day. What is
accounted is what was written or, when nothing was, the length of the range asked for:
`RangeOk`, `RangeStart`, `RangeEnd` and `BytesOfRange` are `download/serve.go` on the two
numbers of a Range header. `unsized` are the requests that were let in on an exhausted
ticket because TrackByID failed: its error is dropped and the size stays 0, which no byte
count completes (`SizeKnown`). `shared` is a history of the tickets two requests worked on
at the same time.

### Buckets

`tokens`, `last`, `rate` are the buckets, one per listener and one for all; `phase`, `at`,
`need`, `wake` are where each download is in the waits that follow a chunk. `Write` passes
a chunk on (it goes out first and is waited for afterwards), `Arrive` is WaitUser and then
WaitBytes up to the sleep, `Wake` the second half, which takes what is there by then;
`Millisecond` lets one pass. `start`, `total` and `raced` are histories: when a download
began, what a bucket has let through, and whether anyone drew on it while another slept.

### Upload

`tmp` and `blob` map names to files, `disk` files to what they hold at the place of
each chunk: the piece that belongs there, other bytes, or a hole. Names and files are
kept apart because a handler keeps its file open across a rename. `OpenChunk`,
`CopyPart`, `CopyRest`, `Overrun`, `HangUp` are UploadChunk and its body arriving;
`CompleteUpload`, `HashPiece`, `Rename`, `UpsertBlob`, `CreateTrack` are
CompleteUpload, the hash piece by piece. The rename may be refused although the file is
there; `WriteFile` is what the handler then falls back to, in the external package, and it
may fail, too, or copy a part only. Nobody looks at either error, and the rows are written
all the same. `mixed` is the requests in whose chunk other bytes came between. Two
histories: `raced`, the stored files that are not what was hashed, since they were changed
or exchanged meanwhile or are copies cut short; `lost`, the contents whose move and copy
both failed, so that there is no file.

### Transcode

`row[t]` has the two columns of the transcoding, `job` the job rows, `encoded` the
directories with all their segments. `Tick`, `Take`, `TrackByID`, `CacheHit`,
`CacheMiss`, `Probe`, `Overwrite`, `Encode`, `Peaks`, `WriteTrack`, `CloseJob` and `FailJob`,
`Reread`, `FailTrack` follow runOne and fail, where the worker's memory (`todo`,
`tries`, `copy`) ages. ffmpeg writes over the segments that are there: from `Overwrite` to
`Encode` the directory is not whole, and it stays so when ffmpeg fails (`EngineFails`) or is
killed (`Restart`). `CreateTrack`, `Enqueue`, `RetryTranscode`, `ReadTrack`,
`WriteBack` are the handlers around the worker, and `Edited` bounds the tracks whose rows they
write back. `unwritten` (an UpdateJob failed) and `cut` (jobs that ran when the process
stopped) are histories. `behind` is a history: the pending tracks for
which a write was lost (the worker's, that of their job, or one an older copy was written
over); `TracksFollowJobs` says that no other track of an ended job is pending, and none
without a job.

### Sessions

`owner`, `left` are the session rows (whose, and how long they still live), `jar` the
cookie of one browser, `tab` what each of its tabs shows and which session its CSRF token
is of. `Send`, `Receive`, `Lost`, `Reload` are `api.ts` and `App.tsx`: the cookie goes with
a request when it is sent and changes when an answer arrives, in whichever order those do.
`Middleware` is the whole chain in front of a handler (lookup, `CSRF`, `RequireAuth`,
`RequireRole`) and `Routed` the handler it reaches; `Issue` and `Revoke` are the session
calls of Register, Login and Logout. `ReadComment`, `UpdateCommentMod` are ModComment, the
request that acts. `call[e].shown` and `began` are histories: whom the tab showed, and
whether the session lived, when `e` was sent; `blind` says that the lookup failed although
the session was alive; `last` and `overlapped` say what moderators asked for.

### Startup

A server is what one process does: `Lock`, `Apply`, `FailMigration`, `Unlock` are
Migrate, with `Deadline` for its 30 seconds and `Reap` for the pool that closes the
connection a lock was left on. `Lookup` to `CreateComment` are seed.Run call by call: the
accounts, the album, the file that ffmpeg writes under one fixed name, its hash, the
rename, the rows. Rows and files are known by the start that made them, so that it can be
said whose row refers to whose. `Stop` stops a server anywhere. The rename may be refused
with the file there; its error is dropped and the track's row is written all the same.
Histories: `faulted` (a call failed, or a server stopped during a seed), `overlapped` (two
seeds ran at once), `misfiled` (the last rename was refused and the store has no such file).

### Responses

JSON word by word: `Get` an envelope, `Fill` it, `Put` it back, `Encode` it, in that order,
as the code does. Since the words are loaded and stored without synchronisation, each is a
step of its own, in any order; whose answer a word belongs to is all that is kept of it.
`later` is a history of the answers that began while one was being encoded.

## 3. Runs

`pass` runs find no error; a `violation` run has one property, a promise quoted from
the repository, that the code does not keep.

| run | instance | states | shows |
|---|---|---|---|
| `sponsor_safety` | 2 orders, 3 requests, 1 other writer of the row, 3 days, all faults, four payment behaviours | 717,562 | delivery at most once, only when paid; totals never overstated, and complete but for orders cut off and rows raced; subscriptions paid for; refinement of `Fulfilment` |
| `sponsor_serial` | 2 orders, 1 request, no fault, FairSpec | 14,570 | without faults every paid order settles |
| `sponsor_stranded` | 1 order, a failing call | violation | a paid order may stay undelivered for good |
| `access_safety` | 2 requests, a fan, the artist, a visitor, failing queries | 2,496,632 | who is served was entitled, who was entitled all along is served, nothing is heard late |
| `slots_safety` | 2 requests, 1 slot, all faults | 19,080 | the limit, the exactness of the count, every request ends |
| `tickets_safety` | 1 ticket, 3 requests, 2 slots, all faults | 645,838 | uses stand for bytes, one charge per ticket, the daily overrun is bounded and paid for, an exhausted ticket costs and counts nothing more |
| `buckets_safety` | 2 downloads of one listener, chunks of 1 and 2, three settings of the rates, FairBuckets | 693,080 | the rate of one download and of all, nobody sleeps for others, every chunk passes |
| `transcode_safety` | 2 tracks of one content, 2 jobs, 1 API request (on the first track's row), all faults, FairSpec | 1,121,249 | ready means playable, unless a retry writes over the segments; jobs come to an end and stay there; tracks get their jobs and hear of their end |
| `upload_safety` | 2 uploads of one song of 2 chunks, 2 requests, all faults | 1,345,770 | what is stored has its hash, but for refused moves and races; retries lose nothing; uploads never meet |
| `sessions_safety` | 2 creators, 2 sessions, 2 tabs, 2 requests, all faults | 2,947,889 | no request acts in a name its tab did not show or for a session that was over; moderations stand unless they overlapped |
| `startup_safety` | 2 servers, 2 starts, all faults, FairSpec | 355,687 | one migration at a time; one seed, whole unless it failed, pointing to a whole file unless the store refused it; every start ends |
| `responses_safety` | 3 requests, 3 envelopes | 220,219 | a client receives his own answer or one that overlapped it |

### The bounds, and why they are enough

* *Requests.* Two requests suffice for a race on a row and three for one that
  settles while two others read: `Sponsor` and `Tickets` have three. Elsewhere the
  properties relate one request to what the others did to the rows, which one other
  request and the free environment actions (SponsorTrack, Subscribe, RetryTranscode,
  Close, NewDay) already do in every order; two keep the runs within minutes.
* *Orders, tickets, tracks, uploads.* Two of whatever can be confused (orders of
  both kinds, tracks of one content, uploads of one content, which meet in the store); one
  ticket, since tickets only meet in the daily counter. A second content would make the
  uploads 4.5 million states and meets the first in nothing. The theorems are about any number.
  One writer of a row beside three requests is enough to be overtaken, and to overtake.
* *Amounts.* 0, 1 and 3 with a price of 2: the default, a refused one, a generous one.
* *Sizes.* A file of 20 units, where 19 is 95%: transfers of 9, 10 and 21 miss the mark by
  one in two, meet it in two, or pass it in one; a transfer of nothing counts the range,
  with headers that are absent, `0-9`, `11-`, `-9`, `10-40` (past the end) and `20-30`
  (refused). Chunks of one and two units against buckets of one, of two and of none, so
  that a chunk may be more than its bucket ever holds. Songs of 6 MiB: two chunks with a
  short tail, and one place behind the end for a body too long. 20 000 ms with previews of 15 000
  and 30 000 ms, inside the track and past its end, segments of 6000 ms.
* *Time.* `MaxDay`, `KeyTTL`, `SubTerm`, `StreamTTL` and `RequestTime` are one to three
  ticks, the `TTL` of a session is one: long enough for a term to end before, within and after whatever it overlaps.
* *Counters.* `Cap`, `MaxBytes`, `MaxJobs`, `MaxAttempts`, `MaxSent`, `MaxNow`, `MaxStarts` bound what grows
  without limit; each is a guard of the action that would exceed it. `Edited`: the stale
  copies of API requests are of the first of the two tracks, which come in the order of
  their numbers; the worker's cache looks from either one at the other.
* *Sessions.* Two tabs and two logins suffice for one tab that still shows what the other has
  replaced; a second request is what overtakes. One column of the comment that a body names
  or leaves alone: the three columns are treated alike and only met by their own values.
* *Servers, envelopes.* Two starts are two servers at once or one that is started again.
  Three answers are one that is over, one being encoded and one that begins; three
  envelopes are as many as can be in use.
* *Symmetry* is used for requests, orders, files, uploads, tickets, envelopes, tabs and sessions, which no
  definition tells apart, and never in a run with a liveness property.

### Fairness

`Sponsor!FairSpec`: weak fairness on the steps of each request, since a goroutine that
can run does run and a database call returns or fails. `Slots!FairSpec`: the same, and
strong fairness on `Tick`, as time passes although commands keep standing between INCR
and EXPIRE. `Transcode!FairSpec`: weak fairness on the worker's goroutine; ffmpeg ends.
`Buckets!FairBuckets`: time passes, and a download that can take the mutex or whose sleep is
over goes on. `Startup!FairSpec`: the calls of a server return and its 30 seconds pass; no
pool has to give up a connection, so a start that waits for a lock left behind ends by its
own deadline.
No client is ever made to come back and no fault is made to happen or not to happen.

### What the violation says

*Stranded orders* (`service/sponsor.go:113`). `src/README.md:15` says that paying
unlocks. MarkOrderPaid commits first; if CreateGrant then fails, or the listener
closes the page, no retry delivers, since each finds the order paid.
`ImplementsPromise` shows that this is the *only* way it goes wrong.

Met while modelling; each is either excepted in a property, which then says that it is the
only exception, or follows from the guards:

* The total of a track loses amounts to anyone who writes the row back from a copy that was
  overtaken: another fulfilment (`service/sponsor.go:130`), the worker
  (`transcode/worker.go:151`), PatchTrack (`handler/track.go:123`) and OpenStream
  (`handler/stream.go:30`). `SettledUnlessCutOrRaced` excepts the rows that raced.
* Download drops the error of TrackByID when the uses of a ticket are up
  (`handler/download.go:53-63`): the size stays 0, with which no ticket is finished, and an
  exhausted one is let in again. `ExhaustedIsFinal` excepts exactly these requests, and says
  that they are never charged.
* RetryTranscode, which the API offers for a track that is ready as well, lets ffmpeg write over
  the segments where they are (`transcode/ffmpeg.go:64-78`): a run that fails or is killed
  leaves a part of them under rows that say ready, of other tracks too. `ReadyPlayable`
  excepts the directories of retried tracks, and job rows that an UpdateJob failed to write.
* CompleteUpload drops the errors of MkdirAll and WriteFile and takes any error of Rename as a
  reason to copy (`handler/track.go:320-327`), the seed those of MkdirAll and Rename
  (`seed/seed.go:57-58`): each writes its rows without the file, or with a part of it.
  `StoredIsDeclared` excepts the `lost` and the copies cut short, `SeedHonest` the `misfiled`.
* CompleteUpload hashes one file and renames another (`handler/track.go:308-321`): a
  completion that is repeated, and a chunk sent again between the first rename and the
  second, put a nearly empty file in the place of the stored one. `StoredIsDeclared` excepts
  the files that raced; without the exception TLC finds this with an honest client.
* The lookup of a session that fails makes the request anonymous, and anonymous requests need
  no token (`auth/rbac.go:21-24`, `68-71`): a logout then deletes whatever row the cookie
  names. `LogoutEndsOwn` excepts exactly this. Logout drops the error of Revoke and clears the
  cookie (`handler/auth.go:86`): the row lives on until it expires.
* The answer to a logout clears the cookie even if another tab has logged in since.
* A page whose `/auth/me` failed has no token but sends the cookie: it cannot log in, each
  attempt is refused by CSRF, until it is loaded again.
* Two moderations of a comment that overlap undo one another (`handler/social.go:92-101`), also
  one that hid it, in fields the later one did not name: `ModerationsStand` excepts them.
* A ticket that was completed once is fetched again without a use being counted
  (`handler/download.go:121`: `already` stays true), as often as its owner likes, although
  the front end shows "最多 {maxUses} 次" (`src/frontend-user/src/App.tsx:189`).
* When 95% of a file are no byte, nobody is ever charged for it. A transfer that wrote
  nothing is accounted with the length of the range it asked for.
* Each refused retry renews the 30 minutes of the counter it is refused by
  (`download/limiter.go:58`): after a restart during downloads a client that follows
  `Retry-After: 3` (`handler/download.go:75`) keeps the leaked count alive.
* A job that runs when the process stops stays `running`, which is in no list
  (`repo/repos.go:525`), and the studio offers the retry for failed jobs only
  (`src/frontend-creator/src/CreatorHome.tsx:98`). `RunningIsRun` says that nothing else
  is left behind.
* A track stays `pending` for good when its job could not be queued (`handler/track.go:349`
  drops the error), when the worker's write of the row failed, or when PatchTrack or Fulfill
  write back a copy from before it. `TracksFollowJobs` excepts these, and a restart before
  the job is queued, and nothing else.
* Downloads that sleep at one bucket at the same time are let through together, with the
  same tokens: each keeps the rate (`RateHolds`), all of them need not (`SharedRateHolds`
  excepts them). With `GLOBAL_DOWNLOAD_BPS=0` WaitBytes divides by zero
  (`download/limiter.go:99`) and the sleep comes out negative: the rate is off.
* The seed is skipped as soon as its first account exists: one that was cut off half way is
  never resumed. Two that race write, hash and rename one file, `tmp/seed36.wav`
  (`SeedHonest` and `SeedWhole` except them). The migration lock stays with the pool when
  the deadline cuts off the unlock (`db/migrate.go:28`).
* An envelope is put back before it is encoded (`httpx/respond.go:30`): a client may get
  the answer, or words of the answer, to a request that began meanwhile, of any user.
  `OwnOrOverlapping` says that he gets no other.

Also: two halves of a
file fetched at once never count as a completion (each sees too few bytes in its copy;
`ChargedOnce` excepts shared tickets for that reason); a key that lapses between INCR and
EXPIRE lets more than `MaxConc` through (`LimitedUnlessLapsed` excepts it); Decide ignores
`paid_download` for a holder of a grant, which `PermissionMatrix` would not
(`DecideFollowsMatrix` is about the other tracks); OpenStream's write-back undoes a
PatchTrack that came in between; a fan who opens a stream before the track is transcoded gets
a window that ends at 0 (`service/access.go:51`); a second completion of an upload may hand the
store a file that is gone.

## 4. Theorems

For every value of the constants that satisfies the module's ASSUME, over any number of
requests and rows, and every combination of faults:

| module | theorems |
|---|---|
| `SponsorProofs` | `Invariance`, `TypeCorrect`, `AtMostOneGrant`, `NothingBeforePayment`, `TotalsNeverOverstated`, `SubscriptionsArePaidFor`, `AmountsAreKept`, `Refinement` |
| `AccessProofs` | `Invariance`, `TypeCorrect`, `TicketsAreDue`, `EntitledAreServed`, `NothingHeardLate`, `MatrixAgrees`, `SegmentsInWindow`, `AllSegmentsAllowed` |
| `LimiterProofs`, of `Slots` | `Invariance`, `LimitUnlessLapsed`, `CountsAreGivenBack`, `LimitHolds`, `SlotsAreASemaphore` |
| `LimiterProofs`, of `Buckets` | `BucketsInvariance`, `BucketsTypeCorrect`, `EachWithinRate`, `TogetherWithinRate`, `SleepsForItself` |
| `TicketsProofs` | `Invariance`, `TypeCorrect`, `RangeIsExact`, `UsesAreDownloads`, `ChargedOnceOnly`, `DailyIsPaidFor`, `DailyOverrunBounded`, `ExhaustionIsFinal`, `SlotsAreASemaphore` |
| `TranscodeProofs` | `Invariance`, `TypeCorrect`, `ReadyIsPlayable`, `NoJobForgotten`, `TracksAreTold`, `FinishedIsFinal`, `WorkerComesToRest` |
| `UploadProofs` | `Invariance`, `TypeCorrect`, `StoreIsHonest`, `UploadsAreApart`, `ProgressIsKept`, `ChunksCoverTheFile`, `AtMostHundredChunks` |
| `SessionsProofs` | `Invariance`, `TypeCorrect`, `NamesAreShown`, `LogoutsAreOwn`, `SessionsEnd`, `FieldsStand` |
| `ServerProofs`, of `Startup` | `Invariance`, `TypeCorrect`, `MigrationsAreSerial`, `SeedIsWhole`, `SeedIsHonest` |
| `ServerProofs`, of `Responses` | `AnswersInvariance`, `AnswersAreOwn` |

Each `Inv` is inductive and implies the type invariant `TypeOK`, its first conjunct, and the
safety properties, which the safety run of its module checks one by one. `LimiterProofs`
and `ServerProofs` are about two modules each and extend both, which is why `Buckets` and
`Responses` put their own names in front of Init, Next and Spec. Each proof has one step per
action, and the last one is temporal.

* *Sponsor.* `Election`: at most one request per order is past MarkOrderPaid, and where it
  stands says what has been issued. Without that, "at most once" is not inductive: two
  requests at CreateGrant would issue twice. `Ledger` says the same of the copies of
  `sponsor_cents`: neither a row nor a copy holds an amount its request has yet to add.
  `Refinement` maps each action to a step of the order's life or to a stutter; Restart
  strands the set of all orders that were being settled, in one step. `AmountsAreKept` needs
  `Copies`: until a row is raced, every copy of it is what the table holds, so writing it back
  takes nothing away. It is about any number of requests and writers and every fault.
* *Access.* `SeenNow`: whatever is true of a request that is deciding is in its history.
  `FanSeen` is the point of the order of queries: who was entitled all along and is no fan
  when the subscription is read has a grant by then, and grants are not taken away, so the
  query for them finds it. `Dying`: a request's age and what is left of its token never
  sum to more than the two limits.
* *Slots.* `Ranks`: at most MaxConc counted requests hold a number within the limit, since
  INCR hands out numbers above the count of those in flight (`NeverShort`). `LimitHolds`
  adds `KeyLasts`: if EXPIRE follows INCR in time, a ten minute request cannot outlive a
  thirty minute key, so nothing lapses and the limit is unconditional. Then each command is
  a step of `Semaphore` or a stutter (`SlotsAreASemaphore`): who is let in has a number
  within the limit and so has everybody who was let in before, and `Ranks` says that there
  are at most MaxConc of those. The theorem of the same name about `Tickets` is the other
  half: its requests take and give back slots in no other way.
* *Tickets.* `CopiesLag`: a copy is never ahead of its row, so a completion decided from a
  copy is one of the row. `CopiesStand`: as long as a ticket is not shared the copy *is* the
  row, which gives `ChargedOnce`. `InFlight` bounds the day by the slots. `DailyIsPaidFor`
  counts the uses as a set of pairs, which each completion adds one pair to; the request
  that has yet to count its own is on the other side. `ExhaustionIsFinal`: who is let in
  without the size of the file read a ticket that was finished (`UnsizedIsDone`), and a
  copy that is finished completes nothing. `RangeIsExact` needs no state: a
  header is accepted exactly when it asks for a byte of the file, and its range is then
  exactly those bytes.
* *Buckets.* `Balance`: what the rate has brought a bucket so far and it no longer holds.
  Time, a refill and a chunk taken only raise it, and a chunk that finds its tokens there
  raises it by its own size. `Paid` says that no download is ahead of it, `PaidTogether` that
  all of them together are not unless they raced. A sleeper takes what may no longer be
  there: `SleptFor` and `SleptTogether` say that by his wake-up the rate has brought enough
  for what he and the others got before, which is all that is left to him after a race.
* *Transcode.* `ShownByOver`: segments that a row or a copy of one names were left by a job
  that is over (`Over`) and that no list brings back, so only another job for the same track
  can write over them, and that is a retry. `CopiesPlayable`: each copy that may yet be
  written back is as sound as a row, and by the time the job is closed its track says so or was `behind`. A lemma (`WriteNoted`)
  carries the writes: whoever writes a row leaves no track pending that is not `behind`.
  `Queued`: a track without a job is `Untouched`, pending in its row and in each copy of it.
  `WorkerComesToRest` is the half of `JobsSettle` that is no liveness: what the worker counts
  is what the job's row says (`Counted`), so each of its steps uses up one of the `RunsLeft`
  or lowers `StepsLeft`, and no other step gives a run back. That these steps are taken is
  left to fairness and to TLC. `WorkerGetsOn` is in no run; `transcode_safety` has the
  liveness it is a part of.
* *Upload.* `Owned`: an open file is of one upload, whatever names it has. `Hashed`: what a
  completion has read is still there, unless the file raced. `Rename` then needs only that
  the file it renames is the one it read, which is the other way to race. `Backed`: no row
  is written before the file has been moved, or lost (`Moved`), and a file that was
  stored is exchanged but never taken away.
* *Startup.* A seed runs under no lock. `Named`: every start has rows and, until ffmpeg
  runs, a file of its own, and `OneSeed` needs no more than that the e-mail of the creator is
  unique. `Alone` says that the seeds that run are one unless two met; `Found` what that
  one finds at each of its calls, since it stored it, and so what is there when it ends
  (`Undisturbed`). `Accounts` holds although seeds meet: who stored the creator, or met the
  seed that did, goes on to the other two. `Filed` follows the file: written before it is hashed, whole
  when ffmpeg ends, hashed as such, under the name of its hash after the rename unless that
  was refused and nothing has the name (`misfiled`), and `Written` says that
  ffmpeg never again opens what is in the store. A lemma (`StepKinds`) sorts the steps: a
  seed begins, goes on, or is left alone, or ends with its server, which is a fault.
* *Responses.* `Filled`: who fills an envelope has it to himself among those who fill one,
  and to each who still encodes it he is a later one. Hence `Encoded`: each word it
  has yet to load is the request's own or of one that began since, and so is each it has
  loaded.
* *Sessions.* `Unheard`: a session is known to nobody before its login is answered, which is
  why a token in a tab (`InStep`) or in a request (`Fits`) that equals the cookie is of the
  user the tab shows. `CopyStands` says of a copy of the comment what `ModerationsStand` says
  of the row. Two lemmas carry most steps: one request changes and learns no new session
  (`OneRequestEnds`), or sessions only die (`SessionsDie`).

Assumed, beside the ASSUMEs of the modules: nothing. In particular a finite number of
requests is assumed only where they are counted (`Slots`, `Tickets`). Two theorems state
an assumption of their own, `LimitHolds` and the `SlotsAreASemaphore` of `Slots`: without
`"gap"`, an EXPIRE that fails or comes late.

Only model-checked: the liveness properties (`PaidOrdersSettle`, `EveryRequestEnds`,
`JobsSettle`, `ChunksPass`, `StartsEnd`), which need fairness and ENABLED, beyond this
prover; and the violation. Every other property of a run is a theorem.

## 5. Not modelled, and why

* HMAC, base64, password hashes, JSON, ffmpeg, `http.ServeContent`: taken at their word. A
  ticket is its nonce, a content its hash, a file the pieces in it, a transfer its bytes.
* Routing, request ids, logging, recovery from panics, field checks and the reading of the
  configuration: without state. What the checks let through is in the guards.
* A clock that goes back, and Redis at the start (it is connected lazily).
* Text, titles, covers, albums, statistics, audit entries: no decision reads them.
* Reserved code that no handler calls: `MemoryGate`, `Revoker`, `EnsurePaid`, `RevokeKind`,
  the master playlist, `MissingChunks`, `AssertHash`. `PermissionMatrix`, `InWindow` and
  `ExpectedSegments`, also unused, are compared with what is used.
* What a listener hears while ffmpeg writes over the segments of a track that is retried:
  `encoded` says of a directory only whether the last run left all of it.

## 6. Plan

Done: the core (`Sponsor`, `Slots`, `Tickets`, `Access`, `Transcode`, `Upload`, `Sessions`)
and what it calls or runs in (`Buckets`, `Startup`, `Responses`), each with the theorems of
its safety properties, and two refinements: of `Fulfilment` by `Sponsor`, and of `Semaphore`
by `Slots`, with `Tickets` as its user. What could follow:

1. The other columns of a track row (price, tier), of which a write-back undoes what was set
   meanwhile, beside the two that `Transcode` keeps and the total that `Sponsor` keeps.
