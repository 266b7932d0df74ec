# TLA+ specifications of tldr-tv

tldr-tv turns an essay into a narrated, illustrated "guide". A Rust server
without third-party crates (`backend/src`) keeps guides, accounts and quotas in
SQLite, runs the slow work (language model, speech, pictures) on background
threads and through node helpers (`backend/tts`), and serves a React frontend
(`src`) and a browser extension (`extension`).

This directory models the parts of it whose correctness depends on the order in
which things happen, checks them with TLC on small instances and proves the
main safety results with TLAPS for every instance.

- [System](#system): the parts, their state, how they interact, what is hard
- [Plan](#plan): modules in order, abstract specifications, theorems
- [Modules](#modules): how state and actions correspond to the code
- [Runs](#runs): what each run shows, its bounds
- [Fairness](#fairness) and [Abstractions](#abstractions)
- [Proofs](#proofs): what is proved, from what, along which argument
- [What the models found](#what-the-models-found)
- [What is not modelled](#what-is-not-modelled)

## System

Every HTTP request runs on a thread of a fixed pool (`http.rs`). Handlers share
the SQLite pool (`db.rs`), the in-memory stores (`stores.rs`) and the Stripe
worker (`stripe_worker.rs`); guide handlers spawn detached threads that run jobs
and own a connection of their own.

| Component | State | Operations | Correct when |
|---|---|---|---|
| Guide row (`db.rs` 1535-1640) | one row per slug: columns and `jobs_json` | insert, update guarded by owner, update by slug, delete, `merge_job` in a transaction | owner and creation time never change; a caller changes only what it may write |
| Guide handlers and jobs (`guides.rs`) | threads that hold a copy of the row; files under `public`; `<slug>.parts` | create, delete, analyze, thumbnail, chapter timing, tts, chapter images, auto chapters, date, audio; the pipeline | a row points only at files that were written or that a client named itself; a step shown as running is worked on and flips, unless its thread panics or hangs |
| Stripe worker (`stripe_worker.rs`) | bounded queue, worker threads, one reply channel per call | enqueue, wait with timeout, take, reject expired, call, reply | every caller is answered; a refused or expired call never reaches Stripe; no call runs twice |
| Webhooks (`routes.rs` 974-1204) | `WebhookEvents`, subscription columns of `Users` | find event, read from Stripe, update, record, acknowledge | recorded or acknowledged only after the effect; every event takes effect; repetition is harmless |
| Usage quota (`routes.rs` 670-768) | `usage_count`, `usage_reset_at` | check, track: start a window or consume | never more than the limit per window, never charged without service |
| CSRF (`routes.rs` 198-325, `stores.rs` 105-160) | a token per user in memory, a cookie per browser | mint at sign-in and at refusals, compare, remove at sign-out, janitor | no old token works after a sign-out; a signed-in browser is never stuck |
| Lockout (`stores.rs` 162-334) | attempts, lock and last failure per email and address | is_locked, record_failure, clear, cleanup, eviction | guesses per window are bounded; a flood does not free a locked account; a lock ends |
| Rate limit (`stores.rs` 357-426) | times of attempts per address | check_and_record, cleanup | attempts per window are bounded |
| SQLite pool (`db.rs` 570-785) | idle connections, closed flag, a condition variable | checkout, return, transactions, close_all | no connection is shared or lost or returned inside a transaction; no wakeup is lost |
| HTTP server (`http.rs`) | accept thread, bounded hand-over queue, worker threads, live count | accept, shed, read under deadlines, respond, shutdown | what was handed over is served; shutdown ends, and the pool closes after the requests |
| Audio stream (`guides.rs` 1434-1525, `http.rs` 1385-1496, `render-guide.mjs`) | `stream.mp3`, `state.json` in `<slug>.parts` | append a block, publish progress, tail, remove | a listener gets a growing prefix of the audio and its response ends |
| Stripe client (`stripe.rs`) | one circuit for all workers | attempt, pause, retry, open, close | retries create one session; the circuit opens for a reason; calls end |
| AI calls (`guide_ai.rs`) | one counter of failures | retry, open the breaker, place chapter quotes | a failing service is asked a bounded number of times; quotes are found in order |
| Accounts (`routes.rs` 366-546, 770-909) | `Users`, `Auths` | sign up, sign in with rehash, checkout, portal | no half account, no lost password, no portal of somebody else |
| Request reader (`http.rs` 1000-1230) | position in the stream of a connection | head, body, chunks, trailers | no byte of a body is taken for a request |
| Database schema (`db.rs` 801-948) | tables, columns, indexes | create, add columns, create indexes | whoever serves has all of it |
| Settings (`config.rs`, `state.rs`) | environment, `.env` files, `config.json` | fill in, check, open | production serves only with a good secret |
| Encodings, JSON, dates, signatures | none | encode, decode | what is written is read back |
| Frontend polling (`GuideProgress.tsx`, `PlayerView.tsx`) | what is shown of the row | poll until done or failed | shows what the row says |
| Extension, import of pages | none shared | | |

How they interact. Handlers read a row, make a long external call and write the
row back; the jobs do the same next to them; `merge_job` is the only
read-modify-write inside one transaction. The browser polls the row the jobs
write. Request threads hand calls to the Stripe worker and wait; Stripe itself
calls back through the webhook, which again calls Stripe through the worker.
The CSRF check guards every handler that changes something.

What is hard. Interleavings of handlers and jobs on one row; rows deleted and
created again under a running job; statements whose failure is ignored;
restarts that leave statuses behind; timeouts racing answers; duplicated,
reordered and lost webhook deliveries; decisions taken on a row or a lock read
earlier; answers that reach a browser out of order; bounded stores under a
flood. `PROJECT.json` lists these hazards with their line and the properties
that would catch them.

## Plan

The modules in the order in which they were written, most important behaviour
first:

1. `GuideStore`, `GuideJobs`: the row and everything that works on it.
2. `StripeCalls` (abstract) and `StripeWorker` (refines it).
3. `Webhook`: at-least-once delivery into the account row.
4. `Usage`, `Csrf`, `SignIn`: quota, tokens, lockout.
5. `Pool` and `HttpServer`, composed in `Backend` with the shutdown.
6. `ByteStream` (abstract) and `AudioStream` (refines it).
7. `StripeClient`, `GuideAi`: retries and breakers below the workers and jobs.
8. `Limits`, `Accounts`, `RequestReader`, `Startup`, `Settings`.
9. Algorithms against reference definitions: `Chapters`, `Codecs`, `Json`,
   `AudioFiles`, `Timestamps`.

Still worth doing: a `StripeWorker` whose step "at Stripe" is a call of
`StripeClient`, with the refinement that goes with it.

## Modules

`PROJECT.json` maps every definition to its lines.

**GuideStore** is the row of one slug (`guide`) and the statements on it, one
operator each. SQLite makes each statement atomic. The `UPDATE`s never set
`created_by` and `created_at` (`Overwritten`). The row keeps whether a column is
filled, the owner, the creation time (to tell two rows of one slug apart), the
chapter list with its images, and the status of each step in `jobs_json`.

**GuideJobs** extends it with threads (`Procs`). A thread is idle, runs a
request, or, after a handler spawned its job as its last act, runs the job.
`pc` names the next statement or file write, `read` the row it read last, `chs`
and `todo` the chapter list an image job fills in, `body` what its POST carries;
`disk` are the files, `parts` and `cleanups` the parts directory and the threads that
will remove it. `record_from_body` takes whatever a body holds, addresses of files and
statuses included: `NewGuide` for a new row, `Replaced` for one that exists, where
audio, timing, jobs and chapters fall back on the old ones. Bodies are written by
clients (`Bodies`), or are the copy of a guide that a page loaded (`PageLoads`,
`page`) and the publish button posts back whole (`Published`). `claimed` is a history
variable: the files that the bodies clients wrote have named.
Each action is one database statement or file write with the control flow up to
the next one; the code between touches nothing shared. `Leave` is the return of
a stage: the pipeline (`run_pipeline`) ignores it and calls the next, a request
or a manual job ends. `merge_job` failures are ignored as in the code.
`AnalyzePanics` is the slice of a model's answer that panics: the thread is gone and no
status is written; its slot is kept at `panicked`, to tell what was left behind. `Crash`
loses the threads and keeps row and files.

**StripeCalls** states what a caller is promised, **StripeWorker** how it is
kept: `caller`, `late` (the deadline passed), `queue`, `wpc`, `job`, `reply`,
and `stripe`, what Stripe saw. `Begin` starts the call; `TimeOut` is
`recv_timeout`; `Panic` models a worker that dies in the client, with the drop
of its reply sender and, for the last one, of the queue.

**StripeClient** is one call after another below the workers: `StartCall` asks the
circuit, an attempt is answered, turned away (429, 5xx) or lost, on the way out or
back; `RetryOrFail` takes the next pause or ends the call, `Wake` follows
a pause that `ClientTick` let run out. `sessions` are the keys Stripe acted on, `history` what the
circuit was told.

**Webhook** numbers the states of the subscription at Stripe (`truth`); the
events carry a version (`sent`), `row` is the version the columns hold. A thread
goes `find`, `retrieve`, `email`, `user`, `write`, `record`, `ack` as
`payment` and `process_webhook` do, with the exits of every error. `applied` and
`overlap` are history variables. `Prune` drops a record after the 30 days of
`WEBHOOK_RETENTION_DAYS`, when no delivery of its event can come any more.

**Usage** is the row of one free user, a clock, and request threads between
reading it (`Find`), deciding (`Decide`) and the transaction (`Reset`,
`Consume`). `used` is a history variable: the tracks admitted in the window.

**Csrf** is the store's token of one user, tokens numbered in minting order,
browsers with a cookie each, and requests in flight with the token they carry
and the one their answer brings. `ended` is a history variable: the tokens
minted before the last sign-out.

**SignIn** is the lockout store for a set of keys (email and address). A thread reads
the clock on its way to `IsLocked` and `RecordFailure` and locks the store afterwards,
so times arrive out of order: `clock` is at most `MaxLag` behind, and a late one takes
`last` and `until` of a record back. `LockoutCleanup` reads it early too. All times
are relative to now, so the state space is finite without a bound on time, and a
moment at `Horizon` is so long past that no clock tells it from the moments before;
`fails` is a history variable: for each key a set with one pair of age and rank
per failure (`Requests` has the operators of such histories), as far back as
`SureWindow`, the part of the window that no clock takes for past.

**Limits** is the sliding window of `RateLimitStore`. A thread reads the clock
(`Approach`, after `ClientIp` chose the address) and then takes the lock
(`CheckAndRecord`); `LimitsTick` in between makes its reading stale. `granted`
is a history variable, as `fails` is.

**Accounts** has the rows of `Users` and `Auths` and threads between their
statements: sign-in reads the row, verifies slowly, rehashes, finds the user.
Passwords are a head and a rest, as bcrypt sees only the first 72 bytes.
`request` is what a thread was asked for, `row` the row of `Auths` it read;
`first` and `opened` (the last session of the portal: who asked, for which
customer) are history variables. `Requests` holds what the handler
modules share: the threads, their `pc`, and histories by age.

**RequestReader** reads one connection token by token (a line, or one byte of a body) as
`read_request`, `read_body` and `read_chunked` do, with their limits and
refusals; the client sends up to `MaxSent` of `Messages`, one behind the other. `place` is
the request and the token in it that the reader comes to next, which the code does not
know: `Header` and `Content` say what stands there, and a body may hold the tokens of
another request.

**Startup** is `Pool::open` in several processes, one action per statement of
the migration; `existing` are the columns a process found in a table before it
adds (`column`) those that were missing. `GiveUp` is a process that ends or a
statement that fails.
**Settings** is what happens before: which secret and which database a process
gets. Both look at every state of the files they may find.

**GuideAi** has the jobs in `post_retry`: `Breaker` looks at the counter once per
call, the attempts count up, a success resets. **Chapters** is the loop
of `attach_chapter_times`: `AttachNext` searches the narration for the next quote
from the `cursor` on, `FirstFromStart` moves the first chapter to the start.

**ByteStream** states what a listener is promised; **AudioStream** how three programs
keep it in one directory: the job and its helper (`step`, `chunks`,
`encoded`), the encoder that appends on its own time, the delayed `Cleanup`, and
the tail loops (`pc`, `off`, `size`, `idle`). `BeginState` empties state.json and
a later action fills it, so that a reader may find it torn.

**Codecs** pairs writers and readers of one form, **Json** and **AudioFiles** hold
the definitions of two of them; a state is one sample and takes no step.
**Timestamps** are the same for dates and the signatures of webhooks. What the code does
with recursion or a loop is a recursive function: of the position in the text
(`PercentDecode`, `ReadString`, `AudioField`), and in `Json` also of the levels of
nesting that are left. `ReadValue` and `WriteValue` take what is read, or written, one
level deeper as an argument; `Parse` and `Stringify` stack `MaxDepth + 1` of them.

**Pool** has the critical sections of the pool's mutex as steps; the
notification comes after the mutex is released and is its own step, so a thread
may take the connection before the thread that was woken for it. `Notify` wakes
one sleeper, `NotifyAll` all; `Spurious` wakes one for no reason. `begun` are
the connections with an open transaction; `EndTx` is `COMMIT` or the rollback of
`TxGuard`, whichever way the closure ended.

**HttpServer** has the accept thread (`acceptor`, `taken`), the bounded channel
(`queue`), the workers (`wpc`, `conn`) and the main thread (`main`). `link` says
where each connection is. The flag `stop` is set in one step and the connection
that wakes `accept` is made in the next. `End` is a worker that finds the sender
gone and the queue empty; it counts itself out of `live`. `Request` and `HangUp`
are the two outcomes of `read_request`. `late` is a history variable.

**Backend** runs the two side by side, every step of one leaving the other
alone: a worker calls the pool only while it handles a request, a janitor thread
at any time, and the pool is closed after the shutdown. main then returns and
the process ends, at any later moment; the model goes on, so that its liveness
properties say what holds as long as it does not. `called` bounds the calls of
the pool: one for each request and each janitor.

**MCParts** runs the parts that share no state side by side: a behaviour picks one
of them (`part`) and stays with it, the others keep their initial state. What
it checks is what a run of each part would check.

The other `MC*` modules instantiate one module each (`MCGuideJobs` with the
symmetry of its threads). `*_proofs` modules hold the theorems.

In every module a definition marked `Mutant` is a plausible bug of the
definition it precedes; no specification uses it. Replacing the definition by
it makes TLC find the property named in `PROJECT.json` violated.

## Runs

Run one with `tlc -config <cfg> <module>`.

| Run | Question | Bounds |
|---|---|---|
| `guide_files` | Does a row ever point at a file that was neither written nor named by a client? | 2 threads, 2 requests of every endpoint, the publish button, bodies with and without files, 2 creations, 1 crash, 1 chapter, one kind of caller |
| `guide_owner` | Can a stale request change the row of somebody else, or the owner of a row? | an owner and an anonymous caller, 2 threads, 3 requests (create, delete, date), failing statements |
| `guide_alone` | With one pipeline and deletions: is a running step worked on, does it flip, unless its thread panicked or its helper hangs? | 2 threads, 2 requests, 2 chapters, no restarts, no failing statements |
| `guide_lost_status` | Does running flip when another request writes the row? It does not. | 2 threads, 2 requests |
| `stripe_calls` | Are callers answered, and is the promise implemented? | 3 calls, 2 workers that may panic, queue of 2 |
| `webhook_events` | Do events take effect before they are acknowledged, all of them, and is repetition harmless? | 2 threads, all kinds, 2 events, 2 faults |
| `webhook_lost_write` | The same when a statement may fail. Not so. | 1 thread, 1 event, 1 fault |
| `usage_race` | Does a window admit more than the limit? It may. | 2 threads, 2 ticks |
| `server_shutdown` | Does a shutdown serve what was handed over, close the pool after the requests, and end? Is a wakeup lost? | 2 connections, 2 workers and a janitor, 1 database connection, queue of 1 |
| `audio_stream` | Does every listener get prefixes of one render's audio, and does every response end? | 2 listeners, 2 blocks, 1 render that may fail anywhere |
| `stream_cut_short` | Does a stream that ends because the render is done have all of it? Not always. | 1 listener, 2 blocks |
| `parts` | The parts below | `parts.cfg` |

What `parts` asks, by part:

| Part | Properties | Bounds |
|---|---|---|
| quota | `CountBounded` | 2 threads, limit 2, 3 ticks |
| CSRF | `SignoutEnds` | 2 browsers, 2 requests in flight, 3 sign-ins, restarts or expiries |
| lockout | `GuessesBounded`, `LocksOutlive` | 3 keys in a store of 2, 2 threads, threshold, window and duration 2, a stale clock of 1 tick, so that the sure window is 1 |
| rate limit | `AdmissionsBounded`, `RetryAfterIsEnough` | 2 clients behind 1 proxy, store of 1, limit 2, window of 3 ticks, a stale clock of 1 tick |
| accounts | `NoHalfAccounts`, `PasswordsKept` | 2 spellings of an email, 3 passwords of which two share their head, old hashes of 2 kinds, 2 threads |
| portals | `PortalsOwn` | 2 users, 2 customers, 2 threads |
| Stripe client | `OneSession`, `OpenAfterRun`, `CallsEnd` | 3 calls, 1 retry, circuit of 2 failures |
| AI calls | `FailuresBounded` | 2 jobs, the limits of the code (3 failures, 4 attempts): the streak reaches 10, not the 3 of `guide_ai.rs:3-4` |
| chapters | `QuotesPlaced` | every narration of up to 4 words and up to 2 quotes of up to 3, of which 2 tokens are searched for (3 in the code) |
| request reader | `OnlyWhatWasSent` | up to 2 requests out of the messages of `MCParts`, limits of 5 and 2 tokens |
| schema | `ServesWholeSchema`, `StartsAtLast` | 2 processes, 2 tables, 3 columns, every older file, 1 mishap |
| settings | `ServesTrusted` | every content of the files and the environment |
| forms | `ReadBack`, `DatesRight`, `SignedRecently` | all texts, bytes, JSON texts, uploads, ranges, headers built from a few pieces; 1967 to 1973 and the years around 1600, 1900, 2000, 2100 and 2400 |

Why the bounds are enough. A hazard of this code is a pair: a read and a write
of one thread around a step of another. Two threads show every pair. Three requests give delete,
create and the stale writer. One chapter is enough where images only grow a
set; two show a partly filled list. A queue of two with three calls and two
workers is full, empty and drained while one call is at Stripe. Two webhook
events are the least that can overtake each other, and two faults lose an answer
and then kill the server. Two keys fill the lockout store, the third floods it. One database
connection for three threads makes two wait for it; a queue of one is full while
the second connection arrives, which is shed. Keep-alive connections make any
number of requests. Two blocks of audio are a first that is sent and a last that
may be missed. A circuit of two failures opens while the third call is on its
way; one retry is enough to lose an answer and act twice. Two columns of one
table let a process stop between them.

Runs say `CHECK_DEADLOCK FALSE` where the model stops for good when its budget
of requests, events, calls, connections or ticks is used up, as the server stops when nobody
calls it.

A property that holds only in part of the behaviours says so in its
definition: `ReapplyIsSafe` is about deliveries that do not overlap.

## Fairness

- `GuideJobs`: each thread that has work goes on, and the timers of the cleanup
  threads fire. External calls have timeouts (`httpc.rs`). The node helper has
  none (`guides.rs:952`), so its steps (`Render`) are not fair, and `RunningFlips` says
  so (`Stuck`). Clients need not send anything.
- `StripeWorker`: time passes, caller threads and workers run. Nothing is
  assumed of Stripe: `Answered` holds although a call to it may hang.
- `MCParts`: in the Stripe client time passes and threads run, and what is sent is
  answered or lost (the HTTP client has a timeout); in the schema part
  a started process goes on and its supervisor starts it again. The other parts
  have safety properties only.
- `AudioStream`: a tail loop is a thread and its listener reads on (or the write
  times out); nothing is assumed of the render, which may hang.
- `Webhook`: threads run (weak), and Stripe keeps delivering each event it has
  no 200 for (strong: a thread is free again and again). Stripe retries for
  days; the number of faults is bounded.
- `Backend`: the accept thread, the main thread, threads inside the pool and idle
  workers run (weak). Nothing is assumed of clients and handlers, except in
  `WorkersEnd`, where the assumption is part of the property: a connection that
  sends nothing is cut off by its time budget, and handlers return.

## Abstractions

- Texts, dates, titles, words, chunk counters: left out; only whether a column
  is filled is kept.
- A guide request that is turned away changes nothing and is not a step. `GET` shows
  some rows to their owner only; whose page holds a copy makes no difference to what
  it may post.
- Stripe worker: looking at the deadline and starting the call are one step;
  the attempts a call makes are those of StripeClient.
- Webhook: event types the handler does not know, and invoices without a
  subscription, are only recorded and left out.
- Usage: subscribers, and checks inside a window, change nothing.
- Csrf: one user, whose tokens are independent of other users' except for the
  eviction of the janitor, which is a step that may happen at any time.
- HttpServer: sleeping in `recv` behind the mutex of the receiver is waiting for
  the queue or the end of the sender. Reading a request, and writing the
  response, are one step each with their outcomes; time inside them is left out.
  The connection that wakes `accept` can be made unless the backlog is full;
  a process without free descriptors is not modelled.
- Pool: a `BEGIN` waits for the write lock of the other connection or fails
  (`Use`); the closures given to the pool end, and a rollback succeeds.
- SignIn: a thread that read the clock gets the lock within `MaxLag` ticks; the mutex
  is held for moments, and the theorems hold for any such bound below the window. A restart would empty the
  store and end every lock; it is left out, the code says nothing is promised
  then. The rate limit in front of it only removes requests.
- Accounts: the CSRF check, the rate limit and the lockout only remove requests.
  Bodies that are refused change nothing. The price of a checkout is data.
- StripeClient: a tick is `BASE_BACKOFF_MS`; a transfer ends in one step, with a
  status or without, and Stripe acts at most once in it.
- AudioStream: a block of audio stands for the bytes of one source chunk; polls
  are counted, not timed.
- RequestReader: a token costs one byte of the limits; time is an outcome
  (`TimedOut`) at every read.
- Startup: a statement of SQLite is atomic; the columns have no types; the four
  `CREATE INDEX IF NOT EXISTS` of one batch are one step, as none depends on another.
- Settings: one secret stands for all variables of the environment.
- Codecs, Json: texts are ASCII; numbers are integers of any size, without fractions and
  exponents; no whitespace between tokens. The code keeps a number as a double, so one of more than 53
  bits is rounded when it is first read.
  AudioFiles: an upload is a sequence of tokens, so a boundary or a line end is
  never half of one.
- Bounds are the constants named `Max...`, except those that a comment names as
  a constant of the code (`MaxRetries`, `MaxAttempts`, `MaxIdle`, `MaxHeader`,
  `MaxBody`, `MaxDepth`, `MaxInt`, ...).

## Proofs

TLAPS proves, for every value of the constants that the `ASSUME`s of the modules
allow:

| Theorem | Says |
|---|---|
| `GuideJobs_proofs!TypeCorrect` | types, and a job that finds no row gives up |
| `GuideJobs_proofs!OwnershipKept` | `OwnershipFixed` |
| `GuideJobs_proofs!OwnerIsRespected` | `RequestsRespectOwner`, if nobody uses the handlers that write by slug alone |
| `GuideJobs_proofs!RunningIsWorkedOn` | `RunningHasThread`, if a guide is posted once, in a body without statuses, else only deleted, no statement fails and the server stays up |
| `GuideJobs_proofs!ArtefactsInductive`, `ArtefactsSafe` | `ArtefactsInv`, `ArtefactsOnDisk` |
| `StripeWorker_proofs!NoJobDoubled` | `OneCopy` |
| `StripeWorker_proofs!WorkerImplementsCalls` | the worker implements `StripeCalls` |
| `Webhook_proofs!RecordedIsHandled`, `AckedIsHandled` | `RecordedHandled`, `AckedHandled`, if the server is `WellBehaved` |
| `Webhook_proofs!ReapplyingIsSafe` | `ReapplyIsSafe` |
| `AudioStream_proofs!Types`, `Prefixes` | types; the stream implements `ByteStream`, if the guide is rendered once |
| `Backend_proofs!Composed` | `Backend` implements `ServerSpec` and `PoolSpec` |
| `Backend_proofs!PoolSafe` | `OnePlace`, `NoneLeftOpen` |
| `Backend_proofs!WakesSomebody` | `NoLostWakeup` |
| `Backend_proofs!NoneIsCutOff`, `StopsKeepAlive` | `NoneCutOff`, `OneMoreRequest` |
| `Backend_proofs!ServesToTheEnd` | `ServedToTheEnd` |
| `Requests_proofs!CountWithinLimit`, `NoneShortchanged` | quota: `CountBounded`, `NeverShortchanged` |
| `Requests_proofs!SignoutIsFinal` | CSRF: `SignoutEnds` |
| `Requests_proofs!GuessesStayBounded` | lockout: `GuessesBounded`, in the window less the lag of a clock |
| `Requests_proofs!LockoutTypes`, `LocksLast` | lockout: types with the bound of the store, `LocksOutlive` |
| `Requests_proofs!AdmissionsStayBounded`, `WaitingHelps` | rate limit: `AdmissionsBounded`, `RetryAfterIsEnough` |
| `Requests_proofs!AccountsAreWhole`, `PasswordsStay`, `SessionsAreOwn` | accounts: `NoHalfAccounts`, `PasswordsKept`, `PortalsOwn` |
| `Services_proofs!OnlySentIsServed` | `OnlyWhatWasSent`, if the client's bodies are framed (`WellFramed`) |
| `Services_proofs!SecretsTrusted`, `SchemaIsWhole` | a start: `ServesTrusted`, `ServesWholeSchema` |
| `Services_proofs!SessionsOnce`, `OpensAfterRun` | calls to Stripe: `OneSession`, `OpenAfterRun` |
| `Services_proofs!StreakStaysBounded` | calls to the models: `FailuresBounded` |
| `Services_proofs!EveryQuoteIsPlaced` | chapters: `QuotesPlaced` |
| `Codecs_proofs!DatesAreRight`, `AcceptedWasSigned` | `DatesRight`, for every day there is; `SignedRecently` |
| `Codecs_proofs!EverythingReadsBack` | `ReadBack`: cookies, parameters, forms, base64, hexadecimal text, JSON, uploads and ranges, of any length |

The arguments.

*Guides.* `ArtefactsOnDisk` alone is not inductive, because a thread may
write back what it read long ago: `ArtefactsInv` adds that every copy of the
row a thread holds, the image list it fills in, and the labels at which a file
is about to be reported, every body under way and the copy a page holds are backed by
files too, or named by a client; neither files nor what was named ever goes away.
`RequestsRespectOwner` needs that a thread inside a handler is at a label of a
handler that its endpoint has (`InHandler`), so that the unguarded update is
reached by jobs alone. `RunningIsWorkedOn` rests on `AloneInv`: at most one thread
works, and neither the row nor its copy of it shows a step as running that it does not
report before it ends (`Reports`), unless it panics; a panicked pipeline keeps its slot
and nobody else comes.

*Stripe.* `WorkerInv` adds to `OneCopy` that no job is lost (`NoLostJob`, which Rust's
ownership of a job and its reply sender ensures) and says where each job is in terms of
what Stripe has seen (`Tracked`) and that a job in the queue or in a worker's
hands still lacks its reply (`Outstanding`); the refinement maps `answer` and
`stripe` to themselves, so only `Begin`, `StripeEnds`, `Panic` and the answers
are steps of `StripeCalls`. `HandledInv` adds that a thread past the write has
applied its event; `ReapplyInv` that nothing anybody knows of the subscription is
newer than what Stripe has and that, without overlap, the row is no newer than
what the one busy thread read. Below the workers every session carries the one
key of its call (`OneKey`), and the count of the circuit is of the last calls to
end (`CountsLast`).

*Requests.* `UsageInv` adds that a thread about to write
passed the check of a limit below one. `StoreIsNew` says that the token in the
store was minted after the last sign-out. The other bounds count what is in
flight. `SignInInv`: the attempts on record and the guesses let in but
not yet counted stay within threshold minus one and one per thread
(`GuessesLeft`), and the record has lived as long as the failures of the sure window,
of which there are no more than attempts (`FailuresCounted`): the last failure is
recorded no earlier than one lag before it came, so no clock finds the record
out of its window, or its lock over, while such a failure is young. `LimitsInv`: of the admissions younger
than r, for every r, all are in the window but one of each thread whose clock is
younger than r too (`Recorded`); a bound for one r only is not inductive, as time
turns it into that for the next. `AccountsInv`: every hash is the one the account
was made with or a current one of a password that the old one verifies, in the table and in the rows
threads still hold (`AuthsKept`, `RowsKept`), and what Stripe is about to be asked
for belongs to the caller (`AsksForOwn`). In all three the sizes of sets stand
for the lengths of the code's lists, and each step adds or removes one element.

*Request reader.* `ReaderInv` says for each phase where in the request the reader is, in
terms of what it has read: behind as many fields as it holds, three tokens per byte of a
chunked body, behind the last token when the request is served. `OnWireIs` says which token
stands where, for requests of any length, so each step reads the token that its phase is
about or refuses; `FrameUnderstood` is the heart of it: a reader that goes on past the
header has understood how the body is sent, or meets what is no chunk size next.

*Server.* Each half of `Backend` keeps its own invariant: `PoolInv` names
the places of a connection one by one; `ServerInv` adds that the live count is
exact and that a worker ends only when the sender is gone and the queue empty,
so that a count of zero means nothing is left (`Counted`, `Located`), and contains
`AcceptsUntilStop`. `Together`
is what needs both: a worker is in the pool only for a request, so a drained
server has none there. `NoLostWakeup` is inductive next to them.
`Inv` of `AudioStream_proofs` says where
the file and the audio agree (`FileInv`: stream.mp3 is missing or holds all the
encoder has put out, as a cleanup comes only after the render) and that a loop's
offset is what it sent (`SentInv`); with that `WriteRange` sends the next piece
of the audio and every other step stutters, grows or closes.

*Start and services.* `StartupInv`: what a process has seen to stays, since nobody
takes a table or column away, so each label says up to where the schema is
complete. `SecretTrusted` follows each value to the file it came through.
`StreakBounded` adds to the failures the attempts that the calls already let in have left.
`ChaptersInv` says that for any places at which the quotes stand in order the
cursor is still before the next one; the first match is then no later, because a
nonempty set of natural numbers has a least element (`MinIsLeast`, from the
well-foundedness of <).

*Forms.* The theorems about forms are about every sample, so they
need induction over data. The library's induction theorems take an operator and cannot be
used; instead a claim about all positions, lengths or levels is the set of numbers at which
it holds or fails, and a nonempty set of natural numbers has a least element (`NatSet`,
`FromTheEnd`). The lemmas named `...Runs` show that each recursive function has the value
its body says, since it looks only at later positions or lower levels.
Percent escapes, groups of base64 and pairs of hexadecimal digits are undone one by one,
and what stands behind them is undone by the induction. A separator never occurs in what
an encoder writes, so the pieces between separators are the pairs that were joined. In an
upload a boundary stands only where `Multipart` put it, so the next one found is that
of the next part. For JSON, the text written for a value is read as this value
wherever it stands, provided no digit follows it (`ReadsBack`, `FindsBack`): by induction on the
levels of nesting (`LevelStep`), and within an array or an object from its last member to its
first. The reader gives up below `MaxDepth`, so a value it returned has no
more levels than the writer and the second reading have. A day has one
place in the calendar, as century, four years, year and day of an era (`Stands`);
`YearFound` computes that the arithmetic of the code finds that year, and the day after
follows by cases on the ends of months, years, leap years, centuries and eras.

The assumptions are the `ASSUME`s of the modules, which TLC evaluates in each
run: disjointness of the special values, positive capacities, finite sets of
threads, at least one worker and one client, a tolerance below the largest i64. For the
forms they say what the samples are (`CodecsAssumption`): texts are bytes, a text offered as JSON
has characters, and the headers in an upload are lines, none of them empty or the boundary.
`UploadReturns` itself leaves out a file that holds the boundary, which browsers avoid. Some theorems have
hypotheses of their own, because the property is false without them:

- `RecordedIsHandled` and `AckedIsHandled` assume `WellBehaved`: the account
  exists, the customer has an email, statements do not fail (`webhook_lost_write`
  shows the other case).
- `OwnerIsRespected` assumes `WritesAsCaller`: analyze, thumbnail and
  chapter-timing, which write by slug alone, are not among the endpoints.
- `RunningIsWorkedOn` assumes `PostedOnce`: one creation, in a body without statuses, and
  else only deletions, no restart, no failing statement. After a restart, a failed write
  of a status, or a handler or a page that writes an old row back, a status stays for
  ever (see below); after a panic too, which is part of the property.
- `Types` and `Prefixes` of the audio stream assume `MaxRenders = 1` (see below).
- `OnlySentIsServed` assumes `WellFramed`: a body is what the header fields say it is, or
  these contradict one another, or they announce chunks and what follows is no chunk size.
  A client whose body says something else than its header fields means a
  request that the reader cannot know.

The passing runs of these properties set their constants so; only the requests of `parts`
also hold one that is not framed, whose body begins like a chunk and goes on like a
request, and that the reader refuses. The theorems about a
part of `MCParts` are about its own specification (`UsageSpec`, `LimitsSpec`, ...);
a behaviour of `MCParts` that picks the part is one of its behaviours. Theorems also cover what no run checks any more
because another property says more: `OneCopy`, `NeverShortchanged`,
`OneMoreRequest`, `NoneLeftOpen`.

Only model-checked is all liveness (`RunningFlips`, `Answered`, `EveryEventHandled`,
`NoneSleepForever`, `WorkersEnd`, `StreamEnds`, `StartsAtLast`, `CallsEnd`), which
this prover does not support, as it does not support `ENABLED`. Every invariant and every
action property of the passing runs has a theorem.

## What the models found

With a run:

- `guide_lost_status`: `refresh_date` (`guides.rs:435`) writes back a whole row
  with an old `jobs_json`; a step that finished meanwhile is running for ever.
- `webhook_lost_write`: a failed `UPDATE` is logged, and the event is recorded
  and acknowledged all the same (`routes.rs:1097`).
- `usage_race`: two resets of an expired window erase what was counted between
  them (`routes.rs:724`).

- `stream_cut_short`: the size is read before the state (`http.rs:1429`); the last
  block and "done" may arrive between the two, and the stream ends without it.

Met while modelling, without a run of their own:

- A listener of the stream also loses the rest when it reads state.json while it is
  being rewritten: half a text is no state, and no state ends the stream
  (`http.rs` `growing_file_next`).
- A listener that stays over a second render of its guide goes on in the new file
  at its old offset; the cleanup thread of the first render removes the directory
  of the second (`guides.rs:1514`).
- The breaker of the AI calls counts attempts, not calls: one call with four failing
  attempts opens it. Then no call is made that could close it, so it stays open
  until a restart. It also counts answers like 400, where `guide_ai.rs:3-4` speaks of
  "transport or 5xx". And jobs that passed the check before it opened fail on: the
  streak reaches ten with two jobs (`FailuresBounded`), where the same lines promise
  three.
- A quote whose first tokens come from a word with an apostrophe is never found
  (`guide_ai.rs:384`): `norm` splits the word of the narration in two.
- The slice of the model's answer panics when its last `}` stands before its
  first `{` (`guide_ai.rs:308`); the thread ends and leaves its step, and
  the pipeline, "running" (`AnalyzePanics`; `RunningFlips` excepts it). The same slice at
  377 ends a request of auto-chapters, which has no status.
- The publish button posts back the copy the page loaded (`GuideProgress.tsx:182-190`),
  its jobs included: a step that finished meanwhile is "running" again, for ever.
- A body may name an mp3, a cover or images that were never written, and statuses of
  jobs that never ran (`guides.rs:1155`, 1162-1164, 247-252); the row then points at
  nothing. `ArtefactsOnDisk` says that this is the only way to it.
- A cookie pair without "=" hides all cookies behind it (`http.rs:126`), where the
  comment at 118-121 says `None` when the cookie is absent. `TextReturns` states it.
- A rehash on sign-in keeps whatever variant was typed: bcrypt compares 72 bytes,
  so a password that agrees in these replaces the original (`routes.rs:493`).
- When the token cannot be made after the account was created, the answer is 500
  although the account exists (`routes.rs:419`).
- A config.json that cannot be parsed counts as the defaults, so the server opens
  the default database (`config.rs:249`).
- A .env.example that is a symlink is copied through it (`config.rs:110`),
  past the check against symlinks.
- Two first starts at once may both add a column; the second fails and its
  next start finds the column there (`db.rs:945`).
- The clock of the rate limit is read before its lock, so each thread may let one
  more request through (`stores.rs:375`).
- The clock of the lockout is read before its lock too (`routes.rs:469`, 484, 489): a
  late one takes a lock's end back, so that more guesses than the threshold and the other
  threads together fit in one window. They do not in the window less the lag.
- The range `bytes=-0` is answered with 206, no bytes, and a first position
  behind the last (`guides.rs:1362-1364`); `RangeReturns` says so.

- Two refusals whose answers cross leave the browser with a token that will
  never work, and a mismatch brings no new one (`routes.rs:249`), where the
  comment at 200-203 promises one "whenever the caller's identity is known".
- The budget of a request that "is absolute" (`http.rs:516-519`) becomes a socket
  timeout once per `read_exact`, which a slow body outlasts (`http.rs:1228`).
- After a restart nothing resets a status "running"; the manual jobs then answer
  409 for ever (`guides.rs:1034`), where CHANGELOG.md:210 says "Reset stale
  guide jobs".
- The pipeline never sets the tts status to "running", so timings are not
  merged into the answer while it renders (`guides.rs:1477`, docs/API.md:318).
- analyze, thumbnail and chapter-timing write by slug alone from an HTTP
  handler (`guides.rs:625`), where db.rs:1606-1607 says handlers must use the
  guarded update.
- The node helper is waited for without a limit (`guides.rs:952`, todo.md:180).
- When the write of the finished audio fails, the step still reports done
  (`guides.rs:754`).
- A late `customer.subscription` event takes the row back in time
  (`routes.rs:1092`, against the comment at 1038-1041).
- A request whose CSRF cookie expired is refused without a new token
  (`routes.rs:226`).
- A reset decided earlier may also move the end of a usage window backwards.

## What is not modelled

- scrypt, bcrypt, SHA-256, HMAC and random numbers (`kdf.rs`, `crypto.rs`):
  sequential functions of bytes with known-answer tests, of which a small
  instance would show nothing. The patterns of `validation.rs` neither.
- The HTML of fetched pages (`article.rs`) and the HTTP client under it
  (`httpc.rs`): text in, text out; their outcomes are inputs of the models.
- `me_put` (one UPDATE of a name), the JWT (taken for the user it names), the
  read-only endpoints, the writer of ordinary responses and static files.
- That a lock of `SignIn` ends in time: it would need time to be fair in the
  product of all parts, a graph too large for the run.
- Speech synthesis, the views of the frontend, the polling (it reads and changes
  nothing), the extension (a client that keeps view state only), build and
  migration scripts, and the competitor notes and mockups under `docs` and
  `mockups`.
