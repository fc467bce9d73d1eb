# SyncYomi in TLA+

SyncYomi is a small Go server with which devices running a Mihon/Tachiyomi reader
share one blob of sync data per API key. A web interface manages the account, API
keys, notifications and configuration. Everything lives in one process and one SQL
database (SQLite or Postgres). This directory models the parts of the server whose
correctness depends on the order of things: handlers that interleave between SQL
statements, goroutines that share memory, answers that are lost, processes that
restart. TLC checks the models on small instances; TLAPS proves the main results
for instances of any size.

## 1. The system's components

| Component | Code | State | Operations | What is hard |
|---|---|---|---|---|
| Sync content | `internal/http/sync.go`, `internal/database/sync.go` | table `sync_data`: one row (blob, etag) per API key | `GET`/`PUT /api/sync/content` with `If-None-Match`/`If-Match` | each handler is several statements without a transaction; answers lost after the commit; keys deleted under a running request |
| Authentication middleware | `internal/http/middleware.go`, `internal/api/service.go` | none of its own | `IsAuthenticated`: header, `?apikey=`, or session | the key checked is not always the key used for the row |
| API keys | `internal/api/service.go`, `internal/database/api.go`, `internal/http/apikey.go` | table `api_key`, a cache nothing fills | list, store, delete, validate | deletion and the data that hangs on the key |
| Notifications | `internal/notification/*.go`, `internal/database/notification.go`, `internal/http/notification.go` | table `notification`; the slice `senders` in memory | store, update, delete, test; `Send` | the slice is emptied, refilled and read without a lock, by handlers and goroutines |
| Sync events | `internal/sync/service.go`, `POST /api/sync/event` | none | parse, check the kind, `Send` | answered before the goroutine has run |
| Account and sessions | `internal/http/auth.go`, `internal/auth/service.go`, `internal/user/service.go`, `internal/database/user.go` | table `users`; the signed cookie in the browser | onboard, canOnboard, login, logout, validate | count and insert are separate statements with a slow hash in between |
| Update check, scheduler | `internal/update/update.go`, `internal/scheduler/*.go`, `internal/server/server.go`, `internal/http/update.go`, `pkg/version` | `latestRelease` under a lock; the job's `lastCheckVersion` | a check at start, a cron job, a check from the web interface | three callers, answers out of order, one cache with two uses |
| Configuration | `internal/config/config.go`, `internal/http/config.go` | one struct, one file | load, PATCH, reload by a file watcher | unlocked writers, a file truncated before it is written |
| Database | `internal/database/{database,sqlite,postgres}*.go` | schema and its version | open, migrate, close | migration against crashes and a second process |
| Start and shutdown | `main.go`, `internal/server/server.go` | the goroutines of main and of the HTTP server, the signal channel | open, listen, shut down, close, exit | signals at any step; exit with requests running; an error channel nobody reads |
| Log and log stream | `internal/logger`, `internal/http/server.go`, `LoggerMiddleware`; the library `r3labs/sse` | the stream's queue, its subscribers, a connection per page | log, publish, subscribe, replay, unsubscribe | nothing gives up waiting, so a page that does not read can hold up everybody who logs |
| Health | `internal/http/health.go` | none | ping the database | may be asked at any time of the process's life |
| Log files, event bus, argon2id, web UI | `internal/http/logs.go`, `internal/events`, `pkg/argon2id`, `web/` | - | - | I/O or presentation |

How they interact. The router authenticates every request but those of `/api/auth`
and health, then calls the handler, which calls a service, which calls a repository;
nothing but the database, `senders`, `latestRelease` and the configuration is shared.
`POST /sync/event` and the update job call `notification.Send`, which starts a
goroutine. The configuration's `checkForUpdates` is read by the scheduler and by the
server's start. Every request, every service and main itself writes to the log, and the
log waits for its stream. A signal stops the process with whatever is running.

## 2. What makes each component correct

* **Sync content.** Every request takes effect at most once and at one instant, so
  that the two endpoints are an atomic register per key; no accepted conditional
  write overwrites a version its device has not seen; an etag names one content for good; answers are
  true; keys keep their data apart; data goes with its key.
* **Notifications.** The senders are those of the table; an event reaches each sender
  that takes it, once; a deleted notification stays quiet; every event ends.
* **Account.** One account; whoever was told that he has it does.
* **Update check.** A release is notified once; the latest release ends up recorded.
* **Configuration.** The file stays whole; struct and log follow it; a PATCH changes
  what it asks for and nothing else. The code keeps the first and the last for files
  and texts that it understands only, see sections 3 and 5.
* **Database.** The version is true of the tables; who serves has his release's
  schema; every start comes to an end.
* **Process.** A signal ends it, although requests run and pages are connected, if a
  page that stalls leaves in the end; requests come to an end, and
  find a database that is open while the process is not ending.
* **Log stream.** A page gets the lines kept and all that follow, in order, once.

## 3. Modules

| Module | Contents |
|---|---|
| `SyncRegister` | abstract: what the sync endpoints promise, one atomic register per key |
| `SyncContent` | the two endpoints, the middleware and the API keys, statement by statement; `ImplementsRegister` is its refinement mapping to `SyncRegister` |
| `SyncContentProofs` | the inductive invariant of `SyncContent` and the theorems that follow from it |
| `SyncContentRefinement` | the proof that `SyncContent` implements `SyncRegister` |
| `Notifications`, `NotificationsProofs` | table, slice, handlers and goroutines, and theorems about them |
| `WebAuth`, `WebAuthProofs` | account and sessions, and theorems about them |
| `UpdateCheck`, `UpdateCheckProofs` | the callers of the release check and the job, and theorems about them |
| `Config`, `ConfigProofs` | the struct, the file, PATCH, the watcher, start and end of the process, and theorems about them |
| `Migration`, `MigrationProofs` | opening a database of any version, on SQLite and Postgres, and theorems about it |
| `Logging` | log calls, the stream with its queue and subscribers, pages |
| `Server`, `ServerProofs` | composes `Logging` with main, its signals, the HTTP server's goroutine and requests; and theorems about them |
| `MC...` | instances for TLC: named values for the constants, symmetry sets |

Definitions named like another with a suffix (`StoreUserAnyName`, `RecordFirst`,
`ResetSendersNot`, `NewEtagRepeating`, ...) are plausible wrong versions of the
definition they precede. `Next` never uses them; replacing the right one by the wrong
one must make the property named in `PROJECT.json` fail, which shows that the
property can fail at all.

### SyncContent

| Model | Code |
|---|---|
| `api[k]` | the rows of `api_key`; `"deleted"` tells a key that was there from one never minted (keys are random, so none returns) |
| `rows[k]` | the row of `sync_data` with that `user_api_key`; `NoRow` where there is none |
| `minted` | how many `uuid.NewString()` were drawn: etags are numbered in the order they are drawn, which is all the properties tell apart, as two UUIDs never agree |
| `versions` | history of all rows: etag, content, the etag replaced, the writing device |
| `req[r]` | a running handler, with `pc` the next statement: `auth`, `etag` (`GetSyncDataETag`), `data` (`GetSyncDataAndETag`), `update`, `insert`, `done` |
| `copy[d]` | the device's last answer, which it names in its next headers |
| `Authenticate` | `IsAuthenticated`; a failing query is 401 |
| `SetSyncDataIfMatch` | one `UPDATE ... WHERE data_etag = $etag` |
| `UpdateSyncData`, `InsertSyncData` | `SetSyncData`: an `UPDATE`, and an `INSERT` when no row was affected |
| `WritesNothing`, `AnswerPut` | error paths: a statement that fails may have taken effect, and the first status written wins (`putContent` writes 500 and goes on to write 412) |
| `DeleteKey` | `DELETE FROM api_key`, which cascades to `sync_data` only where `ForeignKeys` holds: Postgres, not SQLite, where the pragma is commented out |
| `GiveUp`, `Deliver`, `Restart` | time-out of the device, delivery, death of the process between any two steps |

A device keeps one request open at a time, or several if it gave up on earlier ones:
their handlers run on, which is how duplicates arise. A statement is atomic; both
databases serialise single statements on a row.

### Notifications

`table`, `senders` and the handlers `Store`, `Update`, `Delete` (all instances of
`Change`: one statement, which fails, or succeeds, or succeeds and yet reports a
failure), followed by the steps `ResetSenders`, `List`, `AppendReads`, `AppendWrites`.
`append` is two steps because nothing locks `s.senders`. A reported event's goroutine
loads the slice (`LoadSenders`) and begins its range (`StartSending`); between the two
the slice header may have changed, and since the code has no lock the array of one
version may be combined with the length of another: fewer senders than there are, or
more than the array holds, a panic that ends the process. `SendNext` is one iteration;
the outcome of a send is ignored by the code, so it is not in the model. `kept`, `calm`
and `barred` record what an event could rely on, `gone` which deletions were done and
answered, and `stale` that the last change failed after its statement, or the listing
failed: the senders are then those of an older table until the next reload. Left out: `Test`, which changes no state; wording of the messages; the
sharing of one backing array by two concurrent appends, and torn reads by a handler
(one more way in which two handlers at once go wrong, which the model shows already).

### WebAuth

`users` holds name and password as given (argon2id is a function of the password and
its hashes never compare equal to another's); `cookie[b]` is the value of
`authenticated` in the browser's session, shared by its tabs; `req[r]` a running
handler with the session it was sent with. `Onboard`, `CountUsers` (twice: in
`auth.CreateUser` and in `user.CreateUser`) and `StoreUser` are the statements of
onboarding; the second count and the insertion run in a context of their own and are
not cancelled with the request. The signing key is in the configuration file and
survives `Restart`.

### UpdateCheck

Releases are numbers in the order of publication and of version; `Newer` is
`checkNewVersion`. `caller[c]` is where each caller is: the goroutine of the start,
the handlers, the job. GitHub's answer and its recording are separate steps
(`Answered`, `Record`), so answers overtake each other. `Record` is
`CheckUpdateAvailable` from its lock on, and for the job the rest of `Run`, which
touches only the job's own `lastCheckVersion`. `None` for it is the empty version
the job starts with (`scheduler.version` is never set). `found` and `sent` are
history since the start of the process.

### Config

| Model | Code |
|---|---|
| `file` | `config.toml`: whether it is there and parses, the two settings, whether the `others` are in it, whether a line has a form (`odd`) that `processLines` does not find, and how the level was written (`text`) |
| `mem`, `logger` | `c.Config` and zerolog's global level |
| `parsed` | viper's configuration: the last file that could be read (`Readable`) |
| `proc` | the start, step by step: `CreateFile`, `FillFile` (`writeConfig`), `Load`, `WatchConfig` |
| `events`, `watcher` | changes waiting for the watcher, and where its callback is: `ReadInConfig`, `ReloadLevel`, `SetLogLevel` (which reads the struct again), `ReloadCheck` |
| `req[h]` | a PATCH: `SetCheck`, `SetLevel`, `ReadFile`, `processLines`, `OpenFile` (which truncates), `WriteFile` |
| `Edit` | a user saves the file; also with a mistake, and also while the process starts |

PATCH takes any string for the level and for the path of the log
(`internal/http/config.go:76-82`) and `processLines` puts it between quotes as it is
(`internal/config/config.go:367,374,394,405`). `Texts` are those strings, and
`ReadBack[t]` is what TOML makes of `t` so written: `t` itself for the `Plain` ones,
another text (an escape such as `\n` is read as what it stands for), or `"broken"` when
the line is no TOML (`C:\logs\x`). A broken line makes the whole file unreadable until
the level is written again, because `processLines` finds lines by their text and not by
parsing. `Multiline` texts go on beyond their line, and their further lines stay when a
later PATCH replaces the first: `Spills` lets them make of the rest of the file
anything in `Remains`, whatever that is, at each write. `text` remembers which of the
three happened. An `odd` line is one that TOML reads and `processLines` does not find
(`logLevel="INFO"`, or one below a comment that names it with the same spaces): the
setting is then written a second time, which TOML refuses. Keys that differ in case, which viper takes for the
same and TOML does not, are left out.

A value missing from the file is the default when the process starts (`Loaded`) and
viper's zero value when the file is reloaded (`Reloaded`). `torn` and `parted` record
two ways in which the code cannot keep its promises: something came between a writer
and the file (the process ended or the disk was full after the truncation, two PATCHes
overlapped, a user's mistake), or a PATCH failed after it had assigned the struct.
`odd` and `text` are the third: neither is a mistake of the user, and the properties
name each condition they depend on (section 5, items 11, 19 and 20). `level` stands for
`logPath` too, the other setting that PATCH writes as a text, which has no effect before
a restart.

### Migration

`db` is what is committed; `proc[p].tables` what the open transaction of `p` sees once
it has written, and `writer` the process that has written, which others wait for. The
two lists of migrations are translated entry by entry, each to the tables it `needs`,
`makes` and `drops`; `Executes` says when the entry succeeds. SQLite reads the version
before its transaction, Postgres inside it, but neither locks what it read, so the
entries applied may be those of a version that is no longer there. One process at a time writes.
That is coarser than Postgres where an entry is an `UPDATE`, which two processes may
both have done before each waits for the other; the database then ends one of them,
which `Exit` covers. An error rolls back
and ends the process (`log.Fatal`), which is the same as a crash (`Exit`). `FirstTables`
is inferred from the entries that alter and drop those tables.

### Logging and Server

`Server` extends `Logging`: goroutines log, and a log call is what connects them.

| Model | Code |
|---|---|
| `lines`, `writing[g]` | lines are numbered; `writing[g]` is the line with which goroutine `g` has come to `SSEWriter.Write` (`Call`), where it waits until `Publish` finds room. A writer before it that fails keeps the line from it (`io.MultiWriter`) |
| `queue`, `stream`, `sent` | the channel of the stream `logs`, what its goroutine is doing, and all lines it has taken, whose last `MaxEntries` are kept for replay (`main.go:48`) |
| `subscribers`, `page[c]` | the pages served; `conn` is the channel of the subscriber, `shown` what the page (`Logs.vue`) has added to its list, `from` the first line meant for it. A page that reconnects is a new page |
| `Drain` | the library keeps taking lines for a connection that is gone until the stream has deregistered it |
| `main`, `signal`, `database` | `main.go` from the logger on: `OpenDatabase`, `SpawnHTTP`, `Notify`, `Shutdown` (for all signals alike), `Close`, `Exit`; log calls in a row are one |
| `http` | `listen`, `log`, `serving`; `blocked` when `net.Listen` failed, as the error is sent to `errorChannel`, which nobody receives from |
| `request[h]` | any other request: `Arrive`, one `Query`, the line of `LoggerMiddleware` (health checks have none), `Answer` when that line is in the queue |
| `Signal`, `Crash`, `Ended` | a signal before `signal.Notify`, SIGKILL or a power failure end the process at once |

What requests do in detail is in the other modules; here they only need the database
once. The stream is a library outside the repository: one goroutine that takes one
event, registration or deregistration at a time and finishes it, waiting at each
subscriber's channel.

## 4. Runs

| Run | Configuration | Shows |
|---|---|---|
| `sync_content` | 2 devices, 1 key, 2 handlers, 3 etags | `TypeOK`, `NoLostUpdate`, `PutAnswersAreTrue`, `CopiesMoveForward`, `StaleStaysStale` |
| `sync_keys` | 2 devices with a key each, all credentials, 2 payloads, 2 etags, foreign keys on | `KeysAreSeparate`, `NoOrphanData`, `VersionsAreExact`; `ImplementsRegister` |
| `sync_orphan` | SQLite, 1 key | violation of `NoOrphanData` |
| `sync_empty_key` | SQLite, 2 keys, header and query | violation of `KeysAreSeparate` |
| `notifications` | 2 rows, 4 settings, 1 administrator, 1 event, failing statements and listings | `TypeOK`, `SendersMatchTable`, `CalmEventsReachTheirSenders`, `SentAtMostOnce`, `DeletedStayQuiet`, `EventsEnd` |
| `notification_admins` | 2 administrators | violation of `SendersMatchTable` |
| `web_auth` | 2 browsers, 2 requests, 1 name, 2 passwords | `TypeOK`, `OneAccount`, `OnboardAnswersAreTrue` |
| `web_auth_accounts` | 2 names | violation of `OneAccount` |
| `update_check` | 2 handlers, 3 releases, 2 toggles, 1 restart | `TypeOK`, `NotifiedOnce`, `ReleasesAreRecorded` |
| `config` | 2 PATCH handlers, 2 PATCHes, 4 bodies, 2 of them with texts that do not come back, 1 edit of 5, all failures | `TypeOK`, `FileStaysWhole`, `StructFollowsFile`, `PatchKeepsTheRest`, `LogFollowsFile` |
| `migration` | 3 processes, both databases, every version from 0 to one too many | `TypeOK`, `SchemaIsTrue`, `ServingHasItsSchema`, `StartsEnd` |
| `server` | 1 request, 1 page, queue and connection for 1 line each, 2 lines kept | `TypeOK`, `PagesFollowTheStream`, `RequestsFindTheDatabase`, `SignalsEndTheProcess`, `RequestsEnd`, `PagesGetEveryLine` |

### Bounds, and why they are enough

* Two devices and two handlers: every property of `SyncContent` relates one request
  to one other, and an abandoned handler plus a retry of one device already fills
  both. `MaxPuts = 3` lets a version be replaced, and the replacement replaced, which
  is what a version coming back needs. With foreign keys on or with several
  credentials two etags suffice: the properties there compare one write with one read.
* `MaxChanges = 3`: two rows are made and one is changed or deleted while the slice
  holds both. The system does not stop there, the model does: `CHECK_DEADLOCK FALSE`
  in the runs of `Notifications` is for the states in which the bound and all events
  are used up. One event is enough, since events share nothing but the slice they read.
* `MaxPatches = 2` and two handlers: PATCHes that overlap and PATCHes that follow each
  other while the reload lags. `MaxEvents = 2` lets a change come in while another is
  being reloaded and one more wait. One edit suffices for an edit to meet a PATCH at
  every step; two were tried as well. The five files of `SomeEdits` have both settings,
  neither, an `odd` line, a mistake, and a path that is escaped as TOML wants it; the
  texts are one of each kind: empty, known, no TOML (`"slash"`), and of several lines,
  which either break the file or are a table that takes in the settings below. Two
  PATCHes in a row are what it takes to write over a text that was not read back, or
  beside one that goes on.
* Three processes open the database: one that migrates, one that has read the version
  before, one that comes after. `CHECK_DEADLOCK FALSE` there is for the state in which
  every process has refused a later version, and so exited for good.
* One name suffices for `OneAccount` to hold and two for it to fail; the theorem
  `OneAccountPerName` shows the former for any number of browsers and requests.
* Release 1 is running, 2 and 4 are newer, 3 is a pre-release that counts as no news;
  two news are what it takes for an answer to be overtaken.

* In `server`, main, the HTTP server, a request and a leaving page log up to eight
  lines, so that with room for one in the queue (1024 in the library) and one in the
  connection (64) every wait there is happens: log calls for the queue, the stream for
  the page, the page for the stream. With two lines kept (1000 in the code) older ones
  are dropped before a page joins. `MaxJoins = 1` and one page: two pages and two joins
  pass as well (safety only, 3.5 million states), and `PagesInStep` is proved for any
  number. There is no limit to the number of processes in a row.

In `SyncContent`, requests, payloads and devices that share a key are symmetric; the
liveness and refinement runs use no symmetry of identities the property tells apart.

### Fairness

Five modules state liveness.

* `Notifications`: weak fairness of each goroutine's steps. The Go scheduler runs
  every runnable goroutine, and a send ends within the 30 seconds of its client.
  Handlers and restarts are not fair: nothing makes them happen.
* `UpdateCheck`: weak fairness of the start's goroutines, the cron tick and the
  recording, and strong fairness of `Answered`: GitHub does not fail for ever. The
  code sets no limit to a call, so that calls end at all is an assumption too.

* `Config`: weak fairness of the watcher's goroutine and of each PATCH handler that is
  running (`Continue`): neither waits for anything but a disk. The handler's is needed
  because `SetLogLevel` reads the struct again: a handler that had assigned it and
  never wrote would leave the log with a level that is not in the file. That PATCHes
  come, edits and ends of the process are not fair.
* `Migration`: strong fairness of a starting process's steps. Postgres grants a lock
  in turn, and SQLite sends away who has waited for a second, so that nobody waits for
  ever although the lock may be taken again and again.

* `Server`: weak fairness of main, the HTTP server's goroutine, requests and the
  stream, as the Go scheduler runs whoever can run; strong fairness of each log call,
  because senders waiting for a Go channel are served in turn. A page that is open
  reads on, and one that sleeps loses its connection in the end: the code sets no
  limit (`http.Server` without `WriteTimeout`, `internal/http/server.go:93`), but TCP
  gives up retransmitting. Signals and crashes are not fair.

## 5. Where the code disagrees with what it says

Shown by a run whose counterexample is a behaviour of the model:

1. `sync_orphan`: on SQLite, data outlives its key, as foreign keys are off although
   the schema declares the cascade (`internal/database/sqlite.go:44-49`).
2. `sync_empty_key`: a request authenticated by `?apikey=` uses the row of the empty
   key, which SQLite lets it create; keys then share it (`internal/http/sync.go:42,83`).
3. `notification_admins`: two changes at once leave the senders unlike the table
   (`internal/notification/service.go:70`).
4. `web_auth_accounts`: two onboardings with different names make two accounts
   (`internal/auth/service.go:75`).

Met while modelling, and part of the models, but without a run of their own because
each follows from a line or two:

5. A release first recorded by the start's check or by a visit to the web interface is
   never notified: `CheckUpdateAvailable` returns nothing for the release it already
   has, whoever recorded it, and only the job notifies (`internal/update/update.go:59`),
   although the interface says "Get notified of new updates."
   (`web/src/components/settings/ApplicationSettings.vue:136`).
6. A 412 is taken for another client's write (`internal/http/sync.go:104`), but may be
   due to a device's own write whose answer was lost.
7. An event whose goroutine starts while an unrelated notification is changed may find
   the slice empty and reach nobody (`internal/notification/service.go:70,140`);
   `CalmEventsReachTheirSenders` therefore speaks of undisturbed events.
8. A deletion that failed is answered 204 (`internal/http/notification.go:101`), so
   `DeletedStayQuiet` speaks of deletions that were done.
9. Logging out stores `authenticated = false`, which onboarding takes for a session
   that is logged in (`internal/http/auth.go:112`).
10. Checks switched on after the start never happen, because the switch is read once
    (`internal/scheduler/service.go:62`); `ReleasesAreRecorded` supposes a switch that
    stays on.

11. Two PATCHes of the configuration at once may leave a file without the session's
    secret and the database, or one that does not parse (`internal/config/config.go:336`);
    so may a process that ends between truncation and writing (`:345`).
12. A PATCH that begins while the reload of an earlier one is due may be answered 204
    and not be in the file, which then has the old or even an empty value
    (`internal/config/config.go:313`); `PatchKeepsTheRest` is therefore about PATCHes
    that begin when all is quiet.
13. A setting that is missing from the file has its default after a start and is empty
    after a reload (`internal/config/config.go:314,321`). The template calls "DEBUG" the
    default level, `defaults()` has "TRACE" (`:100,251`).
14. A PATCH that fails has changed the running configuration all the same
    (`internal/http/config.go:72-84`).
15. While one page with the log open sleeps and stays connected, its connection, the
    stream and the queue fill up, and then every request and the shutdown wait with
    their log call (`internal/logger/sse_writer.go:100`). They go on when the page's
    connection breaks (`RequestsEnd`, `SignalsEndTheProcess`).
16. When the HTTP server cannot listen, the process does not end: its error is sent to
    a channel that nobody reads (`main.go:112`).
17. An unknown log level is tested to disable the log ("unknown disables",
    `internal/logger/logger_test.go:20`), but sets only a field that nothing reads; the
    global level stays as it was (`internal/logger/logger.go:101`).
18. `SanitizeLogFile` reports success without a file when the copy could not be
    written: an inner `err` hides the outer one (`internal/http/logs.go:108-115`).
19. `OpenAPI.yaml:694-697` has `log_level` and `log_path` as strings, any strings, but a
    text such as `C:\logs\x` is written between quotes as it is and leaves a
    `config.toml` that does not parse, with status 204
    (`internal/config/config.go:367,374,394,405`); the next start then has the defaults
    for every setting. The web interface sends levels from a list and no path, but a
    path already in the file, escaped as TOML wants it, is written back unescaped by any
    PATCH. A text with a quote and a newline may add or take away other settings, and no
    later PATCH removes its further lines. Without the conditions on `text` and `Plain`,
    TLC finds both `FileStaysWhole` and `PatchKeepsTheRest` violated by the first PATCH.
20. "append missing vars to bottom" (`internal/config/config.go:380`) appends settings
    that are not missing, when their line has no space before the `=` or a comment above
    names them; the file then has the key twice and does not parse. Without the
    condition on `odd` TLC shows this too.

## 6. Proofs

All theorems hold for arbitrary constants under the `ConstantsAssumption` of their
module, which TLC evaluates in every run. Where a theorem
needs a hypothesis besides (one name, foreign keys, one handler), it states it, and
below is said why. Every safety property of a passing run is stated by a theorem; the
bounds of the runs (`MaxPuts`, `MaxPatches`, ...) are arbitrary numbers there.

* **`SyncContentProofs`**. The properties are not inductive: that a write is not lost
  needs to know that an etag is in one row at most, that one drawn for a pending
  `INSERT` is in no version yet, and that what a request carries was a version.
  `Inv` collects this as `StateOK` (types, etags within `1..minted`), `RequestsOK`
  (what a handler at each `pc` has established, among it that a drawn etag is not in
  use and that two handlers never hold the same), `HistoryOK` (one version per etag,
  one successor per version, and the stored version is one without successor) and
  `HoldersOK` (what devices and answers hold are versions). Steps fall into three
  lemmas: `QuietStep` (no row changes), `WriteStep` (a row takes a fresh etag) and
  `KeysStep`; each action is shown to be one of them. From `Invariance` follow
  `TypeCorrect`, `EtagsNameContents` (`VersionsAreExact`), `UpdatesAreNotLost`
  (`NoLostUpdate`), `AnswersAreTrue` (`PutAnswersAreTrue`) and, as an action property
  through `RowsTakeFreshVersions`, `NoABA` (`StaleStaysStale`).

  A second invariant, `KeysOK`, says which row everything belongs to: a request works
  on the row its credential names, a version answered is one of that row, and under
  foreign keys only rows of live keys hold data. From it follow `DataGoesWithItsKey`
  (`NoOrphanData`), which supposes `ForeignKeys`, and `KeysStaySeparate`
  (`KeysAreSeparate`), which supposes `ForeignKeys` or that every request names its key
  in the header; the runs `sync_orphan` and `sync_empty_key` show that both fail
  otherwise.

  `OrderOK` adds the order of versions: none of a row is later than the one stored, an
  answer on its way to a device is not older than what the device holds, and a device
  waits for one answer at a time. From it follows `DevicesMoveForward`
  (`CopiesMoveForward`). It supposes `OneRowEach`: requests all use the header, or none
  does. A device that sent its key now in the header and now in the query would be
  answered from two rows in turn, between whose versions there is no order.
* **`SyncContentRefinement`**. `RegisterImplemented`: under the mapping at the end of
  `SyncContent` the initial state is one of `SyncRegister`, and each step is a step of
  it or hidden. A read takes effect at the query whose result decides the answer, a
  write at its effective statement.
* **`WebAuthProofs`**. `Inv` adds to the types that names are distinct and that an
  onboarding answered 204 is in the table; hence `TypeCorrect`,
  `OnboardingIsExclusive` and `OneAccountPerName`.
* **`UpdateCheckProofs`**. `TypeCorrect`: with the types, that only news (newer than
  what runs, and no pre-release) is recorded and notified. `NoticesAreOnce`: releases reach the job in growing order
  and none above the latest published, so what the job notifies grows strictly. The
  invariant states this of the history and of the answer under way.
* **`MigrationProofs`**. The two lists enter by facts about each entry (`Entries`,
  `SqliteMakes`, `PostgresMakes`): it makes nothing that it drops, the last alone drops
  anything, and in the tables of this release an entry fails, or only makes and touches
  the lock table, or is the last. From them follow `EntryUpgrades` (an entry takes the
  tables of its version to those of the next), `CurrentTables` (a new installation has
  the tables that an upgraded one has) and `OvertakenStep` (entries chosen by a version
  that is no longer there fail or do no harm). `Inv` says of a process that applies
  entries that it sees the tables of the entry it has come to, or has been overtaken
  (`ApplyOK`), and of one that has not written on Postgres that the version it read is
  not 0, since the version's table was there (`ProcOK`).
  Results: `TypeCorrect`, `SchemaStaysTrue` (`SchemaIsTrue`) and `ServingIsCurrent`
  (`ServingHasItsSchema`).

* **`ServerProofs`**. That a page's lines follow the stream is not inductive: it needs
  to know how far the stream's goroutine has got with each subscriber. `Due` gives the
  place of the line a subscriber is to be given next, by what the stream is doing
  (sending a line around, replaying to the newcomer, or neither) and by the
  subscriber's place in the list; `PagesOK` says that each has been given all lines
  from its first up to there (`Follows`), and `SubscribersOK` that nobody is in the
  list twice. A removed subscriber moves those behind it up, which is harmless because
  nobody is removed while a line goes around. `DatabaseInv` orders main, server and
  database. Results: `TypeCorrect`, `PagesInStep` (`PagesFollowTheStream`) and
  `DatabaseFound` (`RequestsFindTheDatabase`).

* **`ConfigProofs`**. `TypeInv` adds to the types that a handler goes on only with a
  file it could read and that nobody is at work before the server serves.
  `TheFileStaysWhole` (`FileStaysWhole`) needs to know what is about to be written, so
  `WholeOK` says: unless something came between (`torn`), at most one handler is at
  work, the lines it holds are whole, and the file it has opened is still empty, so that
  nothing of an older text remains behind what it writes. `Whole` speaks of any text
  that was PATCHed: the other lines parse and are there, and the level's does too if it
  was written as TOML has it; only of files with an odd line or a text that went on it
  says nothing, and no PATCH makes one of these whole again. `ReadBack` is an arbitrary
  function and `Multiline` an arbitrary set, save that the known levels and the empty
  text are `Plain`. `TheStructFollowsTheFile`
  (`StructFollowsFile`) needs it for each place of the watcher: `FollowsOK` says that
  with no change waiting viper has what the file says, and that the struct has what the
  watcher has assigned so far, unless a handler is `Ahead` of the file. Both may assign
  the struct in any order, because who is ahead will write, and whoever writes makes a
  change that the watcher still has to take up. `APatchKeepsTheRest`
  (`PatchKeepsTheRest`) is an action property about the last step of a PATCH:
  `AloneInv` says of one that began when all was quiet and met nobody how its struct,
  lines and file relate, at each place, to those it found at its start and to what it
  was asked. Under `Sound`, that the file was one `processLines` understands and the
  level to be written is `Plain`, every struct on the way has a plain level
  (`LevelIsSaid`), and `processLines` then leaves the rest alone (`PlainIsProcessed`).
  Neither half of `Sound` can go (section 5, items 19 and 20).
* **`NotificationsProofs`**. `TypeCorrect` holds for any number of handlers. The other
  four suppose `OneAdmin`, that one handler at a time changes notifications, as a
  single user of the web interface does; with two, the run `notification_admins` shows
  a slice unlike the table, and TLC finds all four properties violated. `SendersOK`
  says that while a handler refills the slice, what is in it and what is still to be
  appended are disjoint and together the senders of the table (`Filling`); it gives
  `SendersFollowTheTable` (`SendersMatchTable`). Events take a copy of the slice at any
  moment, so `EventsOK` carries over what they need: no sender is twice in what is left
  and what was sent (`NoneTwice`); for a calm event, the takers among both are those of
  the table it was reported with (`CalmOK`); the rows deleted before it are in neither,
  because deleted rows are neither in the table nor in the slice (`Hushed`, `GoneOK`).
  Torn reads of the slice give a shorter range, a prefix, which keeps all of this.
  Hence `CalmEventsAreSent` (`CalmEventsReachTheirSenders`), `NothingIsSentTwice`
  (`SentAtMostOnce`) and `TheDeletedStayQuiet` (`DeletedStayQuiet`). The assumptions
  that `Ids` is finite and `Kinds` not empty are those of the code: row ids are 64-bit
  integers, and the kinds of events are a fixed list
  (`internal/domain/notification.go`).

Only model-checked is liveness (`EventsEnd`, `ReleasesAreRecorded`, `LogFollowsFile`,
`StartsEnd`, `SignalsEndTheProcess`, `RequestsEnd`, `PagesGetEveryLine`), which is
outside the prover's reach, as is `ENABLED`. Not proved either are the violations that
four runs show: each is a behaviour, for which the instance TLC found is enough.

## 7. Not modelled, and what comes next

Not modelled: the listing and download of log files (reads, and a copy per request),
how a log line looks, the event bus (nothing publishes on it), hashing, error wrapping,
the web pages, the wording of messages, an empty body (which a driver may read back as
no body, `internal/http/sync.go:68`), and the cache of API keys, which nothing fills.
Planned, in this order:

1. Proofs of what the liveness properties rest on, as safety: that a step of the
   handler, goroutine or process which fairness names brings it nearer to its end.
2. Log files: rotation between the listing and the download.
