# IsItSQL: specifications, model checks and proofs

IsItSQL is a Windows service, written in Go, that polls SQL Servers and shows
what it finds on web pages. This directory holds TLA+ modules that model how its
goroutines share state, the TLC configurations that check them on small
instances, and TLAPS proofs of what matters most. Line numbers below are those of
the repository. Contents:

1. the system, its components and its hard behaviours
2. what is modelled: modules, state, actions
3. the runs, their bounds and their fairness
4. the findings
5. the proofs
6. not modelled

## 1. The system

### Components

| component | code | state it keeps | operations |
|---|---|---|---|
| server list | `app/sql_serverlist.go`, `app/sql_funcs.go` | `ServerList`: an RWMutex, `Servers` (key to `*SqlServerWrapper`), `SortedKeys` | `AddFromSettings`, `UpdateFromSettings`, `Delete`, `SortKeys`, `Keys`, `Pointers`, `CloneOne`, `CloneAll`, `GetDB` |
| server wrapper | `app/sql_structure.go` | one RWMutex, the `SqlServer` record, the connection pool, a stop channel of capacity one | set by the list and the poller, cloned by the pages |
| tags | `app/tags.go` | `globalTagList`: tag to the set of its server keys | `mapTags` builds a new map and stores it |
| reload (FILE mode) | `app/sqlmon.go` `watchHCLFiles`, `PushC2Servers`, `internal/c2` | none of its own | once a minute: if the files changed, delete, update and add |
| settings pages (GUI mode) | `app/webserver_settings.go`, `internal/settings` | `connections.json` | add, edit, delete a server or a credential |
| batch ticker | `app/sqlmon.go` `launchBatchUpdates` | none | every 15 s `SortKeys` and `mapTags` |
| poller | `app/sql_poll_new.go`, `app/sql_polling*.go` | the wrapper's fields, `Metrics`, `LastWaits`, `Databases` ... | one goroutine per server: `newpoll` at start, after a nap and every 10 s |
| poll cache | `app/svc_cache.go` | `cache/server.<key>.json` | written after a big poll, read when a server is added |
| WaitBox | `internal/dwaits/box.go` | sessions seen last, waits collected so far | one goroutine per server: polls every second, emits every minute |
| wait repository | `internal/dwaits/repository.go`, `internal/waitring`, `internal/bucket` | a ring per server, ndjson files | `Write`, `ReadHistory`, `Last`, `Values` |
| wait files | `internal/waitmap` | ndjson files of ten minutes | `WriteWaitFile`, `ReadWaitFiles`, purge |
| rings | `internal/cpuring`, `internal/metricvaluering`, `internal/appringlog`, `internal/logring`, `app/ring_waits.go` | a buffer, head and tail | `Enqueue`, `Dequeue`, `Values`, `extend` |
| availability groups | `internal/hadr` | `PublicAGMap`: group to its state, display names | `Set`, `SetLatencies` by the poller of a group's primary, `Groups` by pages |
| group backups | `internal/backup`, `app/sql_backups.go` | newest full and log backup of a database over all replicas | merged by the pollers, read by the alert rule |
| settings file | `internal/settings` | `connections.json`: servers and credentials, their secrets encrypted | `ReadConnections`, `Save`, and the operations that read, change and save |
| metric repository | `internal/mrepo` | the last error | written by every poller |
| web pages and API | `app/webserver*.go` | none (login session in a library) | render clones |

### Interactions

Pages and the reload call the list's operations; `AddFromSettings` launches a
poller and a WaitBox, `Delete` tells both to end: the poller over the stop
channel, the box by cancelling its context. All of them read the wrapper's record
through clones. Poller and list share the wrapper's lock; list operations, tags
and pages share the list's lock. A poller reads its cache file in the process
that follows the one that wrote it.

### Hard behaviours, and the properties that make a component correct

* *Server list.* Every operation is several critical sections, and `SortKeys` and
  `mapTags`, which each operation ends with, look at the list up to three times.
  Correct means: what is registered is polled, under its own key; what was deleted
  is not polled any more; the pages' keys and tags follow the list; after a reload
  the list has the files' servers under the files' names.
* *Poller.* A poll can fail at each of some forty queries, SQL Server can restart,
  and so can IsItSQL. Correct means: an accumulated counter is never compared with
  one of another instance; a failed poll does not block the next; after an outage
  polling recovers; a poller that is told to stop stops.
* *WaitBox.* It samples once a second what began and ended in between, and may lose
  the server, its identity or itself. Correct means: no millisecond of a wait is
  counted twice, none of another instance, and what it could see is counted.
* *Wait repository.* A crash can come between the ring and the file, in the middle of
  a line or of a rollover. Correct means: the last hour is there after a restart, and
  what pages draw is in order.
* *Rings.* A ring holds the last values in order, and a clone's reader sees values.
* *Groups.* Several pollers set one group while it fails over. Correct means: the
  pages settle on the primary, and a group that is gone goes.
* *Backups.* Replicas report in any order and polls fail half way. Correct means: an
  alert is withdrawn for a backup only, and a backup on any node counts.
* *Settings.* Read, change and save are three steps, and the list is told afterwards.
  Correct means: secrets are encrypted once, servers have their credentials, the list
  follows the file, and half a file is not taken for a whole one.
* *Locks.* Every lock is released on every path.

`PROJECT.json` lists the hazards at their lines with the properties that cover
them.

## 2. What is modelled

### `ServerList.tla`

The server list with everything that runs on it, one action per critical section
of the list's lock. Its state:

| variable | code |
|---|---|
| `servers`, `sortedKeys` | `list.Servers`, `list.SortedKeys` (its set of keys, and how many entries were left `""`) |
| `tags` | `globalTagList.Tags` as pairs of a tag and a key |
| `leaked` | a `RLock` of the list that no goroutine will release |
| `keyOf`, `name`, `conn` | a wrapper's `MapKey`, its displayed settings, its connection string |
| `poller`, `stop`, `box` | a wrapper's `PollRoutine`, the buffer of its stop channel, its WaitBox |
| `pc`, `op`, `arg`, `conf`, `inst` | a goroutine's place, the list operation it is in, its arguments and its local `s` |
| `snap`, `blanks`, `found` | the locals of `SortKeys`, `mapTags` and `tagPage` |
| `config`, `todo` | the locals of `PushC2Servers` |

Operations and their actions: `SortKeys` is `SortSnapshot`, `SortLen`,
`SortStore`; `mapTags` is `TagKeys`, one `TagScan` per server, `TagStore`;
`Delete` is `DeleteLookup`, `DeleteRemove`, the two above, `SendStop`, `StopBox`;
`UpdateFromSettings` is `UpdateLookup`, `UpdateFields`, `UpdateConnString`, the two
above; `AddFromSettings` is `AddBuild`, `AddPublish`, the two above, `AddLaunch`,
`AddStartBox`; `PushC2Servers` is `ReloadBegin`, `ReloadDelete`, `ReloadDeleted`,
`ReloadApply`, `ReloadEnd` around them. The requests are `AddRequest`,
`EditRequest`, `DeleteRequest`, `TagPageLookup` with `TagPageCopy`; `PollStop`,
`BoxUp` and `BoxExit` are the goroutines of a server.

A panic (an index out of range in `SortLen`, a nil pointer or function in
`StopBox`, a nil wrapper in `TagPageCopy`) ends the operation where it is. A
request's panic is recovered by the middleware; the watcher's and the batch
ticker's goroutines have `defer failure.HandlePanic()` outside their loops, so a
panic ends them ("dead").

Assumptions and abstractions:

* A mode is fixed (`ModeAssumption`): in FILE mode the settings pages refuse to
  save (`EnableSave`, `webserver_settings.go:654, 876, 1011`), in GUI mode nothing
  watches files.
* FQDN, friendly name, tags and the backup flags of a server are one value, its
  name: every one of them is compared by `UpdateFromSettings` to decide whether
  the entry is dirty. The credential, which is not, is the login. Logins outside
  `GoodLogins` make `ConnectionString()` fail.
* `Settled`: a reload (once a minute) or a delete (of a server a page showed) does
  not meet a server within the milliseconds in which its WaitBox starts. Without
  this `StopBox` calls a nil function; the hazard list names it.
* The lock of a wrapper is held for assignments only and is left out, except for the
  one path that keeps it, which is in `Poll` (`leaked`).
* The name "up" of a box covers one that gave up on an old version of SQL Server.

### `Poll.tla`

One server's `PollRoutine`, its polls query by query, its cache file, and the SQL
Server behind the name. `pc` is where the goroutine is; `isPolling`, `reset`,
`known`, `due`, `lastError` are `IsPolling`, `ResetOnThisPoll`, the server name
with its start time, the age of `LastBigPoll` and `LastPollError`; `last` is, per
accumulator, the instance its newest sample is of, and `mixed` the accumulators
whose newest recorded value was computed from samples of two instances; `clean` is
a history variable. `BeginPoll` to `Done` follow `newpoll` and `getAllMetrics`;
`GetIP` and `StoreIP` are the two halves of `getIP`, and `leaked` is a read lock of the
wrapper that a call returned without releasing; `WriteCache`, `Crash`, `Start` are the
cache across a restart; `ReceiveStop` is the select of `PollRoutine`; `Switch`, `Outage` and `Age` are the environment.

Abstractions: queries whose failure leaves the same behind are one step; counters
are left out (whether two samples are of one instance is what matters, and a
difference is taken or not); the accumulators are the Metrics, then the waits, then
the disks', of which only a Metric that fails is set to zero; a poll cut short by
`longPollThreshold` ends like a failed one; SQL Server changes between polls, not inside one (a change inside is
invisible to that poll whatever it does); a cache file is used or is too old,
nondeterministically; a panic inside a poll is not modelled. A poll that fails in
`GetServerMemory`, `PollOS` or `GetCPU2` (`sql_polling.go:126-158`) leaves every sample as
it was, where the model's failure sets the Metric's to zero; a query that returns no row
(`sql.ErrNoRows`, `sql_polling_metrics.go:75`) is left out.

### `Ring.tla`, `MetricRing.tla`, and what they promise: `Window.tla`

`Ring` has the operators of the ring buffer of `internal/metricvaluering`, which
`cpuring`, `appringlog` and `ring_waits.go` repeat: `Written` and `Advanced` are
`Enqueue`, `Values` is `Values`. A ring is a struct, so a copy has a head and a
tail of its own and shares the array; array and header are separate values.

`MetricRing` is one Metric of one server with everyone who uses it:

| variable | code |
|---|---|
| `stored`, `buff` | the head and tail of `s.Metrics[metric].V2`, and its array |
| `copy`, `pc` | the poller's copy (`v` of `GetMetric`, the server of `GetCachedServer`) and place |
| `cache` | the values of the Metric in the server's cache file |
| `page` | per web request: its copy of the header, whether it holds the server's read lock, what it read |
| `published`, and of a page `seen` and `stale` | history: what the ring held when it was stored and when the page took it, and how many entries were written since |

`GetMetric` is `GetCopy`, one `Fill` per entry of a new Metric, then `QueryFails`
(which enqueues under the lock) or `QuerySucceeds` (which enqueues without it) and
`Store`. `WriteCache`, `Start`, `Load` and `Register` are the cache file across a
restart. `ApiDisk` and `ApiCpu` open a page with and without keeping the lock,
`Read` is one round of the loop of `Values`, `Respond` releases the lock and ends the request.

`Window` is the abstract specification: the newest values, in order; a `Push` per
enqueue, a `Save` and a `Restart`. The refinement mapping `Window` of `MetricRing`
is what the poller's copy shows while it is inside `GetMetric`, the file while it
is read, and the stored ring otherwise; with it a `Push` takes effect when the
array is written, and `Fill` is one too, since a new Metric is filled with
unpolled minutes.

Abstractions: a value is a model value; an absent Metric is the empty ring, since
one in the map never is; no file, or an empty one, is `<<>>`; `METRIC_ARRAY_SIZE`,
which the fill loop counts to, is the capacity, both are 60; a page opened while
there is no Metric draws nothing. An assignment of one array entry, a pointer, is
indivisible.

### `WaitBox.tla`

One `Box` of `internal/dwaits` and the sessions of its server. `first`, `identity`
(domain, server and booted), `requests`, `statement`, `err` and `Waits` are its
fields, `pc` is where its goroutine is. `SetUp` is `setup` with the loop of `Start`
that repeats it; `PollSucceeds` and `PollFails` are `pollWaitsWrapper`, both under
`b.mu` and so one step each; `Emit` is `emitWaits`; `Resets` and `Amount` are the two
decisions of `pollwaits`. SQL Server is the environment: requests begin, go from one
wait to the next and end (`BeginRequest`, `NextWait`, `Elapse`, `EndRequest`), it
restarts or fails over (`Switch`), queries fail (`Outage`). `met`, `base`, `paid` and
`whole` are history: since when the box has seen the instance, what a wait had lasted
then, what was added of it, and which waits began under the box's eyes.

Abstractions: the mapping that merges and excludes wait types is two sets, `Kept` and
`Hidden`; a request's start time is unique in its session; a session has one request at a time
(under MARS it may have several, and `box.go:409` keeps one row per session, since the
filter of line 432 is commented out); the box's end is in `ServerList`. A poll that returns no rows sets the identity to that of nobody, so the
next one with rows resets once more: waits in between are lost, which the properties
allow and `RowsIdentity` shows.

### `WaitStore.tla`

The repository behind the boxes: `rings` are the rings of `internal/waitring` (an
array and the count `p` that is taken modulo its length), `files`, `open` and `torn`
the files of the bucket writer. `WriteRing` and `WriteFile` (or `WriteFileFails`) are
`Repository.Write` and the `BucketWriter.Write` in it, with rollover and purge;
`Start` is `NewRepository` with `ReadHistory`; `Crash` may come between or, through
`torn`, inside a line. `durable` is history: the emissions that reached a good disk.
`Recent`, `LinesOf` and `Purged` are the loops that skip lines and files (`Chosen`),
`AllLines` is the reader's loop over the files, `Filled` the one over the waits that
fills a ring: each is a function of how many elements it has been through.

Abstractions: times are ages in minutes, cut off where the code no longer tells them
apart; an emission is its key and age; file names do not collide (the code names a
file by its second, `writer.go:161`); a start that is cut short has read whole files (the
30 seconds of `repository.go:71` can end inside one); a write takes less than a minute; `p` is kept
below twice the capacity.

### `Settings.tla`

`connections.json` (`file`), the list of polled servers as far as it comes from there
(`list`) and the requests in progress (`pc`, `op`, `key`, `form`, and `conn`, the
`Connections` a request read). A request is `Begin` (the form and what the page reads
for it), `Read` (`ReadConnections` and the checks, `Refused`), for the deletion of a
credential `IsUsed`, `Save`, and for servers `UpdateList`. `Start` is
`setupConnectionsAsync`, `Crash` ends the process. `Save` and `Start` may fail and may
leave half a file (`TORN`). Three variables are history, of the time since the last
start: `overlapped`, two requests were in progress at once; `startable`, the start
could add every server of the file; `edited`, the servers whose last request was an
edit. `unchecked`, in the file, is history too: servers saved with a credential nobody
had looked for.

Abstractions: a secret is the number of times it was encrypted; a server's address,
name and tags are its description; requests that end because a field is empty or a
name is taken change nothing and are left out; keys are UUIDs, never used twice; the
CSV import and the creation of a missing file are left out.

Two requests that overlap can lose a change: the second save is of what it read. The
code says nothing against it, so no property does; `CredentialsExist` and
`ServerSecrets` say what holds all the same.

### `Groups.tla`

`groups` is the map of `internal/hadr` (a group's `source` is the server that set it,
`age` the minutes since its `PollTime`, `latencies` whose they are); `pc`, `left` and
`age` are the place of each server's `pollAG`: the query of `GetAGList`, one `Set` per
group, the query of `SetLatency`, one `SetLatencies` per group. `primary` is what SQL
Server would answer and changes at any moment (`Failover`); `quiet` counts the minutes
since something failed over, failed, or took more than a minute. Abstractions: the
other fields of a group and its display name are left out; a poller polls at least
once a minute unless it fails or is slow, and being slow counts as a failure;
the rows of a query come all or not at all (the code does not look at `rows.Err()`,
`hadr.go:158-185, 238`, so it takes a result that was cut short for a whole one).

### `Backups.tla`

One database of an availability group: `history` is what each replica's msdb holds,
`backups` the map of `internal/backup`, `rows` what a poller's query returned and it
has not recorded, `now` the `CurrentTime` of its poll, `message` and `alert` what the
backup page uses. Backups of a kind are numbers in the order of their starts, and
`overdue` says up to which number they are older than the threshold. A poll is
`GetServerInfo`, then `NotDue`, `SetBackups` with one `Set` per row, `TooManyRows` or
`PollBackupsFails`, then `GetDatabases` with the alert rule; `Restart` forgets the map
and takes the alert from the cache. Abstractions: the clocks of the replicas agree
(the code compares local times, also of replicas in different time zones); the
database needs every kind in `Kinds`; it is not dropped and created again, which would
keep its old entry (`backup.Delete` has no caller); group names differ (the key of the
map has no domain); a row that cannot be scanned (`sql_backups.go:232-235`) ends a poll
after the rows before it were recorded, which is here `SetBackups` cut short and a later
failure of the same poll.

### How they compose

`ServerList` sees a poller only as something that takes a stop between two polls
(`PollStop`, weakly fair). `Poll` is that poller, and its property `Stops` is what
justifies the fairness of `PollStop`; run `dns_failure` shows the one case in which it
does not. `MetricRing` is inside one metric of the polls of `Poll`: its `QueryFails`
and `QuerySucceeds` are the outcomes of a query there, and its cache file is `Poll`'s.
`MetricRing` EXTENDS `Ring` and implements an instance of `Window`. The box that
`ServerList` starts, sets up and cancels is `WaitBox`; its `Emit` is `WaitStore`'s
`WriteRing`, at most once a minute and key. `Settings` ends each request with what the
operations of `ServerList` do to one entry, in one step; their interleavings are
`ServerList`'s, whose `GoodLogins` are `Settings`' `CanConnect`. `Groups` and `Backups`
are steps of the big polls of `Poll` (in `Rest`), seen from the maps that the pollers
of several servers share.

`MCServerList`, `MCSettings`, `MCGroups` and `MCBackups` hold the symmetry and the
constants that are functions; the other modules are run as they are.

## 3. The runs

| run | specification | checks | distinct states |
|---|---|---|---|
| `file_mode` | `FairSpec`, watcher and batch ticker, 2 keys, 2 wrappers, 3 configurations (empty, one server, that server renamed with a missing credential next to another) | `TypeOK` `DeletedIsStopped` `ReloadApplied` `Settles` | 532,126 |
| `gui_mode` | `Spec`, an editor, a viewer and the batch ticker, 2 keys, 2 wrappers, 2 names | `RegisteredIsPolled` `DeletedIsStopped` | 678,003 (with symmetry) |
| `poll` | `FairSpec`, 2 instances, one Metric, the waits and the disks | `TypeOK` `CleanDeltasWithinInstance` `NeverSkips` `Recovers` `Stops` | 604,020 |
| `ring` | `Spec`, capacity 3, one reading and the unpolled value, one page | `TypeOK` `OnlyOldestReplaced` `LockLimitsDamage` `IsWindow` | 361,922 |
| `wait_box` | `FairSpec`, one session, 2 instances, 2 start times, 3 wait types, waits of up to 2 ms | `TypeOK` `NeverTwice` `WholeWaitsCounted` `Recovers` | 64,744 |
| `wait_store` | `Spec`, one key, rings of 3, files of 2 minutes, an hour of 3, kept for 5 | `TypeOK` `HourRestored` `InOrder` `RingCoversHour` | 396,038 |
| `settings` | `Spec`, 2 requests at a time, one server, one credential, 2 descriptions | `TypeOK` `ServerSecrets` `CredentialsExist` `ListFollowsFile` `TornKept` | 691,288 (with symmetry) |
| `groups` | `Spec`, 2 groups, 2 servers, healthy for 3 minutes, removed after 5 | `TypeOK` `ShownAtPrimary` `GoneExpire` `LatenciesOfPrimary` | 2,278,107 (with symmetry) |
| `backups` | `FairSpec`, 2 replicas, 2 full backups on either, one log backup on the first | `TypeOK` `OnlyTrueAllClear` `AnyNodeCounts` | 430,368 |
| `concurrent_deletes` | two editors | `DeletedIsStopped` is violated | |
| `dns_failure` | `poll` with `LookupMayFail` | `Stops` is violated | |
| `credential_edit` | as `settings` | `CredentialSecrets` is violated | |

What the properties say:

* `DeletedIsStopped`: no operation in progress refers to a wrapper that is not in
  the list: then its poller has ended or finds a stop, and its box is cancelled.
  `Delete` gets there in nine steps between which batch ticks, pages and panics
  happen.
* `RegisteredIsPolled`: a registered wrapper carries its key, has no stop waiting,
  and its poller runs or is about to be launched by the `AddFromSettings` that
  registered it.
* `ReloadApplied`: at the end of a reload, after any history of reloads and failed
  entries, the list holds servers of the files only, all of them whose connection string
  can be made, each under the name the files give it. It claims nothing of `conn`: a
  changed credential alone is dropped, and a connection string that could not be made is
  not tried again (section 4), so `conn` may be older than the files.
* `Settles`: stale results of overlapping `SortKeys` and `mapTags`, which do get
  stored, are repaired once the configuration rests.
* `CleanDeltasWithinInstance`, `NeverSkips`, `Recovers`, `Stops`: the poller's
  properties of section 1. `clean` says that no query failed and IsItSQL did not
  restart: after a poll that failed, or was quick, and had seen a restart of SQL Server,
  `newpoll` has cleared `ResetOnThisPoll` (`sql_poll_new.go:108`) before any
  accumulator used it, and a difference across the restart can be recorded.
* `IsWindow`: whatever the poller, the pages, the cache file and restarts do, the
  ring implements `Window`: no value is lost, repeated or out of order.
* `OnlyOldestReplaced`: a page draws as many entries as there were, and when n
  values were enqueued since it took its copy, only its n first entries can differ
  from what the ring held then. `LockLimitsDamage`: with the read lock held, only
  the first one. `TypeOK` includes that no page reads a nil entry, which it would
  dereference.

* `NeverTwice`, `WholeWaitsCounted`: what a box added of a wait never exceeds what the
  wait lasted since the box first saw its instance, through outages (after which the
  old requests are compared with the new), switches and new boxes; and it is exactly
  what the last poll saw of a wait that began after the box had polled the instance.
  `Recovers`: the error goes and a statement is prepared again, whichever poll failed
  first.
* `HourRestored`: at any moment, what a start would read is exactly the last hour of
  emissions that reached a good disk, in order. `InOrder`: a ring, also one filled from
  files and then written, is in the order of time with no minute twice.
  `RingCoversHour`: a ring lacks nothing of the hour that is on the disk once a start
  could read all of it, also when it has wrapped around.
* `ServerSecrets`, `CredentialsExist`: what is in the file however requests overlap,
  fail and are interrupted. `ListFollowsFile`: if requests come one at a time, then
  between two of them, also after failed saves and a crash between the save and the
  update of the list, a server that is polled is in the file under its description; as
  long as it was not edited, with its login and password; and all servers of the file are
  polled if the start could add them all. It claims neither the login of an edited server
  nor, after a start that stopped at a server without its credential, that the others
  are polled: the code gives neither. `TornKept`: half a
  file is never replaced by one that was made without its contents.
* `ShownAtPrimary`, `LatenciesOfPrimary`, `GoneExpire`: the map lags behind SQL Server,
  a slow poll may put the old primary back, and a group nobody polls is removed by
  somebody else's `Set`: the properties say after how many quiet minutes the pages are
  right all the same. Four is what a poll in progress, its successor and the pause
  between two polls add up to.
* `OnlyTrueAllClear`: whatever was lost or failed before, a poll clears an alert only
  if some replica has a backup of every kind younger than the threshold.
  `AnyNodeCounts`: unless polls fail for ever, every server's page comes to show an
  alert exactly if some kind of backup is overdue on all replicas.

Bounds. Two keys are what a length mismatch, an overwritten snapshot and a deleted
tag page entry need; two wrappers are enough because a wrapper nobody refers to is
collected and may be built again (`Free`), so a key is deleted and re-added any
number of times. Two instances of SQL Server alternate any number of times; three
accumulators show a reset before, in and after the failing query, and the last two's
different handling of a failed query. A ring of three is the smallest with an
entry that is neither the oldest nor the newest; one reading and the unpolled value
tell two neighbours apart; pages do not affect each other or, except through the
lock, the poller, so one is enough. `stale` stops counting at the capacity, from
where on `OnlyOldestReplaced` says nothing of values. The sessions of a box do not
affect each other except in the sum; two start times alternate, and waits of two
milliseconds (`MaxMs`, `MaxWaits`: the wait in a second and in the next) show a
duration that fell, stayed or grew. The keys of the repository share files only: one
key, with more files than an hour needs (`MaxFiles` bounds the restarts), wraps the
ring and rolls and purges files; two keys were checked once with `MaxFiles = 2` and an
hour of two minutes (6.9 million states). Two requests on one server and one credential
are what an overlap needs, and `MaxDepth = 2` is the first wrong depth; two servers and
two credentials, where a start stops before or after the other server, were checked once
with one request at a time (1.8 million states). Two pollers and
two groups overtake each other; `Quiet` stops the count of minutes where the last
property is decided. Two full backups (`MaxBackups`) are an older and a newer one, in
either order of their reports, and the log backup shows the other kind.

Deadlock. The server list may stop: nobody has to send requests, and a leaked lock
blocks for ever; its runs say `CHECK_DEADLOCK FALSE`. The other runs check it.

Fairness. For the list: goroutines that can run do, the ticker ticks, a poll ends,
a cancelled box ends. Requests and file changes need not come. For the poller: each
query returns (the code sets no timeout, so a query that hangs for ever is outside
the model), time passes, the service manager restarts a process that ended, and a
`select` with two ready cases picks one at random, so a stop is not passed over
for ever (strong fairness of `ReceiveStop`). For the box: its tickers tick and its
queries return. For the backups: pollers go on, and five minutes pass again and again
at the moment a poller looks (strong fairness of `SetBackups`); that polls do not
fail for ever is a hypothesis of `AnyNodeCounts`. Failures and restarts of SQL Server
are not fair; `Recovers` speaks of the behaviours in which they end.

## 4. Findings

* `concurrent_deletes`: `SortKeys` panics (index out of range, `sql_funcs.go:251`)
  when another request deletes a server between its snapshot and its length;
  `Delete` then never reaches `s.stop <- struct{}{}`, and the server is polled
  without being in the list until the service ends.
* `dns_failure`: `getIP` takes `s.RLock()` for the message about a failed lookup
  (`sql_polling.go:429`) and never releases it. Its own `s.Lock()` at line 466 waits for
  ever, the poller takes no stop, and whoever clones the server waits behind it.
* `credential_edit`: editing a credential and leaving the password empty saves the
  encrypted password that `ReadConnections` returned, encrypted once more
  (`credentials.go:71`). `serverEditPage` reads with `GetSQLServer`, which decrypts, so
  servers' own passwords are right (`ServerSecrets`).

Seen in the code while modelling, and not among the runs: `tagPage`
(`webserver.go:343`) dereferences the nil wrapper of a server deleted since the tags
were built and leaves the list read-locked (`TagPageCopy` does it, and the properties
of `gui_mode` hold in spite of it); `UpdateFromSettings` ignores the error of
`SetConectionString` (`sql_funcs.go:354`) after it changed the fields by which it would
notice the difference later; a change of the login only is not noticed at all (line
347; both are in `Edited` of `Settings` and in `UpdateFields` and `UpdateConnString` of
`ServerList`, and no property claims the login or the connection string of a server that
was edited or reloaded); the reset lost by a failed
poll, above; `GetMetric` enqueues without the lock on a copy that shares its array
(`sql_polling_metrics.go:112`), which `LockLimitsDamage` bounds; an error that ends the
rows of `setBackups` early is not looked at (`sql_backups.go:228-268`), which
`OnlyTrueAllClear` survives; `SaveSQLServer` does not look for the credential of the
server it saves, and `DeleteSQLCredential` asks a newer file than the one it saves
(`unchecked`).

## 5. The proofs

`ServerListProofs.tla` proves, for every choice of the constants that satisfies
`ConstantsAssumption` and `ModeAssumption`:

* `TypeCorrect`: `Spec => []TypeOK`. Inductive invariant `TypeInv`: `TypeOK` with
  what a goroutine's place implies about its locals (a thread at "sendStop" holds
  a wrapper, one at "applying" a configuration, ...).
* `PollingCorrect`: `OneWriter => (Spec => []RegisteredIsPolled)`. `OneWriter`: at
  most one goroutine changes the list, which FILE mode always satisfies and GUI mode
  as long as requests do not overlap (`concurrent_deletes` shows why it is
  needed). `RegisteredIsPolled` is not inductive: a stop could be sent to a wrapper
  that is still registered. `PollInv` adds what the writer's place implies: the
  wrapper a `Delete` is about to remove is the one under its key, after that it is
  under no key; an added wrapper has no poller and no stop until it is launched; and
  the writer's own snapshot in `SortKeys` never outgrows the list, so it does not
  panic between registering or removing a server and what follows.
* `StoppingCorrect`: `OneWriter => (Spec => []DeletedIsStopped)`. `StopInv` says that
  an unlisted wrapper that still runs is in the hands of a `Delete` at a place from
  which `SendStop` or `StopBox` is still ahead; that an add finds its key free and
  ends with its wrapper in the list; and that the box of a server that is being
  deleted has a context, so `StopBox` does not panic.
* `ReloadCorrect`: `Spec => []ReloadApplied`, without a hypothesis, of the registered
  servers and their names, not of their connection strings: where there is a
  watcher it is the only writer (`ModeAssumption`), so `PollInv` and `StopInv` hold.
  `ReloadApplied` speaks of the end of a reload only. `ReloadInv` follows it through
  both loops. While servers are deleted, a registered one is in the files, or its delete
  is still to come or has yet to remove it (`DeletesOK`). While entries are applied,
  only servers of the files are registered, and each entry that is not to do and not at
  work is `Applied` (`AppliesOK`). Of the entry at work, `EntryOK` says that its
  operation holds the wrapper of its key, and, past the step that sets them, that the
  wrapper has the entry's settings. An update must not disturb an entry applied before
  it: that needs `Polled`, two keys never share a wrapper.

`MetricRingProofs.tla` proves, for every capacity (`CapacityAssumption`: at least
one), every set of readings (`RecordedAssumption`: nil is not one of them) and any
number of pages, what run `ring` checks:

* `TypeCorrect`: `Spec => []TypeOK`.
* `Implements`: `Spec => IsWindow`, the refinement: initial states map to initial
  states, every step to a step of `Window` or a stutter.
* `PagesCorrect`: `Spec => []OnlyOldestReplaced`; `LockCorrect`:
  `Spec => []LockLimitsDamage`.

The lemmas on `Ring` come first: `AdvancedIs` and `SlotIs` remove the remainders,
and `EnqueuePushes` says that an enqueue turns `Values` into `Pushed` of `Window`;
it needs that a header is one enqueues alone can reach (`HeaderOK`: its tail is 0
or follows its head). The inductive invariant `Inv` is `TypeOK` with two more
parts. `PollerInv` says how the poller's copy and the stored ring are related at
each place: the stored ring is absent or full, the copy is equal to it before the
enqueue and one ahead of it after, a file that is being read shows its beginning in
the copy, and `published` is the stored ring except for the entry an unlocked
enqueue has replaced. `PageInv` says, of a page in the middle of its loop, which
slots the entries written since are in: the loop invariant that
`OnlyOldestReplaced` lacks.

`PollProofs.tla`, for any instances and number of accumulators: `TypeCorrect`,
`DeltasCorrect` (`CleanDeltasWithinInstance`), `SkipsCorrect` (`NeverSkips`). `PInv` adds
to the types that `IsPolling` is set only inside a poll, and, while nothing failed, what
is known at each step: a reset is of a big poll and lasts until its last sample; before
that, the accumulators already sampled are of the new instance; without a reset all
samples are of the known instance or none.

`WaitBoxProofs.tla`, for any sessions, types, instances and durations:
`TypeCorrect`, `NeverTwiceCorrect` and `WholeCorrect`. The type of `Waits` is that of a
sum over the sessions, a fold over a set: `SumIsNat` proves it for any finite set of
sessions (`BoxAssumption`). `NeverTwice` is not inductive: a poll adds the
difference to what it remembers, so `BInv` says what a remembered request is worth. If
the next poll will not reset (`Current`), what was added of a session's wait is at most
what the box has seen of it (`Seen`), and exactly that for a wait in `whole`.

`WaitStoreProofs.tla` proves, for any keys, file durations, number of files (`MaxFiles`),
and for a ring that holds an hour and files that are kept for an hour and their own
duration (`StoreAssumption`: `Capacity >= HourTicks`, in the code 60 slots at one per
minute and 60 minutes, and `RetainTicks >= HourTicks + FileTicks`), everything that run
`wait_store` checks: `TypeCorrect`, `HourCorrect` (`HourRestored`), `OrderCorrect`
(`InOrder`) and `CoverCorrect` (`RingCoversHour`). They follow from one invariant,
`Invariance`: `Spec => []IInv`, whose parts are

* `FilesInv`: what the files say of time. A file is opened at most `FileTicks` before a
  line in it was written (`FileAges`), so a file older than `RetainTicks` has no line of
  the hour and its purge loses none; and of two lines of a key, in the order in which the
  reader gets them, the later one is younger (`Ordered`), so a ring filled from the files
  is in order.
* `Restores`: the lines of the hour that the reader gets, of all keys, are `durable`;
  `HourRestored` is what this says of one key. Reading the files commutes with a minute
  that passes, with an append at the end and with a purge.
* `Today`: a line of this minute in the files is of a key that has emitted and is through
  with its write, so the one it is about to append is the only one.
* `Owns`, `Covers`: a ring is in order, its newest value is of this minute only if its
  key has emitted in it, and for a key that is writing it is; and the ring has, of the
  hour, all that is on the disk.

The lemmas before it say what the loops compute: what `Chosen` keeps of an append, of
a concatenation and of a sequence whose elements were aged, that choosing twice can be
swapped, and what the values of a ring are after an enqueue, full or not, and after the
loop that fills it.

Induction over data. The library's induction theorems take an operator as a parameter,
which no installed prover can instantiate. `Induct` (over numbers) and `SeqInduct` (over
sequences) take a set instead: one that has 0, and with n also n + 1, contains every
number. To prove P of all n one takes the set of the n that satisfy P; `Induct` itself
follows from the well-foundedness of the numbers. `Same` proves two loops equal step by
step, and `SumIsNat` goes through the sizes of the finite sets in the same way.

`SettingsProofs.tla`, for any servers, credentials and number of overlapping requests:
`TypeCorrect`, `SecretsCorrect` (`ServerSecrets`), `CredentialsCorrect`
(`CredentialsExist`), `TornCorrect` (`TornKept`), `ListCorrect` (`ListFollowsFile`). `SInv`
carries the file's properties over to every `Connections` a request holds, says that
forms are plain, and that an add about to save has found its credential in the
`Connections` that it saves, not in the file. `LInv` adds, while requests have not
overlapped, that there is at most one (`OneRequest`), that what it is about to save is
the file with its own change, that after the save the file has what it is about to tell
the list (`Pending`), and that all other servers follow the file (`Follows`).

`GroupsProofs.tla`, for any groups, servers and `Quiet`: `TypeCorrect`, and, if a group
is healthy for at least three minutes and kept for at least two (`Long`; the code has
three and five), `ShownCorrect` (`ShownAtPrimary`), `GoneCorrect` (`GoneExpire`) and
`LatenciesCorrect` (`LatenciesOfPrimary`). `GInv` follows the minutes after the last
failover or failure: in the second, every poll in progress began after it; in the
third, every poll began after the last of those from before had ended; by the fourth,
each has set its groups.

`BackupsProofs.tla`, for any replicas, kinds and numbers of backups: `TypeCorrect` and
`AllClearCorrect` (`OnlyTrueAllClear`). `BInv` says that rows and the map are never ahead
of some replica's history; that a newest backup exists among the replicas is proved
from the well-foundedness of the numbers (`Smallest`, `TakenIs`).

Each invariant was model-checked before it was proved. A proof has one lemma or
step per action of `Next`, and the temporal step last. Nothing is assumed beyond
the named assumptions and the hypotheses stated in the theorems.

Every invariant that a passing run checks is stated by a theorem. Only model-checked:
the liveness properties `Settles`, both `Recovers`, `Stops` and `AnyNodeCounts`, and the
three findings, which are behaviours and not theorems. Out of the prover's reach, and
left to TLC for good: liveness under fairness and `ENABLED`.

## 6. Not modelled

`PROJECT.json` says of each component why it is not, or only partly, modelled. In
short:

* Pages, templates, static files, reports, query plans, LDAP, connection strings and
  the command line tools are I/O and conversions without state that goroutines share.
  The scripts under `static/js` are third-party libraries (lodash, semver, Chart.js and
  date-fns), two parsers for sorting table cells, and one script that draws what the
  API returned: they keep no state of the system.
* Wait files (`internal/waitmap/wait_file.go`): the same scheme as the bucket files,
  which are modelled, with a writer that opens the file for every line.
* The HCL files (`internal/c2`): parsing and defaults, a function of the files. A
  reload in `ServerList` takes any of a set of configurations.
* The metric repository (`internal/mrepo`): rows written to an optional database; its
  one state, the last error, decides what is logged.
* The lock of `globalConfig`, which a failed `settings.MakeDir` at start-up leaves
  locked (`sqlmon.go:286`): one goroutine, one failure, no interleaving.
* Data races on memory the Go runtime does not survive (the `Metrics` map shared by a
  wrapper and its clones, the pool a reset closes under a page).
* Queries without a timeout (`sql_polling_metrics.go:67`): the fairness of the models
  assumes that they return.

What would come next: two keys in `wait_store` on larger files, the display names of
groups (`SetAGNames`), clocks that differ between replicas, and the repository's rings
as seen by a page that reads while a box writes.
