# A TLA+ model of mstodo-mcp

mstodo-mcp mirrors one person's Microsoft To Do lists into a local index and serves them to MCP
clients. It runs as a Cloudflare Worker with one Durable Object (`TodoIndex`) or as one Node
process. This directory models the parts of it in which several things happen at once, or one thing
in many steps: the refreshing of the owner's tokens, the change of the owner's account, the delta
rounds that feed the index, the loop that decides what is fetched when, the scans of checklists and
of My Day, the change-notification subscriptions, the tools that write to Microsoft and then to the
index, the queries that read it page by page, the single-use links for attachments, and, on the Node
host, the scheduler of that loop and the lock that keeps a second process away.

Paths below are relative to `src/src/`; `IC` is `core/index/index-core.ts`, `RT` is
`core/mcp/register-tools.ts`.

## 1. Inventory

Everything that matters runs in one JavaScript event loop. Code between two `await`s is atomic;
at an `await` (the host's SQLite is synchronous; KV and `fetch` are not) any other callback may run.
So the hard behaviours are interleavings at awaits, requests that die half way, restarts that lose
what lives in memory only, answers of Microsoft that come late, twice or never, and the budgets
that cut long work into cycles.

| component | state it keeps | operations | interacts with | what makes it correct | modelled by |
|---|---|---|---|---|---|
| Token refresh (IC 246-462, `core/auth/microsoft.ts`) | KV `tokens:owner`; in memory the generation, one slot per resource, the chain, the substrate token | `getAccessToken`, `forceRefresh`, `getSubstrateAccessToken`, `#refreshResource` | Entra token endpoint, the sign-in callback, every Graph call | the rotating refresh token is spent serially and its successor stored; nothing of the prior account is stored after a switch; no refresh blocks the next | `TokenRefresh` |
| Identity switch (`hosts/shared/auth-handler.ts` 181-290, `microsoft.ts` 424-463, IC 1735-1793, `core/auth/grant.ts`) | KV tokens and identity; epoch; rows, cursors, alarm; MCP grants | `handleCallback`, `wipeIdentityScopedState`, `resetIdentity`, `grantRefusal`, `revokeAllGrants` | token refresh, sync loop, OAuth library | two accounts' data never mix; a live grant is the owner's; after a crash the wipe is finished, not skipped | `AccountSwitch` |
| Delta sync of a list (IC 1894-2054, `core/graph/delta.ts`) | rows, `sync_state` (delta link, next link, status) | `#syncResource`, `followToTerminal`, `#applyRows`, `#purgeResource`, `resync`, write-through | Graph delta queries, tools that write | a list that is served is complete up to its cursor; it converges after any failure | `DeltaSync`, `ListIndex` |
| Sync loop (IC 1500-1548, 1692-1719, 1806-1888, 2056-2085) | the alarm, the roster, `last_synced_at` | `alarm`, `runSyncCycle`, `#listIdsByPriority`, `ensureSyncing` | host scheduler, webhook, `set_list_config` | no list starves; the loop calms down; the roster follows Graph | `SyncCycle` |
| Subscriptions (IC 747-926, 1064-1144, 1599-1688, `core/subscriptions/`) | the `subscriptions` table | `reconcileSubscriptions`, `renewSubscriptions`, `onLifecycleEvent`, `recreateSubscriptions` | Graph `/subscriptions`, sync loop, webhook | one tracked subscription per wanted list in the end, none leaked, none expiring unrenewed | `Subscriptions` |
| Graph client (`core/graph/client.ts`, `substrate-client.ts`) | none | one request with one 401 retry and its Retry-After pauses; all pages of a collection | all of the above, every tool | never repeats a write that may have landed; absorbs an expired token and a throttle in any order | `GraphClient` |
| Checklist cache (IC 529-645, 1958-1983, 2179-2222) | `checklist_items`, the marker `checklist_synced_at` | scan batch, write-through | Graph, delta sync, tools | what is marked as scanned is right | `ChecklistCache` |
| My Day cache (IC 72-108, 498-537, 1350-1420, 2090-2175) | My Day columns of `tasks`, a `sync_state` row per scanned list | scan batch, write-through, advisory | Substrate API, My Day tools | wrong only of what changed since the scan; the rotation reaches every list | `MyDayCache` |
| Index queries (IC 1160-1308, `core/util/cursor.ts`, `core/config/query-scope.ts`, RT 744-835, 3082-3576) | none; the cursor is the client's | `query_tasks`, `list_tasks`, `get_pending_across_lists`, `get_recently_completed`, `search_tasks` | index | pages neither skip nor repeat; nothing from outside the scope | `QueryPages` |
| Links (`core/upload/`) | KV capabilities | upload and download links, upload session | browser, Graph | a single-use link is used once; a session progresses; the report is true | `Upload` |
| MCP tools (`core/mcp/`) | none of their own | about 70 tools | Graph, index, KV | Graph first, then the index; nothing lost or doubled by a failed call | `TaskTools`, `MoveTask`, `ManualOrder` and the modules of what they touch |
| Configuration (`core/config/`, RT 645-742, 2847-3075) | KV `config:lists` and its like | `list_lists`, `set_list_config`, `set_list_alias` | tools, sync loop, queries | a rename changes no class; a call changes only what it sets | `ListConfig` |
| Node host (`hosts/node/`) | the alarm and its timer, the chain of runs, the lock's row, SQLite KV | arm, fire, heartbeat, acquire, beat, shutdown | IC | a stored alarm is never forgotten, a failed run comes again; one instance per database | `Scheduler`, `InstanceLock` |
| OAuth front, Cloudflare host, migrations, formatting | see section 7 and `PROJECT.json` | | | | the grant check: `AccountSwitch` |

`PROJECT.json` lists every component with its files and state of modelling, and under "hazards" the
places of the code that are hard to test, with the properties that cover each, or why none does.

## 2. Plan

Done, in this order:

1. `TokenRefresh` - the most delicate protocol, and what every request depends on.
2. `AccountSwitch` - everything kept per account, around the sign-in callback.
3. `DeltaSync` - one list, in detail - and `ListIndex`, the abstract promise it implements.
4. `SyncCycle` - the loop over all lists; one call of `#syncResource` is one step here, which
   `DeltaSync` opens up.
5. `Subscriptions` - the maintenance that a calm cycle does.
6. `Scheduler` and `InstanceLock` - the Node host. The first is what `SyncCycle` assumes of its
   host, the second what every module assumes: one process at a time.
7. `Upload` - the links for attachments, the batch of a POST, and the upload session.
8. `GraphClient` - what a request of any tool or scan may have done when it fails.
9. `TaskTools`, `MoveTask`, `ManualOrder`, `ListConfig` - the tools that take several steps.
10. `ChecklistCache`, `MyDayCache` - what the index keeps that the delta feed does not bring.
11. `QueryPages` - reading the index page by page while it changes.
12. `Tools` - the modules of 8 to 11 in one specification; `MCTools`, its small instances.
13. Proofs, section 6: per component, the safety properties its run checks.

Left: a composition of `Scheduler` and `InstanceLock` (a process that is overtaken runs on until its
next beat) with the alarm as an abstract specification; `TaskTools` and `MoveTask` composed with
`DeltaSync`, instead of with delta rounds that wait for their write-throughs.

## 3. Modules

### TokenRefresh

One *flight* is one promise of `#refreshResource` (IC 382-462). Its program counter goes through the
awaits: `waiting` (for the previous chain), `posting` (POST /token under way), `answered`, `storing`
(KV put under way), `finishing`. `Load` is the code from the end of the chain to the request, with
the generation check; `Answer` is what Entra does; `GoodAnswer` the second generation check and what
will be stored; `Store` the put; `Settle` the release of slot and chain. KV may reject either
access: `LoadFails` ends the flight before it spends anything, `StoreFails` after the rotation, with
or without the record written. Callers join the flight in their slot, so they need no state: a
caller is `Launch`, where the slot is empty. A refresh token is named by its sign-in (family) and
its number of rotations. Entra (external) rotates on every success, keeps accepting the older token
of a family, and may serve a request whose answer is lost. The sign-in callback appears with the
steps that touch tokens, re-auth flag and generation.

### AccountSwitch

The callback of `handleCallback` with one action per await: `Exchange`, `LookUp` (whether the
account changed), `ResetBegin`, `ResetFinish`, `WipeTokens`, `WipeIdentity`, `StoreTokens`,
`StoreIdentity`, `ClearReauth`, `ReadEpoch`, `Grant`; `CallbackDies` ends it at any of them. Beside
it the alarm (`Alarm`, `CycleDone`), which returns at once while re-auth is required, the heartbeat,
revocation, and `Refused`, which sets that flag; the reset and `ClearReauth` delete it. A cycle may
be in flight at every step of a callback. The rows of an account are one element, its cursors one
value. A grant is live while its epoch is the current one. Two variables are not in the code and
only say what the properties except: `doubt` (the reset found a cycle in flight, one began between
it and the wipe of the tokens, or a callback died between the tokens of one account and the identity
of another) and `refused` (why the flag is set, if it was not the switch that left it). The standard
names are prefixed (`SwitchInit`, `SwitchNext`, `SwitchSpec`), since `HttpProofs` extends this
module and `Upload`; `InstanceLock` does the same for `NodeHostProofs`.

### DeltaSync

A task is the time of its last change; a row is the version it was taken from. A link is the time
its round began and the tasks still to report, which is all that a delta token means to the code.
`Start`, `Follow` (a page, and the next request within the budget), `Commit` (`#applyRows` and the
cursor), `Gone` (410), `Failed` are the code; `ServePage`, `ServeGone`, `ServeError`, `Expire` are
Graph. A page reports any subset of what is left of the round, and may report tasks that changed
during it. Tools (`ToolWrite`, then `WriteThrough` or `LoseWrite`), other clients, `Resync` and
`Restart` interleave freely. `stray`, not in the code, has the tasks whose row was written when the
feed had nothing left to say of them and they were newer.

### SyncCycle

Each list has the pages its round still needs, the kind of link it has, and its place in the order
of `last_synced_at`: `synced` has the pairs of lists of which the first was synced no later than the
second, which leaves ties open, as the sort of `#listIdsByPriority` depends on the order of the
table there. What a later round of a list takes is any number of pages in `Later`, as many as there
is news. Only lists in `Watched` have a subscription, and so notifications. A cycle is `Alarm`,
`SyncRoster` (or `RosterGone`, `RosterFails`), `Plan` (the order of `#listIdsByPriority`, once for
the whole cycle), `SyncList`/`FailList`/`DelayList` for each list while the page budget lasts,
`EndCycle` (re-arm "soon" or "later"). `Notify`, `Resync`, `ResyncEverything`, `ChangePolicy`,
`Refuse`, `SignIn`, `Heartbeat` come at any time, also during a cycle. Time is only "soon" against
"later". The roster comes whole: `#syncResource` stores its rows after the last page of the call
(IC 1897-1957), so a call that fails half way changes nothing; only a roster of more than
`ROSTER_MAX_PAGES` pages is left out.

### Subscriptions

Graph's subscriptions (`subs`) against the table (`records`). A cycle's phases follow
`reconcileSubscriptions` and `renewSubscriptions`: `Begin`, `Plan`, `List`, `Compare`, the deletion
of orphans, `Reread`, deletions, creations, renewals. Each request is two steps: what Graph does
with it (`SendForId`, `SendForList`; a failed one may have been carried out), and what the code does
with the answer (`Receive`). Lifecycle events (`Reauthorize`, `Reauthorized`, `Removed`),
`Recreate`, `Reset`, evictions, restarts and roster changes come in between, at any step; `old` has
what `Recreate` gave up and no orphan pass has deleted yet. The check of
`clientState` is not separate: it is as good as knowing the id. Graph never gives out an id twice;
as the ids of a small instance are few, `Unknown` lets one be given out again once nothing in the
index can still name it.

### Scheduler

`hosts/node/http.ts` from `startScheduler` on. `alarm` is the row in SQLite, `timer` the pending
`setTimeout`, `queue` and `fire` the chain `running` (fires that wait, and the one at work with the
alarm it read), `boot` the read at startup. A fire goes `FireReads` (await of `getAlarm`), then
`FireReturns` (too early, nothing there, stopped) or `FireClears` (await of `deleteAlarm`), then
`core.alarm()`: `RunSkips` without tokens, else `RunBegins` and `RunEnds` with a new alarm, or
`RunFails` and `RunRetries`. What a run does is `SyncCycle`; here it only ends or throws. Every
change of the alarm goes through the listener (`ChangeAlarm`). `Prompt`, `Heartbeat`, `ColdRead`,
`SignIn`, `Refuse` and `Reset` are the rest of the program, as far as it touches alarm or tokens;
`Stop`, `Exit` and `Crash` end the process, and `StartUp` begins it over what SQLite kept. Times are
the delays left, so `Tick` makes them shorter and no clock grows.

### InstanceLock

The row of `single-instance.ts` and the processes on the file. `Acquire` is the transaction of
`acquireInstanceLock`, `Beat` and `BeatLost` are the heartbeat, `Release` the scoped delete that
every orderly end runs (`Quit`), `Kill` an end without it, `PowerLoss` the end of all with the last
commits lost. Time is counted in beats (`Elapse`): `age` is how old the row is, `late` how long ago
each process last wrote its own. It shares the proofs' module with `Scheduler`, so its names say
whose they are (`LockInit`, `LockNext`, `LockSpec`).

### Upload

`core/upload/`: links in KV (`CreateUploadLink` and `MintDownloadLink` are the tools that make
one, `Expire` its time to live), POSTs and GETs await by await. A POST is `Arrive` (the early check
of a token in the query), `Check` (the one that counts), `Refuse`, `Burn`, `List` (the attachments
to compare with) and then, file by file, `Duplicate`, `AttachInline`, or `OpenSession` with the
rounds of the session: `Put`, `PutLast`, `PutRefused`, `PutLost`, `Stall`, `Incomplete`. A session
whose URL is not Graph's is left where it is. `Candidates` are the attachments in the size band,
`Match` those with the file's content (its name, if it is large), of which some may be unreadable.
`Finish` answers and sets the flag in the index; `Die` is the end of the worker or process at any
await. A file has a content, a name and a size; sizes and ranges are numbers, the band is a
relation. Graph keeps what it took of a range, may take less, answer 200 without readable ranges,
refuse, or not answer. A link has an id of its own; a second upload link lets a request that went
unanswered be followed by another. Not in the code are `had` (the attachments when the request
came), `landed` (the files that got onto the task, answered or not), `unread` and `blind` (what was
not compared because bytes or list were not to be had). Somebody else who adds or removes
attachments meanwhile is left out, and so is a 201 without the id of the attachment (the code then
forgets the content it attached for the rest of the batch).

### ListIndex

What a reader is promised of one list: a copy (`rows`), complete up to a moment (`upto`) that only
advances, or no moment, in which case reads do not use the copy. `CatchUp` takes over versions that
are not older than what the copy took over before, and drops a row only of a task that is gone;
`Purge` empties the copy and gives up the moment; `Note` is a tool's own change, at once or late.
There are no pages, links, budgets or restarts. `DeltaSync!KeepsPromise` is this specification with
`rows` its index and `upto` the moment its delta link stands for.

### GraphClient

One call: `req` with its two retry counters, the service's answers (`Serve`, `Expired`, `Throttle`,
`Refuse`, `Break`) and the code's reactions (`Retry`, `RefreshFails`, `GiveUp`, `NextPage`,
`Finish`, `Unreadable` for a 2xx whose body does not parse). `Break` is a 5xx or a connection that
breaks, which may have been carried out. The budgets are the three the code uses: 1 for Graph, 2 for
Substrate, 0 for a "fast" request. The modules of the tools rest on it: one of their requests
succeeds, is refused, or fails with or without having been carried out.

### TaskTools

The tools of RT 836-1266, 1586-2347 and 2551-2803 that take one request and one write-through are
rows of a table (what the request names, its method, whether the list may be left out, which
write-through follows) and share `Serve`, `Note` and their failures. `update_task` has its own steps
where a completion date needs the task reopened first (`ReadTask`, `ResetTask`, `ResetRefused`, or a
reset that was carried out and whose answer is lost) and
where an ETag is given; its link rules read the task once more (`Expand`) and post links (`Link`),
as those of `create_task` and `extract_links` do. `OtherClient` changes the task and the list at any
time.

### MoveTask

`Reparent` is the PATCH through Exchange that gives the task a new id; `Unavailable`,
`Unconfirmed` and `Recheck` are what becomes of one that failed; `Create`, `CopyPart`, `ListFiles`,
`Carry`, `DeleteSource` the copy part by part, and `Abort` the deletion of a copy that is not whole.
`LateCommit` is a re-parent that is carried out after the code has given it up. Where `Recheck`
finds the source gone the move is `presumed`, where it cannot tell, `guessed`; the code answers both
alike. `Answers` are the
results a caller can be told, with the warning or the id of an orphan where the code names one.

### ListConfig

`config:lists` is read whole, changed and written whole by three tools. `list_lists` is `BeginList`
(the names it saw), `LoadForList` (an answer, or new pins to store) and `StorePins`; the other two
read in `LoadForConfig` and `LoadForAlias` and write in `StoreConfig`. Several clients call at once;
`raced`, not in the code, marks a call whose record another call replaced before it wrote. `Rename`
in Graph and `RefreshRoster` come in between. Names that differ only in emoji or case are one name,
a pattern is the set of names it matches.

### QueryPages

A query is the scope `queryScope` computes from types, lists and exclusions, a status filter, a
limit and a keyset cursor over `modified_at DESC, task_id DESC` with NULL last. `query_tasks`,
`list_tasks` and `get_pending_across_lists` begin one, `NextPage` continues it;
`get_recently_completed` (a list, a class or all, a window of completion times) and `search_tasks`
(the scope, a status filter, two tiers) are answers of one page, empty where the scope has no list;
`FirstOf` says which rows in which order are a page. `ColdPage` is `list_tasks` of a list that is
not synced, answered live. `Write` and `Delete` are the sync and the other tools.

### ChecklistCache

`Delta` reports changed tasks and clears their markers, `ScanBegin` picks the open tasks without a
marker, `ScanFetch`/`ScanFails` are the request of one task and `ScanStore` what is done with its
answer: the items are replaced and the marker set, whatever has come meanwhile. `Tool` changes an
item or the task in Graph, `Note` writes through what the answer carried, at any later time, and
leaves the marker as it is. No delta round runs within a scan, since both are parts of one cycle.
`stray`, not in the code, has the tasks whose write-through came after the delta round that reported
its change; a fetch takes a task out again.

### MyDayCache

`ScanBegin` takes the due lists, the one scanned longest ago first, `ScanFetch`/`ScanFails` and
`ScanStore` read a folder and stamp the list; `add_to_my_day`, `remove_from_my_day` and `Note` are
the tools. `list_my_day_tasks` and `Stale` are what a reader is told. Time is the age of each list's
last scan. In the lists of `OtherIds` the task's Substrate id is not its Graph id, and a scan finds
no row of it.

### ManualOrder

`Begin` reads nothing yet; `ReadTasks`, `ReadItems`, `ReadDay` read the orders of the others
(`ReadDay` also refuses a mover that is not in My Day),
`ReadReference` the reference once more, `Patch` writes the midpoint or the nudge, `Note` writes the
order of My Day through. `Move` is another client, `Scan` the My Day scan. `Fits` is the reference
definition of what each position means, against which the computed order is checked.

### Tools

Eight of these modules in one specification, so that one run checks and one module proves them: a
behaviour is one module (`which`), chosen at the start. They share the variables (`graph` is what
Microsoft has, `feed` what delta queries have yet to report, `index` what the server keeps, `call`
the tool's call), each in its own form, and nothing else; a variable that a module does not have
stays `None`. The disjuncts are written out so that each action of each module is seen to fire.
`MCTools` gives the constants their values.

## 4. Runs

Every property of a passing run has a mutant (an operator named in `PROJECT.json`, a plausible bug
of that code) under which it fails.

| run | checks | bounds |
|---|---|---|
| `token_refresh` | `SingleFlight`; `StoredTokenIsNewest`; `FlightsSettle` | two accounts, two flights, two sign-ins, one rotation each, one reset, deaths, rejected reads and writes of KV; no refresh overlaps a reset (`Overlap` is FALSE) |
| `delta_list` | `SyncedIsComplete`; `KeepsPromise`; `Converges` | two tasks, three changes, pages of any split, calls of two pages, one expiry, two faults, one write on its way |
| `http` | `OneAccount`; `LiveGrantsAreOwners`; `Resumes` | two accounts, four sign-ins, two revocations, one callback at a time, cycles, refusals and deaths at every step |
| | `BurnedBeforeUse`; `LateGetsNothing`; `NoNeedlessCopy`; `ReportIsTrue`; `StallsLate`; `SessionsReleased`; `Answered` | two POSTs, the second with the link of the first or another, one with a file of two ranges or the same small file twice, attachments of equal content in and out of the band, or two GETs; one fault (a request without answer, a session elsewhere, a failed cancel, a death) |
| `cycle_fair` | `RotationBound`; `RosterIsGraphs`; `NoListStarves`; `CalmAgain`; `RosterComplete` | three lists, one of two pages, its later rounds of one or two, budget two, one watched list, one change, one fault, one resync (of a list or of everything), policy change or refused token |
| `subs_settle` | `OnePerList`; `Settles`; `Renewed` | two lists, six ids, one request per pass, one fault (lost answer, eviction, restart, reset), three of: a change of the roster, a record that becomes due, a lifecycle event, a recreate |
| `node_host` | `AlarmHasTimer`; `RunLeavesAlarm`; `Served` | delays of 0 to 5 units with a cap of 2, three fires waiting, three shutdowns, crashes or failed reads |
| | `PunctualHolds`; `OvertakenEnds`; `SomebodyServes` | four processes, a lease of three beats (60 s / 20 s), stalls of up to four |
| `tools` | `Retries` | budgets 0, 1 and 2, collections of two pages, four bad answers |
| | `MoveIsSafe`; `IndexCatchesUp` | a task with an item, a link and two files, one of them uncopyable; two new ids, two calls, two faults |
| | `UpdateIsExact`; `IndexCatchesUp` | one task with one part of each kind, one other change, two calls, one fault |
| | `ConfigKept` | one list with two names, two clients, three calls, one rename, one failed write or read |
| | `PagesExact` | three tasks in two lists, pages of one, two moments of change |
| | `MarkedIsFresh` | one task, two items, one edit, three calls, one fault |
| | `WrongOnlySinceScan` | two lists, one folder per cycle, a window of one tick |
| | `AsAsked` | three tasks with room between two of them, one completed, one renamed, one call, one other move or failure |

Why the bounds suffice: each hazard needs few actors. Serialization goes wrong with two flights; a
third adds only one more waiter, and the theorem covers any number. A page chain needs two pages for
a budget to fall inside it, and two tasks for one of them to be left out. A switch goes wrong with
two accounts; of four sign-ins, one comes back to an account that was left, and one may have died
before. Two records that are due at once compete for the one request of a cycle; a third event is
the list, the lifecycle event or the recreate that meets them. A delay longer than the cap makes the
scheduler go in steps; three faults let a crash follow a shutdown and a failed read. A row has one
holder, so three processes give every order of taking over; the fourth is one more. The rotation
needs a roster larger than the budget, and a list whose round does not fit into what is left of it;
a list of three pages was checked apart from the run. A file of two ranges has a first, a middle and
a last answer, and two POSTs overlap at every await. A move fails at a step, is repeated, and may
fail once more: two faults and two calls. Three tasks on pages of one have a first, a middle and a
last page, each of which a write can move a row across. A midpoint needs two neighbours and a mover;
orders 0, 2 and 3 have a gap with room and one without. A scan and a write-through race on one task
already; a second list is what a rotation can pass over. The counters of every bound appear in
guards only, and are named `Max...`.

The bounded faults are the ones after which the code has to recover; liveness says what happens when
they have been used up, so it is recovery that is checked, not the absence of faults.

### Fairness

- `TokenRefresh`: weak fairness of each flight's body. A promise goes on while the event loop
  turns, and `fetch` answers or throws. No caller, sign-in or restart is assumed to happen.
- `DeltaSync`: of the code of a call (the alarm re-arms after every cycle) and of Graph answering
  with a page or a 410. Errors are bounded faults.
- `AccountSwitch`: of the callback's next step (with `CallbackDies` as its alternative), of the
  heartbeat, of the host firing an armed alarm and of the cycle's end. The heartbeat is the `*/15`
  cron of the worker or the timer of `hosts/node/http.ts`.
- `SyncCycle`: of firing an armed alarm, of the heartbeat, and of a cycle's steps together. No
  notification and no sign-in is assumed.
- `Scheduler`: of time, of every callback the event loop has ready, of the end of a run one way or
  the other (the code sets no timeout on a `fetch`; the HTTP client of Node has one for a server
  that does not answer), of the heartbeat, and of the start of a process that is down
  (`compose.yaml` says `restart: unless-stopped`). No prompt and no sign-in is assumed.
- `InstanceLock`: of time, of each process's beats (a stall ends) and of somebody starting a
  process.
- `Upload`: of the steps of each request that has come, with `Die` as their alternative; no request
  has to come.
- `Subscriptions`: of a cycle's steps together (that calm cycles come round is `CalmAgain`) and of
  the answer to a lifecycle event's request.
- `MyDayCache` states a `FairSpec` (calm cycles go on and store what they fetch) for
  `EveryListScanned`, see section 5.

TLC's deadlock check is off in `http` and `tools`, whose requests come to an end, and in
`config_alias` and `subs_recreate`, which stop at a violation.

## 5. Deviations the runs show

A run that must fail checks one sentence of the code or its documentation against what the code
does. The trace is TLC's.

- `token_h4` (`StoresOwnAccount`): the generation is checked before an awaited KV put, and is bumped
  before the old tokens are removed. A refresh can store the prior account's tokens over the new
  ones either way.
- `delta_resync` (`SyncedIsComplete` with `ResyncInFlight`): `resync()` during a call lets that call
  store its deltaLink over the emptied rows; the list is then served incomplete.
- `config_alias` (`PinsSurvive`): `set_list_alias` rebuilds the record without the pins (RT 3046),
  so a list that was renamed since changes its class with nobody asking, which the pin is there to
  prevent (`core/config/schemas.ts` 105).
- `delta_late_write` (`DeltaReconciles`): the write-through of a tool's answer is unconditional.
  When it comes after the delta round that reported the change and a newer one, the older row stays:
  RT 4664-4667 relies on the next delta sync, which has nothing to say of the task any more.
- `subs_recreate` (`RecreateIsFinal`): the answer to a renewal, of the cycle or of a lifecycle
  event, puts back the record that `recreateSubscriptions()` deleted meanwhile, so the old
  subscription is no orphan, as IC 1670-1674 has it, but tracked again, in its old shape.

The passing runs exclude these situations and say what holds without them: in `token_refresh` no
refresh overlaps a reset, `delta_list` sets `ResyncInFlight` to FALSE, `Converges` excepts `stray`,
`ConfigKept` allows a class to change after `set_list_alias`, and `OnePerList` does not count what
`Recreate` gave up. More exceptions are written into properties, each for something the code
does:

- `OneAccount` excepts `doubt`. A cycle in flight when the identity is reset stores the prior
  account's rows and cursor after the wipe (IC 1906-1916) and arms the alarm again (IC 1701), though
  IC 1724-1726 says that the reset cancels the alarm so that this cannot happen. And a callback that
  dies between tokens and identity leaves the next account to be taken for a first sign-in.
- `Resumes` excepts `refused`: after Microsoft has refused, or after the death of the callback that
  stored new tokens over such a refusal, `alarm()` returns at once until somebody signs in.
- `MarkedIsFresh` and `ConfigKept` except `stray` and `raced`: a late write-through, and the write
  of a record that another call has replaced since it was read.
- `WrongOnlySinceScan` excepts a task that was re-parented: the scan writes by Substrate id, which
  is not the id of its row any more (RT 4027-4031), so only the tools' own writes reach it.

Further configurations kept here (`tlc -config X.cfg MC<Module>.tla`); TLC reports the property of
each as violated:

| configuration | property | what happens |
|---|---|---|
| `token_substrate_owner` | `SubstrateOfIdentity` | a substrate mint that outlives the reset leaves the prior account's token in the cache |
| `token_stale_refusal` | `RefusalIsOfStoredToken` | the refusal of a replaced token sets the re-auth flag after the sign-in cleared it |
| `cycle_starved` | `NoListStarves` | as many permanently failing lists as the budget has pages are tried first in every cycle |
| `cycle_lost_prompt` | `WantedIsSoon` | the re-arm at a cycle's end replaces the prompt alarm a notification set during it |
| `cycle_ghost_list` | `NoGhosts` | `resync()` keeps the rows of `lists`; a list deleted in Graph before it stays for ever, since a baseline reports no removals (IC 1707 and RT 3597 call it the manual twin of the 410 path, which deletes `lists`) |
| `sched_stale_arm` | `TimerIsInTime` | `fire()` arms for the alarm it read although a sooner one was set during the await |

Changing constants or properties of a configuration gives more of the kind:

| change | property | what happens |
|---|---|---|
| `token_h4` | `NoDoubleSpend` | the reset empties slots and chain while the old tokens are stored; two requests spend the same token |
| `token_stale_refusal` | `SubstrateKeepsGraphToken` | a substrate refresh that overlaps a sign-in of the same account writes back the Graph token it had loaded |
| `delta_list`, `Linkless` TRUE | `IdleIsServed` | a baseline that ends without a deltaLink is called idle and is never served |
| `http`, two callbacks | `LiveGrantsAreOwners` | two callbacks at once each act on the identity they looked up |
| `cycle_fair` | `PolicyIsSoon` | `ensureSyncing()` does nothing while the timer's alarm is pending |
| `subs_settle`, a list Graph refuses | `Settles` | it uses the creation budget of every cycle |
| `node_host` | `ServedInAnyCase` | a failed `getAlarm()` leaves the stored alarm without a timer, and `ensureSyncing()`, which finds it stored, never sets another: only a prompt or a restart does |
| `node_host`, `MaxLate` 3 | `OneProcess` | after two missed beats the third is due at exactly the ttl, when the row may be taken over (`single-instance.ts` 47 says "two missed beats still leave a margin") |
| `tools` | `DeltaReconciles` | `move_task` answers "treated as moved" for a re-parent that was not carried out, when it cannot read the source again, and has taken the row out of the index (RT 1351-1357); no delta reports the task, since it did not change |
| `tools` | `ChecklistFlagLasts` | an upsert by a later delta row of the same task clears `has_checklist`, which the comment at IC 479-480 says only a mutation can set |
| `tools` | `OverwritesNothing` | `update_task` with `if_match` sends the ETag with the first of two requests only; a change between them is overwritten (RT 1096) |
| `QueryPages` alone, `SpecForgetful` | `CursorKeepsFilter` | RT 756-757 says the cursor preserves the status filter; it carries none, and a page asked for without it has other rows |
| `QueryPages` alone, `MaxTime` 4 | `RecentIsRecent` | `get_recently_completed` takes its page by `modified_at`; an old completion touched lately displaces a recent one |
| `MyDayCache` alone | `AdvisoryHonest` | `getMyDayScanState` ignores lists that were never scanned (IC 1379-1381) |
| `MyDayCache` alone, one list `Broken` | `EveryListScanned` | a list whose folder is refused gets no stamp and stays at the head of every scan (IC 91-95) |

The broken list of `cycle_starved` and a ghost list are the same to the loop: with as many of them
as the page budget, the rest starves. `cycle_fair` therefore keeps them below the budget (one ghost
list can occur, the budget is two pages).

Met while modelling, and kept in the models as the code has them: `resetIdentity()` leaves
`checklist_items` although it says it wipes all indexed state; a task whose checklist fetch always
fails stays at the head of the scan; a failed access token in the middle of `move_task` leaves the
copy (RT 1460), and an item added after `move_task` has read the source goes with it; the reset of
`update_task` that is refused with a 404 or 412 is answered as a general error, as is a link rule's
re-fetch that fails after the PATCH was carried out; `reorder_task` with `index` is off by one for a
mover whose Substrate id is not its Graph id; a late write-through of My Day stays wrong until the
next scan.

## 6. Proofs

`tlapm` proves, for every value of the constants:

| theorem | statement | assumptions besides the module's |
|---|---|---|
| `TokenRefreshProofs!TypeCorrect` | `Spec => []TypeOK` | none |
| `TokenRefreshProofs!SerialRefresh` | `Spec => []SingleFlight` | none |
| `TokenRefreshProofs!NewestStored` | `Spec => []StoredTokenIsNewest` | no refresh overlaps an identity reset |
| `DeltaSyncProofs!TypeCorrect` | `Spec => []TypeOK` | none |
| `DeltaSyncProofs!ServedListComplete` | `Spec => []SyncedIsComplete` | no `resync()` during a call, every last page has its link |
| `DeltaSyncProofs!ListIndexImplemented` | `Spec => KeepsPromise` | the same |
| `HttpProofs!TypeCorrect` | `SwitchSpec => []SwitchTypeOK` | none |
| `HttpProofs!GrantsOfOwner` | `SwitchSpec => []LiveGrantsAreOwners` | one callback at a time |
| `HttpProofs!NeverMixed` | `SwitchSpec => []OneAccount` | one callback at a time |
| `SyncCycleProofs!TypeCorrect` | `Spec => []TypeOK` | none |
| `SyncCycleProofs!RotationBounded` | `Spec /\ []NoGhosts => []RotationBound` | `resync()` leaves no deleted list behind (`NoGhosts`; the run `cycle_ghost_list` shows how it may) |
| `SyncCycleProofs!RotationWithoutResync` | `Spec => []RotationBound` | `resync()` is not called without a list (`~ResyncAll`) |
| `SyncCycleProofs!RosterFollowsGraph` | `Spec => []RosterIsGraphs` | none |
| `SubscriptionsProofs!TypeCorrect` | `Spec => []TypeOK` | none |
| `SubscriptionsProofs!OneSubscription` | `Spec => []OnePerList` | none |
| `NodeHostProofs!TypeCorrect` | `Spec => []TypeOK` (of `Scheduler`) | none |
| `NodeHostProofs!AlarmIsFollowed` | `Spec => []AlarmHasTimer` | none |
| `NodeHostProofs!FailedRunLeavesAlarm` | `Spec => RunLeavesAlarm` | none |
| `NodeHostProofs!PunctualAlwaysHolds` | `LockSpec => []PunctualHolds` | none |
| `NodeHostProofs!OneProcessWhileInTime` | `LockSpec => []OneProcess` | no process is as late as the lease is long (`MaxLate < Ttl`) |
| `HttpProofs!TypesHold` | `Spec => []TypeOK` | none |
| `HttpProofs!AlwaysBurnedBeforeUse` | `Spec => []BurnedBeforeUse` | none |
| `HttpProofs!LateNeverGetsAnything` | `Spec => []LateGetsNothing` | none |
| `HttpProofs!AlwaysStallsLate` | `Spec => []StallsLate` | none |
| `HttpProofs!NoSessionLeaks` | `Spec => []SessionsReleased` | none |
| `HttpProofs!ReportAlwaysTrue` | `Spec => []ReportIsTrue` | none |
| `HttpProofs!NeverNeedlessCopy` | `Spec => []NoNeedlessCopy` | none |
| `ToolsProofs!MarkerNeverLies` | `Spec => []MarkedIsFresh` | none |
| `ToolsProofs!RetriesAreSafe` | `Spec => []Retries` | none |
| `ToolsProofs!MyDayIsNoted` | `Spec => []WrongOnlySinceScan` | none |
| `ToolsProofs!UpdatesAreExact` | `Spec => []UpdateIsExact` | none |
| `ToolsProofs!MovesAreSafe` | `Spec => []MoveIsSafe` | none |
| `ToolsProofs!IndexAlwaysCatchesUp` | `Spec => []IndexCatchesUp` | none |
| `ToolsProofs!ConfigIsKept` | `Spec => ConfigKept` | none |
| `OrderProofs!PagesAreExact` | `Spec => []PagesExact` | none |
| `OrderProofs!OrdersAreAsAsked` | `Spec => []AsAsked` | none |

A module's own assumptions are on the types of its constants, and that "undefined" (`None`) is none
of the values it stands beside (`TokenAssumption`, `CycleAssumption`, `SubscriptionsAssumption`,
`ToolsAssumption`, `MoveAssumption`, `ConfigAssumption` and so on, each in the module that declares
the constants). `QueryAssumption` also says that task ids are numbers, as SQLite orders them, and
that a page has room for a row; `OrderAssumption` that there are finitely many tasks, and
`CycleAssumption` finitely many lists. TLC evaluates
them in every run.

The arguments:

- **SerialRefresh.** `SingleFlight` is not inductive: nothing in it says that a flight waits for the
  right one. `Queue` adds that, under the current generation, there is at most one flight per slot
  and each has its slot; that the chain ends in the flight launched last, and every other live
  flight is the one it waits for; that only waiting flights have a predecessor; and that any two
  flights of one generation are ordered by who waits for whom. Two flights past the chain would
  both have no predecessor, against the last. A reset empties slots and chain, but bumps the
  generation, so the old flights leave the scope of every clause but the last.
- **NewestStored.** The property lets a stored token be old only while somebody carries its
  successor, so `Newest` says what a carrier knows. `Alone`: when no refresh overlaps a reset, every
  pending flight is of the current identity, so what it loaded was the record of the account.
  `Loaded`: until it stores, that record is still the stored one, or a later sign-in has replaced
  it - which needs `Queue`, since a second flight past the chain could store in between.
  `AnswerIsNewest`: a good answer is the newest of its family. `Numbered` and `Unspent` keep the
  families apart: a callback that has yet to store its family is the only one to know it.
- **ServedListComplete.** `Covers(rows, link)` says that what is gathered, laid over the index, is
  what Graph had when the round of `link` began, save for what the round still has to report. `Inv`
  keeps it for the durable links (`CursorRight`, which is what a restart leaves) and for the call
  in memory (`RoundRight`), with `Ordered` for the times. A deltaLink leaves nothing to report, so
  for it `Covers` is `SyncedIsComplete`. The two assumptions are needed: without them the run
  `delta_resync` and `Linkless` give counterexamples.
- **ListIndexImplemented.** Under that invariant every step maps to a step of `ListIndex` or leaves
  its variables alone: `Commit` of a last page is `CatchUp` to the moment its round began, of a page
  in the middle `CatchUp` without advance; a 410 and `resync()` are `Purge`; `ToolWrite` and other
  clients are `Change`, `WriteThrough` is `Note`. Two clauses are added for it: `Past` (no row and
  no write on its way is newer than the task it is of) and `Newer` (what a round has gathered may
  replace the rows there are, at any time before it does), which is what makes a commit no step
  back.
- **GrantsOfOwner** ties each step of the callback to what it has already stored and to the epoch it
  bumped: a live grant's account is that of the callback in progress or of the stored tokens.
- **NeverMixed.** While there is no doubt, rows, cursors and a cycle in flight are those of the
  known owner or, before the identity is stored, of the tokens (`Sure`). `Wiped` says for each step
  of the callback what the wipe has emptied by then, which is why the next account's rows meet none.
  Every cycle that fetches with the old tokens past the emptying is one that was in flight at it, or
  began before the tokens went, and makes the doubt; a death in the callback makes it only where
  tokens and identity differ, since at any other step what is stored agrees.
- **RosterFollowsGraph** is inductive with `UnlinkedIsGhost`: without a link, every row of the
  roster is one that `resync()` left behind, so what a baseline does not bring is accounted for.
- **RotationBounded.** `RotationBound` says how often a list `l` may be passed over, but nothing of
  what is still ahead of it. `Account(l)` adds that up: the pages that passed-over cycles have spent
  for certain (the budget, less one for each broken list), what this cycle has spent (`Paid`), the
  pages that the lists before `l` still need (`Debt`), and one for each list before `l` that cannot
  be fetched this time (`Failing`). No step of a cycle adds to it. A page that is fetched moves
  from `Debt` to `Paid`, and a finished round puts its list behind `l` for good, since it is now the
  last one synced - this is where the order by `last_synced_at` is needed: with an order by tier
  alone the step is false. A failed list moves from `Failing` to `Paid`. The plan adds nothing,
  since what it puts ahead of `l` is what did not come after it. A cycle that ends before `l` has
  spent its whole budget. `Debt` has no page of `l`, so it is less than the pages of all baselines,
  and a fault, a request or a change adds no more than that. A ghost is outside of the account: it
  takes a page in every cycle for ever, hence `NoGhosts`.
- **OneSubscription** rests on `Table`. What a cycle read it may use much later, so the invariant
  says of each phase what is still true of it: what was taken for dead stays dead (`DeadAreDead`), a
  list taken to lack a subscription still has none that is recorded (`LackIsLack`), what is to be
  renewed is recorded (`DueTracked`), and a subscription just created is the only one for its list
  to get a record (`CreateIsNew`); `OpSound` says the same of the request on its way. A record names
  the list its subscription watches (`RecordsAgree`), so two live ones for a list would have been
  two creations for it. A renewal whose answer comes after `recreateSubscriptions()` does put its
  record back: it is one of those given up (`old`), which every clause, as the property, leaves out.
- **AlarmIsFollowed.** Timer, waiting fires, the fire that has read the alarm and the read at
  startup hand over to each other. The answer of the startup read replaces the timer, so the
  invariant needs `BootIsFresh`: until then nothing else has happened, and the alarm is the one that
  was read.
- **FailedRunLeavesAlarm** is an action property: in a process that goes on, only the retry ends a
  failed run without another fault, and it stores an alarm if none is there and keeps one that is.
- **PunctualAlwaysHolds.** `PunctualHolds` says nothing of the row's age, on which the takeover
  depends; `Covered` adds that the row of a process that is in time is no older than that process is
  late, so its row cannot have expired.
- **MarkerNeverLies.** A marker is set where a scan stores what it fetched, stale or not. What makes
  that right is the feed: `FetchIsFresh` says that the answer a scan holds is Graph's until the feed
  has news of the task; `DueUnmarked` that a task in the batch has no marker; `NoGhostRow` that no
  row is left of a task once the feed has told of its deletion. So whatever is stored over something
  newer is of a task that the next delta round marks dirty again, or of one in `stray`, which leaves
  it only when a fetch brings the task's items.
- **AlwaysStallsLate.** `Progress` counts the rounds of a session: every one that was not wasted
  brought Graph a whole range (`Chunk * (guard - wasted) <= got`), and Graph never has all bytes
  while the session goes on. So fewer rounds than the file has ranges were not wasted, and of
  `MaxIterations + 1` at least four were. It needs `got <= start`: no range starts before what Graph
  has. The links need only that a spent link stays spent (`LateIsSpent`).
- **ReportAlwaysTrue** and **NeverNeedlessCopy** share `Reports`: what a request compares with and
  reports is on the task, from which nothing is taken away (`Told`); the list it compares with has
  what the task had when the request came (`Seen`); whatever landed was compared with all of that
  (`Needful`), at the moment a file is let through and for good, since the list of a request does
  not change; the file of a session in progress is one the batch has not attached (`Unsent`), which
  is what its last range relies on. What an earlier request attached without an answer is on the
  task when the next one comes, so it is compared like the rest. Three lemmas say what a step that
  reports nothing, one that reports a result and one that only moves on leave of them.
- **RetriesAreSafe.** `Counted` ties the counters of the code (`retried401`, `retried429`) to the
  bad answers there have been: they count exactly those of the request at hand, since `NextPage`
  begins the next one anew. So a request gives up only over its budget. A write is carried out at
  most once because each answer that is retried is one the service gives before it does anything,
  and what is to be sent has not been carried out (`graph = 0`).
- **MyDayIsNoted.** A scan stores what it fetched some awaits ago. `FetchIsTrue`: what it has seen
  is Exchange's, or the list has changed since and is noted as such.
- **UpdatesAreExact.** `Dated`: a call with a completion date has an open task before its last
  request and a completed, dated one behind it, unless another client came between. `Tagged`: an
  ETag still to be sent is the task's, as far as this call goes, and the reset clears it, so it is
  never the call's own change that refuses it.
- **MovesAreSafe.** `Kept` is what nothing-is-lost needs at every step: the source has all that was
  seen of it, or another task has, and that one is not the copy which an abort would delete. The
  second half is what a re-parent that is carried out late threatens. `Source`, `Copy` and `Arrived`
  follow the call: which parts the copy has, that the source is there until it is deleted, and that
  the row tells what the moved task has. `First` counts the tasks there are in a first call, which
  is what the answers "moved" and "copied" claim; a repeated call may find the leftovers of an
  earlier one, and the answers say so.
- **IndexAlwaysCatchesUp.** `Reported` (for the task tools) and `Known` (for a move) say of each row
  that it is right or that the feed has news of it, also between a request and its write-through,
  where the change is in the feed already. A deleted list takes its task with it, whose row goes
  when the list is reported.
- **ConfigIsKept.** Every tool reads the whole record, changes it and writes it whole. `Loaded` says
  of each call that what it is about to write differs from what is stored in its own fields only,
  unless it is `raced`, which every write makes of the calls that have read before it. `Pinned`: a
  class that `list_lists` told is the pin of its list, unless the config was set since, or stored
  over another call's write; it holds after `StorePins` because a class is told only together with
  the pins that record it.
- **PagesAreExact.** `Paged` says where the client is: of the rows that nobody has written since the
  first page, those that pass the filters and do not come after the cursor have been read once, and
  no other has. A write keeps that, since what it touches counts as written from then on. A page
  keeps it because it holds the first rows beyond the cursor (`PageIs`), with no gap: a row is in
  the page, or comes after its last one. What makes the last row of a full page a sound place to go
  on from is that the order is total (`BeforeIsOrder`), ids included, so nothing ties with it.
- **OrdersAreAsAsked.** `OrderOk` carries what the tool has computed through its awaits: the order
  in hand fits what was read (`NewFits`), or nothing does (`NothingFits`), as long as nothing moved
  since. Both rest on `ComputedFits`: `computeReorder` answers with an order that fits whenever one
  exists. Next to a reference that is arithmetic on the nearest neighbour; for an index it is the
  middle of two ranks, and that there is a task of each rank follows from the tasks being finite
  (`HighestIs`, by a least element among the sets of tasks above one, and `RankIs`).

Four things came to light while proving and were put right in the models. Where two guards of a
CASE overlap, TLA+ leaves open which branch is taken, while TLC takes the first: `Failed`,
`EndCycle` and the table of the task tools now use IF or guards that exclude each other. An id that
a small instance gives out twice could meet an old record of it; `Unknown` excludes that. A page
was sorted by an operator that picks one sequence of many; `FirstOf` states what a page is. And the
plan of a cycle was sorted by one that, where lists tie, leaves open what it picks, while TLC always
picks the same; `Plan` now takes any order in which nothing stands before what it should follow.

Checked by TLC only: the liveness properties (they need fairness and ENABLED). Every invariant and
every action property of a passing run has a theorem.

## 7. Not modelled

- Migrations: a list of SQL statements run once, synchronously, in the constructor; nothing
  interleaves with it.
- The Cloudflare host: wiring. The platform's alarm, storage and KV are what the modules assume.
- SQL text, the ranking of the full-text search, JSON schemas, the texts of answers, HTML pages and
  logging: formatting or pure I/O without state of its own. A merged page of `search_tasks` is
  modelled; that its limit counts duplicates of the two sources is not a state of the system.
- Refusals of malformed arguments, `find_task_list`, `sync_status`, `whoami`, and the editors of the
  link rules and of the attachment policy: reads, or records no other component's order depends on.
- The OAuth protocol between MCP clients and the worker: a library; only the epoch check on grants
  is the code's own. Cookie and token cryptography.
- The webhook's checks of size, payload and `clientState`, the SQLite KV store's expiry sweep, and
  the background tasks a shutdown drains.
- In `TaskTools` and `MoveTask` a delta round waits for a write-through that is on its way;
  `DeltaSync` interleaves the two.
