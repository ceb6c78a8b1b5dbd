# smorg in TLA+

smorg is a terminal dashboard: one tab per connected integration (Linear,
GitHub, Google Calendar, Spotify), one Textual application that shows them, and a
command line that connects and removes them. Its program is
`src/src/smorg/`; paths below are relative to that directory. This directory
holds TLA+ modules of the parts whose correctness depends on the order of steps,
the TLC runs that check them on small instances, and TLAPS proofs of what
matters most for every instance. `PROJECT.json` maps each definition to the lines
it models and lists the runs, the hazards and the theorems.

## 1. Inventory

The program has three kinds of concurrency:

- **threads**: every fetch of a tab, every detail load, every removal and every
  login runs on a Textual worker thread (`@work(thread=True)`, not exclusive, so
  two fetches of one tab may overlap). Results reach the UI thread by
  `call_from_thread`, which blocks the worker until the UI thread has run it.
- **coroutines**: the UI thread runs handlers one at a time, but `drop_tab` and
  `add_tab_live` await inside, and other handlers run there. Timers repaint and
  animate between them.
- **processes**: `smorg connect`, `smorg logout` and the dashboard are processes
  over the same `config.toml`, credential store and `state.json`, with no
  lock between them.

And the services change while a fetch asks them one request after the other.

| component | state | operations | what is hard | what makes it correct |
|---|---|---|---|---|
| private files (`core/config.py`) | a file and its one temporary | `write_private_file`; readers | several writers share the name of the temporary; any system call fails; a process dies anywhere | a write is all or nothing; a reader sees a whole file; a leftover temporary is not in the way |
| config file (`core/config.py`) | the tab entries, in order | load, save, `add_tab`, `reorder_tabs`, `apply_tab_order` | read and written by several processes with seconds or minutes in between | no change of another operation is undone; no tab lost or doubled; the order is the one that was shown |
| credential store (`auth/store.py`) | a token per integration | get, set, delete on keychain or file | the file store reads and writes all integrations at once, under locks that are per integration | no update is lost |
| token refresh (`auth/refresh.py`) | a lock per integration | `credentials_for`, `fresh_credentials` | refresh tokens that rotate; responses and writes that fail; logins and removals that take no lock | no spent refresh token is presented; one refresh serves all; the lock is always released |
| browser login (`auth/login.py`, `auth/oauth.py`) | a callback server, a deadline, a cancel flag | `perform_login`, `cancel` | escape, the callback and the deadline within the same second | only its own answer is accepted; a login stops when told; every login ends |
| removal (`core/removal.py`) | none of its own | `remove_integration` | a sequence of writes of three stores after a network call; each may fail | no token without a tab; nothing comes back |
| seen state (`core/state.py`) | marks in memory and in `state.json` | load, mark, save, `forget` | each save writes all of the marks in memory | purged marks stay purged |
| command line (`cli.py`) | none | `connect`, `logout`, `status`, run | runs beside a dashboard that does not see its changes | as for removal |
| management menu (`shell/menu/`) | the screen on top; the reorder screen's list | add, remove, reorder | workers that finish after a dialog is gone; failures between two writes; a config that changed since it was read | the dashboard shows what is configured, in that order |
| dashboard tabs (`shell/app.py`) | `tab_ids`, mounted panels, the active tab, `_fetched_at` | activate, focus, refresh, `add_tab_live`, `drop_tab` | awaits in the middle; workers of a tab that is gone | the tab in front is never left at "loading"; tab keys find their tab |
| tab fetches (`shell/app.py`, `shell/panel.py`, `shell/view_host.py`) | items and state of a panel, the sweep | `refresh_tab`, `_fetch_tab`, `_fetch_items` | overlapping fetches land out of order; failures in between | state and items agree; the sweep brackets the fetch |
| refresh indicator (`shell/refresh_indicator.py`) | stage, timer | `show_stage`, `_hide` | replaced while a worker still reports to the old one | the bar never gets stuck partway |
| detail cache (`shell/panel.py`) | details, errors, one pending key | `request_detail`, `reload_detail`, `show_detail`, `show_detail_error`, `prune_detail_cache` | messages handled after a tab switch; a list that is refreshed under an open page | every open page has, or will get, its detail or an error |
| cursors and pickers (`shell/cursor.py`, `shell/picker.py`) | a cursor per list | `step_cursor`, `clamp_cursor` | rows that leave the list between two keys | a cursor selects a row that is there |
| Linear navigation (`integrations/linear/panel.py`, `navigation.py`) | a trail of visits, the view in front | open, go back, jump to a crumb, open from a picker | all pages of a kind share one widget | a page that is returned to is as it was left |
| Linear views (`integrations/linear/views/`) | the mark's times, the changed set; the rows of a tree | keys, repaints, `fetch_started`, `fetch_finished`; `issue_tree` | a frame clock that stands still, fetches that overlap, repaints at any time; parents in circles | the mark tells what is new and ends its pass; every issue has its row under its parent |
| Linear source (`integrations/linear/source.py`) | none | `fetch`, `fetch_detail` over an MCP session | a session renewed between two pages of a list | lists are whole, counts are honest |
| MCP client (`core/mcp.py`) | a negotiated version per endpoint | `McpSession` call, handshake, retry | a handshake that is skipped on a cached version, and one retry | a call is retried at most once and only when that may help |
| GitHub source (`integrations/github/source/`) | none | searches, profile, detail, diff, qualification | each request sees the service at another moment; lists are cut at limits | a branch has one place; a page says so where it may be incomplete |
| GitHub pushed branches (`integrations/github/source/pushed/`) | a cache of repository activity, a probe cursor | `plan_refresh`, probe, save | two refreshes load, probe for seconds, and save the whole cache | every cold repository is probed in the end; nothing learned is lost |
| GitHub panel and views (`integrations/github/panel.py`, `views/`) | the view, the pull request and the diff in front, cursors, the selected file | keys, landings, the marquee's timer | a detail lands twice, or while another page is in front | the selected file is one of the diff shown |
| Google Calendar (`integrations/gcal/`) | a window of two weeks, the focused day, cursors | shift, jump, arrows, fetch, lay out a day | midnight, a window that moves under the focused day, widths that change | the focused day is found; arrows step from what is highlighted; chips do not overlap |
| Spotify (`integrations/spotify/`) | one cached cover, shared by threads | fetch | one part of a fetch failing; fetches that overlap | a fetch degrades part by part; the cover is that of the track |
| contract, registry, sanitizers, shapes, update check, PATH setup, rendering | static, or one frame's | pure functions, single requests | - | - |

Interactions: `Dashboard`'s fetch workers call `fresh_credentials` (token
refresh), which reads and writes the credential store, which with the file
backend is a private file, as are `config.toml` and `state.json`; then the
integration's source, which for Linear goes through the MCP client. What a fetch
brings lands in the panel, whose views read it at each key and repaint. The
management menu and the CLI call login, removal and the config file, then
(the menu only) `add_tab_live` or `drop_tab` of the dashboard.

## 2. Modules

| module | models | abstraction of the neighbours |
|---|---|---|
| `AtomicFile` | what callers of `write_private_file` are promised: an atomic register | - |
| `PrivateFile` | `write_private_file` and its readers, one system call a step | callers are processes that write a value |
| `TokenRefresh` | `credentials_for` and `fresh_credentials` on worker threads, the store, the token endpoint, one login or removal at a time beside them | a write of the store is atomic (`PrivateFile`) |
| `Login` | `perform_login` under the connect modal and under the command line, over the ports and the pages of the browser | storing a token succeeds or fails (`Connections` goes on from there) |
| `Connections` | connect, logout, the menu and a dashboard over the three stores | each store is the set of integrations it has something about |
| `TabOrder` | the order of the tabs in the config, on screen and on the reorder screen, while commands add and remove tabs | what the other stores hold (`Connections`) |
| `Dashboard` | tabs, fetch workers, panels, refresh indicator, live add and removal | a fetch gives a version of the service's data or one of two failures; credentials are there or not |
| `DetailCache` | the detail cache under the pages of Linear and GitHub | the list of a tab changes at any time (`Dashboard`) |
| `Cursor` | the cursor arithmetic of all lists | - |
| `PageStack` | what the pages of the Linear tab promise: a stack of pages, each with its own place | - |
| `LinearPages` | the views of the Linear tab, the trail and the pickers | rows are read anew at each use; the details' requests are `DetailCache`'s |
| `LinearMenu` | the landing view of Linear: its mark, over fetches, marks and repaints | a fetch brings versions of issues or fails |
| `IssueTree` | the tree of a project's issues | the issues have any parents |
| `McpSession` | the sessions of one MCP endpoint, over the version cache they share | a request is accepted or fails; what it returns is not looked at |
| `LinearFetch` | the jobs of the Linear source, each over a session of `McpSession` | what a tool lists is a sequence of pages |
| `PushedTiers` | which repositories the refreshes of the GitHub tab ask about pushes, and the cache of the answers they share | discovery, the feed and the requests answer, fail, lag or leave things out |
| `GitHubFetch` | one fetch of the GitHub tab: searches, profile, qualification of the pushed branches | a branch is in one of a few conditions, which change meanwhile |
| `GitHubDetail` | the requests of a pull request's page and of its diff, over reviews, comments and files that grow | entries are compared by their place in the list |
| `GitHubScreens` | the views of the GitHub tab, their keys and what lands under them | details land at any time (`DetailCache` is about who asks) |
| `CalendarFetch` | one fetch of Google Calendar, calendar by calendar and page by page | an event is its start and how it reads |
| `Calendar` | menu, day and week view, the focused day, the window and the clock | a fetch brings the number of timed events of each day |
| `Lanes` | the layout of the timed events of a day in lanes | times are slots |
| `SpotifyFetch` | overlapping fetches of the player, with the cover they share | a track stands for its cover |
| `Lists` | what the program does with its lists: keep the entries that pass a test, sort by a key (used by `TabOrder`, `LinearFetch`, `CalendarFetch`, `IssueTree`) | - |
| `PrivateFileProofs`, `TokenRefreshProofs`, `LoginProofs`, `PushedTiersProofs`, `ConnectionsProofs`, `DashboardProofs` | the theorems of the module each is named after | - |
| `SourcesProofs` | the theorems of `Lists`, `McpSession`, `LinearFetch`, `CalendarFetch`, `SpotifyFetch`, `GitHubFetch`, `GitHubDetail`, `TabOrder`, `IssueTree` | - |
| `ScreensProofs` | the theorems of `LinearPages`, `LinearMenu`, `Calendar`, `Lanes`, `GitHubScreens`, `DetailCache` | - |
| `MC...` | symmetry sets, small inputs, and which parts move, for TLC | |

`LinearFetch` EXTENDS `McpSession` and takes its steps with the session's; `GitHubScreens`,
`LinearPages` and `Calendar` EXTEND `Cursor`. `PrivateFile` implements `AtomicFile`,
`LinearPages` implements `PageStack`.

### PrivateFile

A directory has two names, `target` and `temporary`, each an inode or `None`;
`content[i]` is the payload of inode `i`, `Partial` while it is not all written.
`write_private_file` is `Begin`, `Unlink` (unlink with `missing_ok`),
`OpenExclusive` or `OpenFindsOther` (`O_CREAT | O_EXCL`), `Write`, `Replace` or
`ReplaceFindsNone` (`os.replace`); `CallFails` and `WriteFails` are an `OSError`
at a call, `Cleanup` the unlink in the `except` clause, and `Crash` ends every
process. `Locked` says whether callers exclude each other:
`ActivityCache.save` is called under a lock, `save_config`, `SeenState.save` and
`_FileStore._write` are not. A crash is the end of a process, not of the
machine: the code does not `fsync`, and what a file system does to unsynced data
is outside the model. `O_EXCL`, `os.replace` and unlink are atomic, as POSIX
says.

### TokenRefresh

A credential is the number under which the provider issued it: `issued`, `spent`
(its refresh token was used up) and `expired` are the provider's and the clock's
view, `store` what is stored, `lock` the table `_locks`. A worker goes
`Start`, `Get`, `Acquire`, `Recheck` (the second look, under the lock),
`Refreshed` or `Refused` or `ResponseLost`, `PersistRead`, `PersistWrite`, and
`Finish` inside whichever step returns or raises. `Refreshable` are the
integrations whose credentials have a refresh token and a client id; the others
return what is stored. `PerEntry` chooses the store: the keychain replaces one
entry, `_FileStore.set` writes back the payload of every integration as it read
it. `Outsiders` adds a login or a removal, one at a time, which read and write
the store without the lock. `Crash` ends the process with its locks.

History variables: `logins`, `removed`, and `spoiled`, set when a rotated token
is lost between the endpoint and the store (a lost response, a failed write, a
crash). The code cannot repair that, and the safety properties except spoiled
integrations; nothing but a fault ever sets it.

### Dashboard

What a panel shows is the number of the version of the service's data it was
fetched from, so that going back to older data can be seen. UI handlers are
atomic up to an await: `drop_tab` is `DropTab` and `PaneRemoved`, `add_tab_live` is
`AddTabLive` and `PaneAdded`, and any handler runs between the two. A worker's
step is one access to state shared with others, or one `call_from_thread`:
`Check`, `FetchStarted`, `Resolve`, `StageFetching`, `Fetch`, `Stamp`
(`_fetched_at`), `Land` (`_show_items` or `_show_error`), `FetchFinished`,
`Report`. Panels are objects: a worker holds a reference to the one it was
started for, also when that one is no longer mounted. `barred[w]` says that the
indicator `w` reports to is the one that is mounted now.

### DetailCache

A key is an item and a stamp (`detail_key`: id and `updated_at`); stamp 0 is
`UNKNOWN_UPDATED_AT`, of an item named by a page but not in the list. The cache
compares keys only, so the keys of one item at three stamps stand for several
items too. `Open` pushes a page and asks for its detail by `RequestDetail` or
`ReloadDetail`; the posted message is handled by `DetailRequested`, for the tab
that is active *then*, which may be another integration (it answers with an
error) or one that this build does not support (the app ignores the request:
history variable `dropped`). `ShowItems` is a landed fetch of the list and the
pruning that ends it.

### Connections

An operation is a sequence of reads and writes of single stores. `smorg connect`
loads the config, logs in (`StoreToken`), and saves what it loaded plus the tab
(`SaveTab`); the menu's `open_tab_for` stores the token, loads, saves, and mounts
the tab. A removal loads the config, revokes, deletes the token, unlists the tab,
recalls the marks and purges them (`DeleteToken`, `UnlistTab`, `RecallMarks`,
`PurgeMarks`); the menu's also drops the tab. `GiveUp` is an operation that ends by
`CredentialStoreError` or `ConfigError`, at the purge too (`state.save()` raises it), and
leaves a dashboard running; `Die` is the end of a process; `CutShort` is what either
leaves half done. `StartDashboard` reads the config and
the marks in one step; they are two reads in the code, with no write of its own
between them.

`Overlap = FALSE` lets operations interleave with the dashboard but not with each
other, which is what one user at one keyboard does. With `Overlap = TRUE`
`ConnectedIsATab` is false: `remove_integration` and `_connect` load `config.toml` before a
network call or a login and save what they loaded after it, so a removal of one
integration that overlaps the connect of another saves a config without the new
tab. History variables: `gone` (removed, no login since), `cutConnect` and
`cutRemove` (an operation was cut short between its two writes), `behind`
(a command changed the integration beside a running dashboard, whose
`tab_ids` and marks in memory do not follow), and `stranded` (the menu's removal took the
integration from the config and failed at the purge: `RemoveConfirmModal._fail` leaves its
pane on the screen).

### Login

A login is one call of `perform_login`, by `ConnectModal` (`Modal`) or by a process
of the command line. It goes `Bind` (the server listens; a port that is taken
raises), `Prepare` (metadata, registration, the authorize page), then `Poll` and
`ServeRequest` or `ServeNothing` until an answer was accepted, the deadline has
passed or escape was pressed, then `Decide` and `Exchange`. On the UI thread, or in the
command, follow `Close` after an error, or `Store`; a store that fails (`StoreFails`) is followed by
`HandBack`, which is `revoke_best_effort`: the token is revoked, or it is not and nobody looks
(`"unrevoked"`). `queue[p]` are the connections that wait at a port: answers of
authorize pages, which outlive their login and may be answered twice, stray
requests, and connections that send nothing. A static provider listens on
`REGISTRATION_PORT`, all others on a port the system chooses (`Port`), so `Fixed`
logins meet each other's pages. The `state` parameter is the login it was made for,
and so is the PKCE verifier: guessing either is outside the model.

`overrun` counts the connections served after escape or the deadline; `late` is the
deadline having passed; `answered` is a history variable, the answers the user has given in
the browser, wherever they arrived. A silent connection is `"stuck"`: `handle_request`
waits for its first line with no time limit.

### McpSession

A session is made by each fetch and each detail load. `New` reads the shared
version (`cache`) and skips the handshake if there is one; otherwise `Initialize`,
`Notify` and `Record` are the two posts of `McpClient.initialize` and the
assignment that follows them. `CallFails` of a session that skipped leads to `Drop`
and through a handshake back to the call; of any other, it ends the session.
Endpoints are independent of each other, so there is one. `speaks` is the set of
versions it takes now, `Deploy` changes it at any time; a request whose header
names another version is refused (the docs say so of Linear). A server that
takes more than it names only removes failures. An unreadable handshake leaves
the client's version as it was, which after a skip is the *cached* one, not
the one asked for (`core/mcp.py:164` says otherwise): `CacheWasSpoken` shows that the
notification stops that from spreading.

### PushedTiers

A refresh (`query_pushed_branches`) is `Load` or, of an unreadable file,
`LoadNothing`; `Ask`, which is discovery, the feed, `plan_refresh` and all of its
requests; and `Save`, or `GiveUp` when discovery fails or the file cannot be
written. Several refreshes overlap, each with the records it loaded (`copy`).
What the records know of a repository is the tier of its newest push: a stamp
is `Hot` (30 days), `Cold` (90) or `Old`, which stands for `None` as well, since
`plan_refresh`, `should_promote` and `observed` treat the two alike. `Age` is the
passing of time. The dates of the records are only compared, so they are ranks.
A failing repository (`Failing`) may leave a request unanswered, or answer
without the viewer's push. Of several retired repositories asked at the same
time the code takes the first of the list, the model any. What is shown of
the branches found (`qualification.py`) changes no state and is left out.

### TabOrder

`config` is the sequence of tabs in `config.toml`, `shown` the order on screen, `order` the
reorder screen's own list. A command or the menu's removal reads the config when it
begins and saves what it read, changed, when it ends (`OperationSaves`), however long
its login or revocation took. A command leaves the screen alone (`CommandEnds`); the menu's removal
drops the tab (`RemovalEnds`), unless it fails at the purge of the seen marks
(`RemovalFails`). The menu's add is `ChooseInMenu`, which offers what is not in the config, and
`AddInMenu` after the login, which loads the config anew and appends to the screen whatever
is there: a tab that is shown and not configured is then listed twice, as in `tab_ids`. What
Textual does with a second pane of the same id is its own matter and not modelled. `SaveOrder`
writes the entries the config has *then* in the order of the screen (`Reordered`: those the screen does not name keep coming after). History variables:
`wanted`, `touched` (changed in the config and not on the screen: by a command beside the
dashboard, or by a removal that failed after its save), and `overwritten`
(a save was made from a config older than another save: of two operations that
overlap, the one that saves later undoes the other).

### LinearPages and PageStack

Pages of one kind share one widget, so the place of a page (its cursor, and whether a
project shows its issues) is in the widget while it is in front and in its `Visit` while
another is on top (`Remembered`, `ShowTop`). `Places` puts the two together, and is
refined to the stack of `PageStack`, where opening a page leaves the others alone and
going back brings the page as it was left. An issue opened on top of another, or of
itself, is the case where one widget has to serve two visits. Rows come and go with the
fetches, so each key reads them anew.

### LinearMenu

The mark of Linear's landing view has a clock of frames that runs only while the view is
in front. `Note` is `_note_changes` (a repaint remembers which issues have changed since
the user saw them, and starts a flash for what is new), `MenuFetchStarted` and
`MenuFetchFinished` start a sweep and let it end with its pass. The model counts frames
instead of seconds. `news` is what has become unread since the issues were looked at.

### IssueTree and Lanes

Two algorithms whose steps are actions, so that what they have built so far is a state.
`IssueTree` takes the parents as they come: outside of the project, or in a circle. `Lanes`
places one event after the other in the order of their start; a lane is free when
the last event in it ended.

### LinearFetch

A job (the tab, an issue, a project) calls its tools in turn over a session of
`McpSession`, page by page, at most `PageLimit` pages of a list. A call that is refused renews
the session and is repeated, so a page may be asked for twice; an answer that cannot be
read fails the job.

### GitHubFetch and GitHubDetail

Each request sees the service at its own moment; between two of them a branch changes
its condition (`Moves`) or reviews, comments and pushes arrive. The three searches claim a
pull request in order, so that what was asked of the user is not listed as the team's as
well. Pushes are found in the repositories that are asked and answer; the newest `MaxPairs`
branches are asked about in one query, and the newest `MaxBranches` that qualify are shown. Of
pushes of the same date the code takes the first it met, the model any (`Newest`).
`GitHubDetail` reads each list from its oldest entry to its limit and keeps the
newest of what it has read. If the requested reviewers cannot be read, nobody is shown as requested
(`readable`). Of comments and files the page says that there may be more; that there are reviews
beyond `REVIEWS_FETCH_LIMIT` it says nowhere. History variables: `altered` (a branch's condition changed since
the fetch began), `stood` (how each reviewer stood
while the job ran) and `had` (the lengths of the lists when they were read).

### GitHubScreens

The views and keys of the GitHub tab, with details and diffs landing at any time and in any order,
twice if two workers load the same. The marquee's timer reads the selected file
between keys, so `selected` must be a file of the diff in every state, and not only
after a key.

### CalendarFetch and Calendar

A fetch reads the zone, the list, and the events of each selected calendar; a calendar that
is gone (404) is left out with all of its pages, and anything else fails the fetch. In
`Calendar` days are integers and Mondays multiples of seven. A key is handled before the
repaint it asks for, so that `paint` tells which repaints fail. The window, the days that
fit a width and the cursor are computed from the clock at each use. `Midnight` stands
for the change of the time zone too.

### SpotifyFetch

`_cached_art` is one global for all threads: a fetch of an overlapping refresh may replace
it between the check and the use. The playlist's name and the cover may fail alone;
`end` names the request that failed the fetch, if one did.

## 3. Runs

All runs are small; the bounds are the constants commented "bound" in each
module, and `MaxPanes` in `Connections`.

| run | expects | shows |
|---|---|---|
| `PrivateFile` | pass | under a lock, with failing calls and crashes at every point: never torn, and `AtomicFile` is implemented; without a lock and without faults a file is torn only while one of the callers is still filling it |
| `TokenRefreshKeychain` | pass | no spent token is presented, the stored one is live, one refresh per expiry, what was removed stays removed, every call ends |
| `TokenRefreshFileLost` | violation | with the file store, refreshes of two integrations lose a rotated token |
| `DashboardFetches` | pass | state and items agree, the sweep brackets the fetch, only overlapping fetches go back to older data, neither loading nor the bar lasts for ever |
| `DashboardTabs` | pass | with tabs added and removed live: nothing on screen waits for a step that nobody makes, the tab keys find their tab |
| `DashboardReconnect` | violation | a fetch that outlives the removal of its tab makes the tab, added again, look fresh: it stays at "loading" |
| `Connections` | pass | token and tab go together unless an operation was cut short, what was removed stays removed, the dashboard shows what is configured, but for what was changed beside it or stranded |
| `Login` | pass | a wait is ended by its own page's answer, escape or the deadline, stops within one connection of escape or the deadline, a token is issued only after its page was granted and is stored or asked to be revoked, the modal is up exactly as long as its login, every login ends |
| `PushedTiers` | pass | no record claims a push that was not made; only an overlap or an unreadable file takes back what was learned; a push to a known repository is found in the end |
| `Sources` | pass | what the sources of the four services bring and what the calendar and the issue tree lay out of it, one at a time (below) |
| `Screens` | pass | pages, details, mark, diff and tab order under data that change, one at a time (below) |
| `CalendarStale` | violation | a fetch that fails after one that succeeded leaves day and week views that cannot be drawn |

`Sources` and `Screens` each check modules that share no state. The initial state picks
the one that moves (`source`, `part`), and the others stand still in one state, so a
run's states are the sum and not the product of theirs, and a property of one says
what it would in a run of its own. `PrivateFile` does the same with the callers that hold a
lock and those that do not.

| `Sources` | property |
|---|---|
| `LinearFetch` over `McpSession` | `RefusalIsNews`: a session fails over a refused version only if the endpoint was deployed since its own handshake. `DoneJobsAreWhole`: a done job has every entry it could reach, once |
| `CalendarFetch` | `ItemsAreWholeCalendars` |
| `SpotifyFetch` | `CoversAreOfTheirTracks` |
| `GitHubFetch` | `EveryBranchHasItsPlace`: one, unless it moved meanwhile, or a limit left it out for others as new or newer |
| `GitHubDetail` | `DetailIsHonest`: each reviewer stood so while the page was read, by the reviews that are read; where comments or files may be missing the page says so |
| `Calendar` | `WeekIsLostOnlyWithItsWeek`, `ArrowsStepFromTheSelection` |
| `Lanes` | `RulerIsSound` |
| `IssueTree` | `TreeIsWhole` |

| `Screens` | property |
|---|---|
| `DetailCache` | `PagesKeepDetails`, `PageLoads` |
| `LinearPages` | `ImplementsPageStack` |
| `LinearMenu` | `MarkIsHonest` |
| `GitHubScreens` | `DiffHasItsFile` |
| `TabOrder` | `TabsAreKept`: the config lists each tab once and, unless saves crossed, those that were asked for; the screen agrees, but for what was changed in the config only |

Why the bounds are enough to be interesting:

- *PrivateFile*: two writers are needed for the shared temporary and each makes
  any number of calls; five inodes let both names, a reader and two descriptors
  differ.
- *TokenRefresh*: three workers wait for one lock, so that one refreshes, one
  finds the refreshed token and one may meet its expiry; four credentials let
  two refreshes and a login happen in one behaviour. Integrations of the
  keychain share nothing; the file store, where they do, is
  `TokenRefreshFileLost`, with two. A worker makes one call: a later call is
  another worker. When all workers are done and the bound on credentials is
  reached the model stops, hence `CHECK_DEADLOCK FALSE` there (and in `Login`).
- *Dashboard*: two overlapping workers are the smallest crossing; two versions,
  one of them with no items, tell old from new and "empty" from "ready"; the
  two failures are one that keeps the last good items and one that does not.
  One panel object suffices for one tab, since an object that a worker still
  refers to is never reused. Tab membership is modelled here, tab order in `TabOrder`.
- *Connections*: two integrations are needed for one operation to damage
  another's; two commands and the menu for an operation beside, before and
  after another.
- *PushedTiers*: two refreshes that overlap on one repository (the properties of
  a record speak of one repository), or two repositories that compete for the
  probe of the cold and for that of the retired ones, one of them failing. With
  five cold repositories or fewer a refresh probes one of them; more probes per
  refresh are not exercised.
- *Login*: the dashboard's login and one of the command line, both on the fixed
  port, are the smallest case of a page answered at another login's server; two
  connections waiting at a port let an answer be behind a stray one. Logins that
  listen on ports of their own share nothing. A login is made once, so the model
  stops when all are done.
- *LinearFetch*: two sessions, of a tab and of an issue, over an endpoint that
  speaks every version, all but the one asked for, or none that is known; a
  list of three pages is one longer than the limit of two, and an issue has
  fewer, as many or more comments than a page shows and a call brings.
- *CalendarFetch*: three calendars, one of them not selected; pages with kept,
  declined, cancelled and unreadable events, one list of two pages, so that a calendar may go
  away between them.
- *GitHubFetch*: three branches over searches that bring two, in seven conditions that
  cover every bucket and every way to qualify, and one change during the fetch; two
  pushes to ask about and one pushed branch to show, with pushes of three dates.
- *GitHubDetail*: limits of one or two, with lists that grow past them while the job runs; two
  reviews are read of up to three, so that one takes the place of another and one is not read.
- *SpotifyFetch*: two fetches over two tracks, the smallest case of a cover that is
  replaced under another fetch.
- *Calendar*: a clock that goes from a Sunday to a Monday, which is the only
  midnight that moves the window; days with no, one, two and three events and loads that
  take one away under the cursor; widths with room for one day and for all seven. The keys of the
  day view are the week view's without the columns, so `Sources` moves only in the menu and in the week view;
  `CalendarStale` moves in both and uses every number of columns.
- *Lanes*: four events over four slots and two lanes have every way to overlap three
  deep, so that an event is hidden.
- *IssueTree*: four issues have all parents there are, circles of up to four included.
- *DetailCache*: keys of one item at three stamps fill, overwrite and miss the single
  pending slot; two pages deep is a page under another; the active tab may be the panel's
  own, another, or an unsupported one.
- *LinearPages*: three visits are the smallest trail in which a widget is shared by
  two visits with one in between; lists of no, one and two rows.
- *LinearMenu*: two issues, one with two versions, so that one may be news while
  the other is known; two fetches that overlap; sweeps of two frames.
- *GitHubScreens*: two pull requests whose order changes, diffs of up to two files,
  two workers that load the same diff.
- *TabOrder*: three integrations are the fewest whose order can differ in more than a
  swap; three operations.

In `Sources` and `Screens` the model of a part stops when its job is done or a bound is
reached, hence `CHECK_DEADLOCK FALSE`.

### Fairness

`TokenRefresh`: each worker's step is weakly fair; threads that can run do, and a
request ends by its timeout at the latest (`httpx.Client(timeout=30)`,
`shell/app.py:561`). A
`threading.Lock` gives no fairness, and none is assumed: a worker takes the lock
once, so its competitors run out. `Dashboard`: worker steps are weakly fair for
the same reasons; handling a posted message is strongly fair, because the only
thing that disables it is the model's bound on workers, which the program does
not have. `DetailCache` likewise (`Screens` uses its fairness; while another part moves,
no step of it is enabled and nothing is owed). `Login`: a login's own steps are weakly
fair, and so is the passing of its deadline; the browser and the user owe nothing.
`PushedTiers`: the user's refreshes go on (weak fairness of `Load`); that GitHub
answers discovery, and that the file is written, now and then (strong fairness of
`Ask` and `Save`), and that the file is readable from some time on, are assumptions
about the surroundings, without which nothing would ever be found. No fairness is assumed of users, services,
failures, or time. The other modules have no liveness property: their jobs are loops over
lists that are finite, and screens owe the user no progress.

### Limits stated in the properties

Some properties hold only with an exception, which each states with a history
variable or a constant, never by leaving the case out:

- `spoiled` and `logins`: see TokenRefresh.
- `removed` in `TokenRefresh`: a refresh that is past its second look when the
  integration is removed stores its credential after the deletion
  (`auth/refresh.py:88`; `remove_integration` does not take the refresh lock).
  `StaysRemoved` speaks of the removals no refresh has overtaken in this way, and
  covers every refresh that was waiting for the lock or starts later.
- `"stuck"` in `Login`: while a connection to the callback port stays silent, neither
  escape nor the deadline is looked at, though `auth/login.py:122` says they are
  polled every second. `LoginEnds` requires that the browser closes it in the end.
- escape during the code exchange has no effect: the login goes on and connects.
  `auth/login.py:131` says so of a code that arrived in the same instant.
- `crossed`: two overlapping fetches of a panel may land in either order, and the
  sweep may stop while the second still runs; the next refresh repairs both.
- `Reconnect = FALSE` in the passing Dashboard runs: an integration removed in
  this session is not added again. `DashboardReconnect` is the case where it is.
- `dropped`: a detail requested just before the user switches to an unsupported
  tab is ignored by the app; the page stays at "loading", and asking again does
  not help as long as its key is the pending one.
- `behind`, `stranded` and `touched`: after `smorg logout` beside a dashboard, the dashboard's
  next save writes the purged marks back (`core/state.py:81`), and its menu offers the
  integration though its tab is still shown, so that it is listed a second time
  (`shell/menu/connect.py:48`, `shell/app.py:636`). A removal in the menu whose purge of the
  marks raises `ConfigError` (`core/removal.py:84`, caught at `shell/menu/remove.py:97`) leaves
  the same behind: token and tab entry are gone, the tab is shown, and it can be added again. The
  marks of that integration stay too, since they were not purged.
- `"unrevoked"` and `"lost"` in `TokenIsKept`: a token that cannot be stored is handed back by
  `revoke_best_effort`, whose failure (`core/removal.py:36`, a provider without a revocation
  endpoint, a refusal) its callers ignore (`shell/menu/connect.py:385`, `cli.py:115`). Such a token
  stays live with nobody to reach it, like one whose response or whose process was lost;
  the property says that these are the only ways to get there.
- `lost`, `NoRoomFor` and a full search in `EveryBranchHasItsPlace`: a pushed branch is not shown when
  its repository was not asked, did not answer, or not readably; when `MAX_PAIRS` pushes were
  asked about or `MAX_BRANCHES` branches are shown, none of them older. What a search leaves out
  beyond its limit is not shown.
- `ReviewsLimit` in `DetailIsHonest`: reviews beyond the limit (`github/source/detail.py:153`) are not
  read, so somebody whose approval is among them is missing or shown by an older review, and the
  page does not say so. `StandsLegibly` judges the page by what the job may read.
- `overwritten` in `TabsAreKept`, `Overlap = FALSE` in `Connections`: of two operations that
  overlap, the one that saves `config.toml` later undoes the other.
- `Failing` in `PushIsFound`: a retired repository whose requests fail keeps its
  `last_probed` (`pushed/__init__.py:98` passes over it), so it stays the one
  asked longest ago and takes the one probe of every refresh; pushes to the
  other retired repositories are then found only if the feed shows them, though
  `pushed/__init__.py:71` says that "a single repository's failure only loses that
  repository". The property requires that no failing repository stays retired.
- `crossed` in `LearnedIsKept`: the later save of two overlapping refreshes writes
  the records as it loaded them, without what the other learned.
- `Locked` in `NeverTorn`: the temporary has one name per file, so of two callers
  without a lock the second unlinks and re-creates what the first then renames, and
  a reader opens a file that is not whole, though the docstring of
  `write_private_file` says "atomically" (`core/config.py:99`). `save_config`,
  `SeenState.save` and `_FileStore._write` are such callers;
  `UnlockedTornOnlyWhileWriting` says how long it lasts.
- `cutConnect`, `cutRemove`: a failure between two writes leaves one of token and
  tab; the code reports it and asks for a retry.
- `altered` in `EveryBranchHasItsPlace`: a branch whose pull request is opened between the
  searches and the qualification is shown in neither place, one whose is closed then in
  both, until the next refresh.
- `setOn` in `WeekIsLostOnlyWithItsWeek`: when the day was focused in a week that the clock has
  left, the week view may look for a day that is not in its window
  (`gcal/views/week.py:270`, and the assertion at `week.py:355`).
- `stood` in `DetailIsHonest`: the reviews are read after the requests, so a decision that is
  dismissed in between shows a reviewer as they stood for a moment of the job, not
  at one moment for the whole page.

What is false outright is a violation run, with the line of documentation it
contradicts, under "findings" in `PROJECT.json`.

### Seen while modelling

Behaviour of the code that no property calls wrong, but that a reader should know of:

- `gcal/ruler.py:60` speaks of a cluster's width; the code counts lanes for each event.
- A day opened while the calendar is still loading keeps its cursor on the first event
  after the items land; an event that comes next is selected only if the day is
  opened with its items there.
- A pull request with more reviews or comments than the limit is read from its
  oldest; the "newest" that its page shows (`github/source/detail.py:115`) are the
  newest of those. The page says that there may be more comments; of reviews that it has not
  read it says nothing (`github/views/pull_request.py:179` counts the reviewers it has read).
- A GraphQL 403 of a rate limit is reported as missing access, a REST one as unavailable.
- A repaint of Linear's landing view before its first load makes the whole first load
  news; an issue marked unseen by the user is announced like a change; of two overlapping
  fetches the first to finish ends the sweep of both.
- An issue whose parents form a circle with an issue in flight is in no tree.
- In `LinearPanel`, the branch of `_show_trail_top` for a project below other visits whose
  issues are not shown is never taken: a project is left upwards only by its issues.

## 4. Proofs

Every safety property of a passing run - invariant, action property or refinement - is a theorem
of `tlapm` too, for every value of the constants that satisfies their assumptions. A theorem with
a hypothesis names it in its `ASSUME`.

| theorem | for every | hypothesis |
|---|---|---|
| `PrivateFileProofs!TypeCorrect` | set of writers, readers, inodes | - |
| `ExclusiveNeverTorn`, `ExclusiveOwnTemporary`, `ExclusiveImmutable`, `ExclusiveImplements` | the same | `Exclusive`: callers hold one lock, or there is one |
| `UnlockedLeavesWholeFiles` | set of writers and inodes | callers without a lock, and no faults after the start (`Unlocked`) |
| `TokenRefreshProofs!TypeCorrect`, `LockIsSound` | integrations, workers, stores, bounds | - |
| `KeychainNeverReplays`, `KeychainStoredIsLive`, `KeychainStaysRemoved`, `KeychainRefreshesOnce` | the same | `PerEntry`: one store entry per integration |
| `LoginProofs!TypeCorrect`, `UsersDecide`, `WaitIsBounded`, `PortsAreFreed`, `TokensAreKept`, `ModalIsHonest` | logins, frontends, ports, queue lengths | - |
| `PushedTiersProofs!TypeCorrect`, `RecordsAreEvidence`, `LearnedStays` | repositories, refreshes | - |
| `ConnectionsProofs!TypeCorrect` | integrations, commands, panes | - |
| `TokensHaveTabs`, `RemovalsLast`, `TabsAreShown` | the same | `~Overlap`: one operation at a time |
| `DashboardProofs!TypeCorrect`, `PanelsAreHonest`, `TabKeysFindTheirTab`, `RewindsNeedTwo` | tabs, workers, panels, versions | - |
| `NobodyIsLeftWaiting` | the same | `~Reconnect`: a removed tab is not added again |
| `SourcesProofs!SessionsTypeCorrect`, `SharedVersionWasSpoken`, `RefusalsAreNews`, `RetriesAreBounded` | sessions, versions | - |
| `JobsImplementSessions`, `JobsKeepTheSessions`, `EveryCommentIsCounted`, `JobsAreWhole` | sessions, lists, pages, limits | - |
| `CalendarsAreWhole` | calendars, agendas, pages | - |
| `CoversAreTheirOwn` | fetches, tracks | - |
| `NothingIsHidden`, `PagesAreHonest` | people, limits | - |
| `BranchesHaveOnePlace` | branches, limits | - |
| `TabsStay` | integrations, number of operations | - |
| `TheTreeIsWhole` | issues and their parents | - |
| `ScreensProofs!TrailIsFollowed`, `PagesImplementTheStack` | issues, projects, lists, pages open | - |
| `CalInvariance`, `WeekFindsItsFocus`, `ArrowsStep` | clocks, widths, loads | `LoadsAssumption`: a load counts events of every day |
| `LanesAreSound` | slots, lanes, events | - |
| `DetailsAreKept` | keys, pages open | - |
| `TheMarkIsHonest` | issues, versions, frames | - |
| `SelectionsAreInTheirDiff` | pull requests, diffs, workers | - |

The hypotheses are those of the passing runs. They mark what the code does not promise: without a
lock a file is torn for a while; with the file store a rotated
token is lost (`TokenRefreshFileLost`); with `Overlap` a save undoes another operation's; with
`Reconnect` a tab stays at "loading" (`DashboardReconnect`). `~Overlap` is what one user does who
waits for a command to end before giving the next.

*PrivateFile.* `NeverTorn` is not inductive: the rename publishes whatever the
temporary names. `IInv` adds that at most one call is under way (`OneCall`, from
the lock), that the temporary is that call's own from its unlink to its rename
(`OwnTemporary`), and that a published inode is whole and not open for writing
(`PublishedIsWhole`). Refinement follows: the rename is the abstract commit, an
exit by an exception the abort, all else stutters. Without the lock, `FillingInv` says the same
of the temporary as of the target: what is not whole is being filled, but for what an earlier
process left under the temporary name until the first call has removed it. (`PrivateFileProofs` extends
`MCPrivateFile`, where that second instance of `PrivateFile` is.)

*TokenRefresh.* `LockIsSound` is inductive with the types. `NeverReplays` needs to
know what is between the endpoint and the store. `IInv` says: what is stored,
spent or being stored has been issued (`Ledger`); a login's credential is unspent
(`LoginIsNew`); so is one a worker has received and not yet stored
(`StoringIsNew`); and what is stored is unspent unless a lock holder is storing its
successor (`StoredUnlessStoring`). With `HeldByOne`, the token a worker read
under the lock is the stored one until it presents it.

`KeychainStaysRemoved` needs that a removed integration has no credential *and* no
worker between its second look and its write (`RemovedIsOver`).

`RefreshedOnce` counts: no more credentials were issued than the first, the logins' and one for
each that expired. No step keeps that count by itself, because a refresh issues a credential
before the old one is replaced. `OnceInv` counts only the expired credentials that are *over*
(`Over`): no store, login or worker has them any more. A refresh issues one and makes one be over.

*Login.* What a login promises holds together or not at all: that the user decides needs to
know what waits at every port, which is only what was answered in the browser and stray requests, and
that what a login has received is from its own page (`AnswersAreGiven`); that a token
is live exactly from the exchange to the end of the store or of the hand-back
(`TokenIsHeld`) ties the token to the step; that the modal is up needs that its login is
under way whichever way it is left. `LateOnce` says that a login served a
connection too many only when it is about to look at the deadline and escape.

*PushedTiers.* What a record may claim has to hold of the copies of the refreshes
too, and time must take records and truth down together (`AgedOne`). That the file
forgets only by overlap needs that a refresh that no other has crossed holds all
that the file knows (`Abreast`), which an answer or a sighting can only add to
(`PromotedLearns`, `ObservedLearns`).

*Connections.* Operations are sequences of writes of three stores, so each property needs to
know how far the operation under way has come (`HalfDone`) and that what it read of the config
still is the config (`ReadIsConfig`, which is where `~Overlap` enters). That a purge lasts needs
that no memory that may be written back has the marks (`MarksAreForgotten`): neither the
dashboard's nor what a removal has recalled. A removal that failed at the
purge left its marks in the dashboard, so what is stranded can be gone only by a command beside
it. That shown tabs are configured holds in the middle
of the menu's operations too, except for the one integration they are about (`LiveFollows`).

*Dashboard.* `StateMatchesItems` and `FetchingIsShown` are inductive once two things are
known: a worker's panel is, or was, the panel of its tab (`TabsInv`), and two fetches of one panel
are recorded as crossed from the moment they overlap (`OverlapIsCrossed`). `RewindsNeedTwo`
follows from `AnswersAreInOrder`: what a worker is about to land is no older than what its panel
shows, unless they cross. `NobodyIsLeftWaiting` needs, of a tab that counts as fetched
and still loads, that the worker that stamped it is about to land (`FreshIsLanding`), which a tab
that was removed and added again breaks (`WorkersAreOfTheTab`).

*McpSession.* That the shared version was spoken needs only that the endpoint took the
notification of whoever is about to record (`RecordIsSpoken`). That refusals are
news needs two facts about every session: who has skipped has made no handshake
and repeated nothing (`HandshakeIsOwed`), and who has made one is spoken to until
the next deployment (`HandshakeHolds`).

*LinearFetch.* `JobsImplementSessions` lets the jobs inherit what is proved of sessions. That a
done job is whole is proved page by page: what a job has of the tool it is at are the pages
before `lastPage`, joined, and of each tool before it all it can reach (`StandsAs`, `Whole`);
a renewed session repeats a call and changes neither.

*CalendarFetch.* The k-th calendar is being read: `read` is what the k before it bring, joined,
without those that are gone, and `own` the pages of the next before `page` (`Gathering`). A
calendar that goes away takes its own pages along and nobody else's.

*SpotifyFetch, GitHubFetch, GitHubDetail.* A cover is set last, when the track is known
(`CoversComeLast`). What the searches have found of a branch that did not change is in the first
bucket that fits unless one of them was full (`FoundInPlace`), and what the lookups have found
agrees with it (`PushedInPlace`), where what a cap leaves out is no newer than what it keeps. A page
shows a reviewer as the reviews that can be read say or as a request of
that moment (`ShowsNothingElse`); a review more either comes among these or changes nothing; the latest decision that counts changes only to one that is new
or to one that a dismissal uncovers (`Dismissal`).

*TabOrder.* The config and the screen agree about the tabs that were not changed in one of them
only, and about which of any two comes before the other (`Agree`; pairwise, so that adding,
removing and moving are local, and of occurrences, so that a tab that is listed twice is before
itself and does not agree with the config). What a command loaded is the config until someone
saves, and what the menu connects was not configured when it was chosen (`CommandInv`, `ConfigInv`).

*IssueTree.* The rows are sound (only issues of the tree, each below its parent's row,
`TreeSound`), complete (`TreeComplete`), each once (`TreeOnce`), and the work list is ordered from the
deepest to the shallowest, so that a row still hangs from its parent when it is put down
(`TreeHangs`). An issue that is in flight or below one has a root unless its parents go round in a circle with
one in flight (`RootAbove`): of its ancestors in flight, the one with the fewest ancestors is the root.

*Calendar.* The days a week view shows are consecutive, lie in the window and contain
the focused day whenever the window does (`FocusIsShown`), at every width; so a
view that raises has a focused day outside of its window, which `FocusWasInWindow`
allows only when the window has moved since. `ArrowsStep` is about the step alone: the
cursor is pulled back to the rows there are before it moves.

*Lanes.* That two events that share a slot are in different lanes needs that the end
recorded for a lane is not before the end of any event in it
(`LanesReachTheirSpans`); that no lane is opened without need, that it is the end of
one (`LanesEndWithASpan`).

*LinearPages.* The refinement needs that the view in front is that of the last visit
and that no project below is left but by its issues (`ViewFollowsTrail`), that only
projects show lists (`OnlyProjectsShowIssues`), and that a picker is on a page
(`PickerIsOnAPage`). Every step that opens a page is one operator (`Opens`), every step
that leaves some another (`LeaveTo`): the first enters the stack, the second leaves
it, and all else changes at most the place in front.

*LinearMenu, GitHubScreens, DetailCache.* The mark compares with what is unread or has not
compared yet (`NewsWaits`), and a fetch under way has begun a sweep (`SweepHasBegun`). That the selected
file is in the diff needs that a diff that is awaited is not there (`AwaitedIsAway`): when it
lands, the view is told. `DetailsAreKept` is about one step, and no invariant is needed.

*Recursion.* The prover has no induction for a recursive definition with parameters. What the
definitions compute is proved by the least counterexample instead: `LeastOfNats` gives the first
number at which a claim fails, and the definition unfolded once there contradicts it. So the
entries kept of a list are a subsequence of it (`KeptPicks`), joined pages are the
pages one after the other (`FlattenSteps`, `Joined`), and the ancestors of an issue are reached by
climbing (`UpFacts`). A sort is a bijection between places and ranks (`RankFacts`), from which
it is ordered, whole and stable (`SortedFacts`). `Lists` writes both out for that purpose.

*Only model-checked* are the liveness properties (`PushIsFound`, `EveryCallEnds`, `LoginEnds`,
`WaitsEnd`, `PageLoads`), since the prover handles neither fairness nor `ENABLED`. The properties
of the violation runs are false, and the counterexample is what there is to show.

`PublishedIsImmutable`, `OwnTemporary`, `HeldByOne`, `PortIsFreed`, `CacheWasSpoken`, `RetriedOnce`,
and the type invariants of the proved modules are theorems and in no run of their own.

To repeat: `tlc -config X.cfg M.tla` for a run `X` of module `M` as listed in
`PROJECT.json`, and `tlapm M.tla` for each `M` whose name ends in `Proofs`.

## 5. Not modelled

Reading single fields of the services' answers, terminal output (`shell/braille.py`,
`shell/marquee.py`, `shell/cards.py`, ...), sanitizers (`core/text.py`,
`core/shape.py`), the update check and PATH setup: sequential code without state
between calls, whose properties are about single values and which its tests cover.
Of the modelled files, wording, styles, key bindings, permission checks of the
config directory and the TOML and JSON encodings are left out. Frames of the
animations are counted only where they decide what is told to the user
(`LinearMenu`). `src/demo/` fills the screens of the documentation with made-up data. The
status of every component is in `PROJECT.json`.

## 6. Plan

1. *Done*: files, credentials, logins, operations, the dashboard with its fetches and
   details, the four sources, the views of Linear, GitHub and Google Calendar; proofs of
   every safety property of the passing runs.
2. Next to prove: what the violation runs suggest as repairs, that is `TokenRefresh` with a file
   store under one lock across integrations (`NeverReplays` without `PerEntry`), and the
   dashboard with a stamp that belongs to a panel and not to a tab (`LoadingIsAttended` with
   `Reconnect`); and the safety halves of the liveness properties, such as that an open page of
   `DetailCache` whose detail is missing has its request on the way.
3. A composition worth stating: `TokenRefresh` with the file store over `PrivateFile`, to
   show what a lock across integrations would repair.
