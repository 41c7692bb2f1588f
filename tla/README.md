# A verification project for OneRSS

OneRSS is a self-hosted RSS reader: a C++ server that keeps feeds, articles and
read state in SQLite, and native clients (Qt/QML) that show a copy of it over
mutually authenticated TLS. This directory holds TLA+ models of the server and
of the client's protocol, the TLC configurations that check them, and proofs
for TLAPS. Paths below are relative to the repository's root.

Contents: the system's parts, the modules and the code they stand for, what
each run shows, what is proved, what is not modelled, and the plan.

## 1. The system

```
   desktop client                                   backend process
 +---------------------------+                 +------------------------------+
 | QML views (GUI thread)    |                 | SignupServer  -> UserStore --+--.
 | MainViewModel             |   TLS, protobuf |                              |  |
 |   FeedTreeModel (copy)    |   frames        | AppServer                    |  |
 |   ArticleListModel (copy) |                 |   AppSession x n             |  | one SQLite
 | AppClient                 |<===============>|     reader + writer threads  |  | file, two
 |   io thread, pending_,    |                 | FeedRefreshScheduler         |  | connections
 |   outgoing_               |                 |   scheduler + worker threads |  |
 +---------------------------+                 |   FeedFetcher (HTTP, XML)    |  |
                                               | SqliteTreeRepository --------+--'
                                               +------------------------------+
```

| Part | State it keeps | Operations | What is hard about it | What makes it correct |
|---|---|---|---|---|
| `FeedRefreshScheduler` | `feeds_` (next_run, generation, queued, running), `ready_queue_`, `schedule_changed_`, `stop_requested_`; one mutex, one condition variable | start, scheduleExistingFeeds, scheduleNow, reloadUserFeeds, removeNode, stop; scheduler and worker loops, executeFetch | every session thread, every worker and the scheduler thread share it; a worker lets go of the mutex between taking an entry, looking the feed up and finishing it; reload reads the database before it locks; stop notifies without the lock | a flag that keeps a feed out of the queue always has somebody who will clear it; one fetch per feed; no lost wakeup; the schedule follows `tree_nodes`; due feeds get fetched; stop ends |
| `SqliteTreeRepository`, tree | `tree_nodes` | createFolder, createFeed, updateNode, deleteNode, getNode, listNodes, recursive queries over a folder | deletions take one row and leave its descendants; moves must not close a cycle, or every walk runs for ever | the rows are a forest of each user's own folders; queries list exactly what is below; calls end; a call looks atomic |
| `SqliteTreeRepository`, articles | `articles`, `queued_articles` | upsertArticles, applyArchivePolicy, markArticleRead/Unread, markAllArticlesRead, queueArticle, unqueueArticle, listArticles, unreadCount | a fetch is several calls, other fetches and the user come in between; nothing runs in a transaction; two connections to one file and no busy timeout | one row per feed and guid; queued articles stay; what was read stays read; an article and its queue copy agree |
| `AppServer`, `AppSession` | `sessions_by_user_`, per session an `OutgoingMessageQueue` | registerSession, unregisterSession, one handler per request, broadcasts | commit, copy of the session list, enqueueing of each notification and of the response are separate steps of a thread per session | every device ends up with the server's tree |
| `protocol_io` | the outgoing queue | push, pop, close; framing with a limit of 1 MB | one oversized message ends the writer | nothing is lost or reordered within a session |
| `AppClient` | `pending_` (promises by request id), `outgoing_`, `running_`, the ready promise | connectAndStart, stop, request, ioLoop | timeouts against late responses; requests left in `outgoing_` for the next connection; a request that passes the check of `running_` just before the connection fails; `stop()` from two threads | whoever waits, for the ready promise or for a response, is answered; nothing the caller was told has failed happens unseen |
| `MainViewModel` | connection status, three timers, `reconnect_in_progress_`, `waiting_for_network_change_`, `nodes_`, article pages, unread counts, editors | tree operations, reconnect, health check, article pane, queue, settings, OPML | every request runs in a thread of its own and posts its answer to the GUI thread: answers come in any order | the copy follows the server; what is shown belongs to what is selected; a lost connection is always made again |
| `FeedTreeModel`, `ArticleListModel` | the rows the views show | load, upsert, remove, merge, expand, filter | recursion over a copy that notifications have put together | the view shows what the copy says |
| `UserStore`, `SignupServer`, client signup, `SecretStore` | `users`, `devices`, `server_authority`, settings; nine secrets on the client | signupOrPair, ensureAuthority, settings; storeSignupMaterial | several statements, or several secrets, without a transaction | an account is usable or absent; a restart never mixes two authorities or two enrolments |
| `FeedFetcher`, sanitizers, TLS, logging, `main`, QML, tray, browser profiles, title lookup, packaging | none the rest relies on | parsing, I/O, presentation | text processing | (pure functions or I/O) |

How they interact. A request comes in on the reader thread of an `AppSession`,
which calls the repository, then (for feeds) the scheduler, copies the list of
the user's sessions, pushes a notification to each, and then pushes the
response. A writer thread per session sends the queue. On the client an io
thread hands a response to the promise of the thread that made the request and
posts a notification to the GUI thread; the waiting thread posts its answer to
the GUI thread when it gets to run. The scheduler's workers call `FeedFetcher`
and the repository. Repository and scheduler each have a mutex of their own;
the repository's is held for a whole call.

The hazards of this code, each at its line and with the properties aimed at it,
are listed in `PROJECT.json` under `hazards`. Section 5 names some that no
property covers.

## 2. The modules

| Module | Models | Composes |
|---|---|---|
| `FeedRefreshScheduler` | `backend/src/feed_refresh_scheduler.cpp` and its callers in `app_server.cpp` | - |
| `FeedForest` | what `backend/src/tree_repository.h` promises: the abstract specification of the tree | - |
| `TreeRepository` | the tree calls of `backend/src/sqlite_tree_repository.cpp`, one step per row they visit | refines `FeedForest` |
| `TreeSync` | sessions, client, view model and tree model as far as the tree goes | uses `FeedForest` for the database |
| `ArticleStore` | articles, queue and archive policies, with fetches, failures and crashes | - |
| `ConnectionManager` | the connection of a client: `reconnect()`, health check, timers and network changes of `main_view_model.cpp`, threads and promises of `app_client.cpp` | - |
| `ArticleListModel` | `desktop/src/article_list_model.cpp`: operators on the rows of the list | - |
| `ArticlePane` | the article pane of `main_view_model.cpp`, with the requests for articles in `app_server.cpp` and the tables behind them | extends `ArticleListModel` |
| `FeedImport` | OPML import and export in `main_view_model.cpp` against the tree of the backend | - |
| `Accounts` | `backend/src/user_store.cpp`, `signup_server.cpp`, the client's signup and secrets, and the connection made with them | - |
| `MCFeedRefreshScheduler`, `MCTreeSync`, `MCArticleStore`, `MCArticlePane`, `MCFeedImport`, `MCAccounts` | instances for TLC (owners, devices, dates, scenarios, symmetry) | extend the above |
| `FeedRefreshSchedulerProofs`, `TreeRepositoryProofs`, `ArticleStoreProofs`, `AccountsProofs`, `ConnectionManagerProofs`, `TreeSyncProofs`, `ArticlePaneProofs`, `FeedImportProofs` | theorems | extend the above |

The layers meet at `FeedForest`: `TreeRepository` is shown to implement it, and
`TreeSync`, where a commit is one step, uses it. The scheduler's model keeps
only which feeds have a row and how often each was written. `TreeSync` takes a
connection as made or lost whenever it likes; why and when it is made again is
`ConnectionManager`'s, and whether the backend lets the device in is
`Accounts`'. `ArticlePane` has the tables of `ArticleStore` as far as a device
sees them (which articles are stored, their flags, the queue), and one device
in detail where `ArticleStore` has fetchers, policies and crashes; `FeedImport`
has many tree calls of one thread where `TreeSync` has one of each of several
devices.

Some modules start from a *scenario*: a record that says what is stored at
first, which operations a run may use and how many. The scenarios are the
bounds of the run: one state space holds several small ones, each with the
mixture of operations that one hazard needs.

Some definitions have a sibling that says "Mutation:" in its comment. The
sibling is what a plausible mistake in that piece of code would be; no run uses
it. It documents which mistake the property next to it would notice, and
`PROJECT.json` pairs them under `mutants`.

### FeedRefreshScheduler

A step is what a thread does between taking `mutex_` and releasing it. Blocking
on `cv_` takes two steps, as in the code: the predicate is found false
("blocking", the mutex still held), then the thread joins the waiters
("waiting"); `NotifyAll` reaches only those who wait.

| Model | Code |
|---|---|
| `feeds[f]`: node, generation, queued, running, due | `feeds_`, entry of the feed; `due` is `next_run <= now` |
| `readyQueue`, `scheduleChanged`, `stopRequested` | `ready_queue_`, `schedule_changed_`, `stop_requested_` |
| `Start`, `ClearExisting`, `LoadExisting`, `FinishExisting` | `start()`, `scheduleExistingFeeds()`, one row per lock |
| `SchedulerPass`, `SchedulerRecheck`, `SchedulerExit`, `Block` | `schedulerLoop()` with its three waits (`waitKind`) |
| `WorkerWait`, `Dispatch`, `DiscardStale`, `WorkerExit` | `workerLoop()` |
| `BeginFetch`, `AbandonFetch`, `FinishFetch` | `executeFetch()`: lookup, early return, end |
| `CreateFeed`, `UpdateFeed`, `DeleteFeed`, `UpdateUserSettings` | the handlers of `app_server.cpp` that go on to call the scheduler |
| `ScheduleNow`; `ListNodes`, `ApplyReload` | `scheduleNow()`; `reloadUserFeeds()`, its reads and its locked part |
| `RequestStop`, `NotifyStop`, `JoinThreads` | `stop()` |

Three history variables name the exceptions the code forces on a property:
`bumped` (feeds on which `scheduleNow` was called while they were queued or just
dispatched), `disturbed` (feeds whose entry a reload replaced under a
worker) and `outdated` (feeds whose last call carried a record that another
session had overtaken). Each is emptied again where the code recovers, and only the
feed in question is excepted.

Simplifications. Notifying happens just after unlocking in the code and in the
same step in the model: a thread that gets the mutex in between finds the same
state. Spurious wakeups are left out: a thread woken for nothing re-evaluates
its predicate and waits again (workers and scheduler both loop). A record is
abstracted to the number of the write it was read from; `MaxVersion` bounds
those. `removeNode` (lines 155-166) has no caller in the repository. `stop()` is
reached when the acceptor cannot be opened (`app_server.cpp` unwinds before a
session exists); `main.cpp` offers no other way to end the server than a signal.

### FeedForest and TreeRepository

`mutex_` is held for a whole call, so calls do not interleave; what is worth
modelling is that walks over the rows take one step per row, on a table in which
deletions have left rows whose parent is gone.

| Model | Code |
|---|---|
| `tree`, `used` | table `tree_nodes`; ids from `newUuid()`, which are taken never to repeat |
| `CreateFolder`, `CreateFeed`, `DeleteNode`, `NotFound` | the calls of that name; a row the user does not have throws |
| `BeginUpdate`, `WalkUp`, `RefuseUpdate`, `WriteUpdate` | `updateNode()`, `validateReparentLocked()`, `isDescendantLocked()` round by round, the UPDATE |
| `BeginQuery`, `ExpandQuery`, `EndQuery` | the recursive query over a folder of `listArticles`, `unreadCount` and `markAllArticlesRead`; duplicates of `UNION ALL` are as many rounds of one row |

The migrations of `ensureSchema` run before the first call and are not modelled.
An update names the type the node has: the clients send back the node they
were sent.

### TreeSync

| Model | Code |
|---|---|
| `registered`, `handler`, `out` | `sessions_by_user_`; where each session's reader thread stands; its queue with the wire behind it |
| `Connect` | `MainViewModel::reconnect()`, `AppClient::connectAndStart()`, `registerSession()`, then `fetchTree()` |
| `AddFolder`, `ConfigureNode`, `MoveNode`, `DeleteNode` | the view model's handlers and their `request()` |
| `HandleCreate`, `HandleUpdate`, `HandleDelete`, `HandleRefused`, `HandleFetchTree` | `AppSession::handleRequest()` up to the commit, the throw or the listing |
| `CopyTargets`, `Notify`, `Respond` | the broadcasts, one target a step, and the response |
| `ReceiveNotification`, `ReceiveResponse`, `Post` | `AppClient`'s io thread; `onNodeCreated` and its kin; the answer a waiting thread posts |
| `TimeOut`, `Disconnect`, `EndSession` | the 30 s timeout, a failed `ioLoop` or `stop()`, `unregisterSession()` |
| `Applied`, `CanReparent`, `Shown` | `loadNodes`, `upsertNode`, `removeNode` and `canReparent` of `FeedTreeModel` |

All nodes are folders: a feed is a folder nobody may move into, and the
repository's refusal is the only difference it makes. The GUI thread applies a
posted change at once: a GUI that lags cannot be told from a slower network.
`raced` records a device for which the order of steps was one that the code
leaves open; section 3 says what is left of agreement then.

### ArticleStore

A fetch, by a worker or by a session, is three steps: read the row and the feed,
`upsertArticles` (after which the user's default mode is read),
`applyArchivePolicy`. Anything may come in between, another fetch of the same
feed included.

| Model | Code |
|---|---|
| `articles`, `queued`, `used` | tables `articles`, `queued_articles`; ids |
| `BeginFetch`, `StoreArticles`, `ApplyArchivePolicy` | `executeFetch()` and the fetch in `app_server.cpp` |
| `Upsert`, `Newest`, `Removals` | `upsertArticles()`; the SQL of the policies "limit", "older_than", "disabled" |
| `MarkArticle`, `MarkFeedsRead`, `MarkQueueRead`, `QueueArticle`, `UnqueueArticle`, `DeleteFeed` | the calls of that name; articles go with their node |
| `FailFetch`, `FailWhileStoring`, `FailWhileMarking`, `FailWhileMarkingQueue`, `Crash` | a refused statement (the user store writes through a second connection, and neither has a busy timeout) or a crash, between any two statements |

Only what the properties tell apart is kept: feed, guid, whether it was read,
and `published_at` as far as the policies order by it. A guid has one date, and
an item a feed has dropped does not come back. Articles the sanitizer rejects
never reach the table. Reads are taken not to fail (the databases are in WAL
mode), and a call of one statement that is refused changes nothing. The pass
over old articles at start-up (lines 829-975) runs before the first call.

### ConnectionManager

| Model | Code |
|---|---|
| `view`: status, inProgress, awaiting, two timers | `connection_status_`, `reconnect_in_progress_`, `waiting_for_network_change_`, `reconnect_timer_`, `health_check_timer_` |
| `posted` | the events of `QMetaObject::invokeMethod` with `Qt::QueuedConnection` |
| `running`, `io`, `ready`, `calls` | `running_`, `io_thread_` and where `ioLoop` stands, the ready promise, the promises in `pending_` with the stage each `request()` has reached |
| `reach`; `env`, `seen` | `isNetworkReachable()`; the fingerprint of the addresses, and the last one seen |
| `CheckNetwork`, `StopOld`, `StartNew`, `AskServer`, `PostOutcome` | the thread of `reconnect()`, with `stop()` and `connectAndStart()` inside |
| `Encrypted`, `IoFails`, `IoReports`, `IoQuits` | `ioLoop()`: encrypted, the exception and `failPendingRequests`, `onConnectionLost`, the end of the loop after a `stop()` |
| `CheckRunning`, `Register`, `Answer`, `TimeOut` | `request()` |
| `mute`, `AnswerTooLarge` | a page above 1 MB ends `AppSession::writeLoop()`, and nothing is answered on this connection again |
| `HandleConnecting` ... `HandlePage` | the lambdas posted to the GUI thread |
| `ReconnectTimerFires`, `HealthTimerFires`, `CheckAddresses`, `ReachabilityChanges` | the three timers and `QNetworkInformation`'s signal |
| `Scheduled`, `NetworkLost`, `Deferred`, `Moved`, `Back` | `scheduleReconnect`, `stopForNetworkLoss`, `deferReconnectUntilNetworkChanges`, `handleNetworkEnvironmentChanged`, `handleNetworkReachabilityChanged` |
| `StopClient` | `stop()` called on the GUI thread |

A handler of the GUI thread is one step, the `stop()` in it included: the GUI
waits for the io thread, and whatever that thread may still do on its own (fail,
post what it had to report) may also come just before. When `stop()` meets
another `stop()` that joins the same thread, the behaviour is undefined; the
model takes the outcomes of libstdc++: nothing, an exception in the thread of
`reconnect()`, which reports it as a failed attempt, or one in the GUI thread,
which ends the process (`crashed`).

Simplifications. The five requests of an attempt are one that any of them may
fail. Of an error only what `errorSuggestsServerRouteUnavailable` and the page's
handler look for is kept. Timers take a second at least, so they fire when what
was posted has been handled and no thread is in the middle of something short.
A page counts as loaded again when its thread has ended, also where the code
leaves `loading_more_articles_` set (that is `ArticlePane`'s).
`stale` is a history variable: an attempt has found no network, or no peer, and
there was one when the GUI thread handled that; it ends with the next attempt.

### ArticleListModel and ArticlePane

| Model | Code |
|---|---|
| `Sorted`, `Extended`, `Removed`, `Inserted`, `Reordered`, `Copied` | `sortNewestFirst()` and the passes of `mergeArticles()`, row by row, with the place of the selection |
| `view`, `list`, `row` | `selected_node_id_`, `article_search_query_`, `showing_read_articles_`; rows and selection of the list |
| `loading`, `next`, `more`, `cache`, `count` | `loading_more_articles_`, `next_article_offset_`, `can_load_more_articles_`, `article_cache_`, `unread_count_` |
| `jobs` | the threads of `runAsync`: "asked" until the session has handled the request, "done" or "failed" until the GUI thread has dealt with the answer |
| `notes` | notifications on their way, a bag: two sessions send in any order |
| `SelectNode`, `SearchArticles`, `ToggleShowingReadArticles`, `LoadMoreArticles`, `SelectArticle`, `MarkSelectedArticleUnread`, `ToggleSelectedArticleQueued`, `MarkAllArticlesRead`, `RefreshFeed` | the handlers of that name |
| `LoadPage`, `UsePage`, `PageFailed`, `Substitute` | `loadArticlesPage()`, the lambda it posts, its error path, and the cached page that is shown then |
| `FinishWrite`, `ReloadByThread`, `FinishRefresh`, `UseCount`, `UseConnection` | what the threads post when they are answered; a mark that failed reloads from its own thread |
| `ServePage`, `ServeCount`, `ServeWrite`, `ServeRefresh`, `ServeConnection` | the session's handlers with the queries and updates they make, and `Told` of whom |
| `SchedulerFetches`, `OtherDeviceWrites` | what changes the tables besides |
| `RequestFails`, `LoseConnection` | timeouts, errors, and the end of the connection with all that was on its way |
| `astray`, `CommitAstray` | marks, places in the queue and refreshes that failed here and were not yet handled; a session may still read them, as in `FeedImport` below, before or after the device has connected again and reloaded |

A list has the rows the properties tell apart: article, copy in the queue, two
flags. The device is one, the others are whoever changes the tables. `lapses`
is history: it names each order of steps in which the code lets the pane fall
behind the server (a reload refused while a page is loading, an answer for a
view that was left, a page overtaken by a mark of the user's, an older answer
used last, a change the server tells nobody of, a request that had failed here and
is handled when no reload is still to be served), and is taken back when a
reload has made up for it. The properties hold for everything else.

### FeedImport

| Model | Code |
|---|---|
| `tree`, `shown` | table `tree_nodes` of the user; the nodes of `FeedTreeModel` |
| `thread[t]`: stage, existing, todo, nodes | a thread of `importFeeds()`: `existing_nodes`, the outlines that are left with the folder each goes into (the recursion of `import_outlines`, flattened), the tree fetched at the end |
| `FetchTree`, `DeleteNode`, `Deleted` | the first `fetchTree`, the deletions of an overwrite, deepest first |
| `SkipOutline`, `EnterFolder`, `CreateNode` | the cases of `import_outlines` |
| `Refetch`, `LoadNodes`; `CallFails`, `CallRefused`, `FailReading` | the end of an import; its `catch` |
| `astray`, `CommitAstray` | requests that timed out (`app_client.cpp:382-388`) or failed with their connection (438-451), and lie in `outgoing_` or before the reader of a session (`app_server.cpp:111-114`) that may be waiting for a fetch, also when the client has long connected again |
| `Exported`, `ExportFeeds` | `writeOpmlOutline()`, `exportFeeds()` |
| `OtherCreates`, `OtherDeletes` | other devices, and the notification of it |

A node has a parent and a name: the normalized title of a folder, the
normalized url of a feed; a file is a sequence of the same. `series` is
history: the tree before the first of several imports of one file in one mode
that nothing else came between. `cut` is history: the calls of `astray` that
failed since an import last fetched the tree. When one of those is committed, the
next import finds what it did, and the series goes on; a call that is committed
after the next import has fetched the tree is a change the series does not
cover. `unseen` is history: an import failed after it had changed the tree, a call
of one was committed later, or one was overtaken, and none has made up for it.

### Accounts

| Model | Code |
|---|---|
| `kv`, `users`, `devices` | tables `system_kv` (four rows of the authority), `users`, `devices` |
| `Start`, `WriteRow`, `Crash` | `ensureAuthority()`: reading, generating, each row written by itself; the end of the process |
| `Accept`, `InsertUser`, `InsertDevice`, `Reply`, `FailSignup` | `handleClient()` and `signupOrPair()`, one statement each |
| `StartRequest`, `Refuse`, `GiveUp`, `StoreSecret`, `FailStoring`, `Stored`, `Restart` | `SignupViewModel::startRequest()`, `SignupClient`, `storeSignupMaterial()` secret by secret, the end of the client |
| `Reconnect`, `ReadSecret`, `Connect` | `reconnect()` with `loadPeer()`, again secret by secret, and the TLS handshake with `authenticateDeviceCertificate()` |

A device is its number, a certificate is the authority it was made with, and of
the nine secrets those five are kept that `isValid()` asks for. `lapses` names
what is excepted: a read of the table that failed and was taken for its end
(262-274), signups that ended between their two rows, clients that stored in
part, that read while they stored, or whose reconnect was dropped.

## 3. What the runs check

| Run | Bounds | Shows |
|---|---|---|
| `scheduler_safety` | 2 workers, 2 users with a feed each and 2 sessions of one of them, each row written at most twice; symmetric in the workers and in the sessions | `QueueSound`: the queue has at most one entry per feed, for a tracked, queued, idle feed. `FlagsAccounted`: a feed's flags have somebody who will clear them. `OneFetchPerFeed`. `NoLostWakeup`: nobody sleeps on work. `ScheduleFollowsTree`: with no call to come the schedule is the user's rows, but for records that were overtaken. |
| `scheduler_liveness` | 1 user with 2 feeds, 1 session, 1 worker | `DueFeedDispatched`, `StopCompletes` |
| `scheduler_request` | 1 feed, 1 session, 1 worker | **violated**: `RequestedFetchStarts` |
| `tree` | 4 ids, 2 users | `Acyclic`, `ParentsAreFolders`, `QueryExact`, `OnlyDeletionDetaches`, `EveryCallReturns`, and `ImplementsForest` |
| `sync` | 2 devices, 3 node ids; 2 changes and no fault with 1 node stored; or 1 change and 1 fault, with 1 node stored and a second connection of one device, or with any forest of 2 stored nodes; or one device that makes 2 changes in any forest of 3 stored nodes | `AgreeUnlessRaced`, with changes that follow each other, creations and refusals, and through late connections, timeouts and lost connections |
| `sync_race` | 2 devices, 2 changes, no fault | **violated**: `DevicesAgree` |
| `articles` | 1 feed, 2 fetchers, 2 guids (one without a date), 3 ids, modes keep_all, limit and disabled | `QueuedOriginalsStay`, `ReadStaysRead`, `CopiesAgreeUnlessSplit` |
| `connection` | 3 changes of the network, 1 fault (a broken connection, a late answer, a page that is too large, a page or a pairing by the user) | `AttemptAccounted`: one attempt at a time, and the flag that excludes others is cleared. `NeverStrandedUnlessStale`: the client always has a timer that will look after the connection. `EventuallyConnected`. |
| `connection_back` | 2 changes of the network, no fault | **violated**: `ReconnectsWhenBack` |
| `article_pane` | 2 feeds, a folder and the queue, at most 3 articles, pages of 1; 17 scenarios of up to 3 actions of the user, 1 change from elsewhere, 2 faults | `ListAgreesUnlessMissed`, `CountAgreesUnlessWrong`: when all has arrived, list and count are the server's. `LoadingAccounted`: the flag that refuses loads has a page that will clear it. `MergeKeepsPlace`: merging keeps the order, and the selection on its article. `PagesAreOfTheView`: no answer puts an article into the list that is not of the node, the query and the filter on show. `MergesDefinedUnlessOverlap`: a merge reads past the list only after overlapping pages. |
| `feed_import` | 2 titles, 2 urls, a stored tree of 3 nodes; 3 imports one after another with 2 failing calls, or an export, a change and 2 imports, or 2 imports at once with a change and a failing call, or 2 imports with 2 changes of another device | `ImportedAsWritten`: whatever failed on the way, and whenever that was committed before the next import fetched the tree, the import that succeeds leaves the tree one whole import would have made, an overwrite from an export restores it, and none leaves a node the root does not have below it. `ShownUnlessFailed`: the device shows it. |
| `accounts` | 2 clients, 1 login, 2 passwords, 2 authorities, 2 devices; a client that asks twice with 2 faults, or two that ask once | `OneAuthorityUnlessCut`: never two authorities mixed. `EnrolledAreAccepted`: a device that has stored its enrolment gets in. `AccountsAccounted`: no account without a device, but for a signup cut short. `ConnectedAsPaired`: a client is connected as the device it takes itself for, and was paired as last. |

Why the bounds are enough to be of interest. Every action fires. Two workers and
two feeds are needed for two fetches at once and for a feed that waits behind
another; two sessions of one user are needed for one to overtake what the
other's call carries (the older of two reads can then be applied last), beside
the feed of another user, which no call of theirs may touch. Four ids are the fewest for a move below a gap two
levels up. Three connections let a device miss a change and come back. Three
ids and two guids let an article be deleted and stored again under a new id.
Three changes of the network let it go, come and go again, or move in between,
in the middle of one attempt. In `sync` three stored nodes are the fewest in which one change cuts off a node
with something below it and the next brings it back. Mode
"older_than" is left to the theorems, which cover every mode: by them and by the
model it deletes like "limit" does, with more freedom.
The theorems of section 4 remove the bounds for what they cover.

In `article_pane` a scenario has what one hazard needs; three actions of the
user are the fewest for a page that is late for a view that is left and taken up
again. In `feed_import` three imports with two faults let two be cut short before
one succeeds, and let what the first left be committed before, in or after the others. In `accounts` two faults cut a start short twice, or a start and a
signup.

Deadlock is not checked in the scheduler (it stops, and `stop()` can wait for a
thread that missed its notification), in `TreeSync` (changes and connections
are bounded), in `ArticleStore` (ids are), in `ConnectionManager` (an unpaired
client has nothing to do), and in `ArticlePane`, `FeedImport` and `Accounts` (the
scenario is used up); `TreeRepository` checks it.

Fairness. `FairSpec` of the scheduler says that the operating system runs the
main thread (weakly fair: nobody disables its steps for good), and that the
scheduler thread, the workers and the sessions get a mutex they keep asking for
(strongly fair: the mutex is taken and freed between their attempts). It does
not say that a remote server answers, that a user asks for anything or that a
`next_run` is reached. `AnsweredSpec`, under which `RequestedFetchStarts` still
fails, adds that every fetch ends. In `TreeRepository` the thread that holds
`mutex_` runs; nothing makes anybody call. In `ConnectionManager` threads run,
running timers fire, an attempt to connect ends (it has a timeout of 30 s) and a
request ends (likewise). Nobody's change of the network, no action of the user
and no success is fair: `EventuallyConnected` claims a connection only for a
client whose network stays, and failures while it does are faults, of which
there are finitely many.

What the violated properties show:

- **`RequestedFetchStarts`** (`feed_refresh_scheduler.cpp:242`). `scheduleNow`
  on a feed that is in the queue bumps its generation; the worker drops the
  queued entry as stale (209-213) and leaves the queued flag set, which keeps
  the feed out of the queue (226) until the next reload or restart. The early
  return of `executeFetch` (258-260) strands the running flag in the same way.
- **`DevicesAgree`** (`app_server.cpp:186`). The tree a session has listed is
  enqueued later than it was read; the notification of a change that another
  session commits in between arrives first, and the older tree then replaces
  it. Notifications of two sessions, and a response against a notification,
  overtake each other likewise. The difference stays until the next reconnect.
  `AgreeUnlessRaced` says what does hold: without such an overlap, devices
  agree, through lost connections, timeouts and late sessions.
- **`ReconnectsWhenBack`** (`main_view_model.cpp:483`). An attempt finds no
  network and posts so. The network returns before the event is handled:
  `scheduleReconnect` does nothing, as the attempt is still under way (1410).
  The event then calls `stopForNetworkLoss`, which does not look again. The
  client says "OneRSS will reconnect when connectivity returns" and has no timer
  left; it reconnects when the network changes another time.
  `NeverStrandedUnlessStale` says that this is the only way.

What the exceptions in the other properties stand for is in the code too, and
seen by TLC when the exception is dropped. A node may be moved, by the id its
editor holds, after the folder it was in has been deleted: the backend, which
deletes one row and leaves what is below it, moves it back into the tree with
all that is below it, but devices have removed what is below it and are told of
the node alone (`AgreeUnlessRaced`, `feed_tree_model.cpp:108`). Marking a feed, a folder or everything
read leaves the queue copies of its articles unread (`CopiesAgreeUnlessSplit`,
`sqlite_tree_repository.cpp:694`). An import that fails half way shows nothing of
what it did (`ShownUnlessFailed`, `main_view_model.cpp:1152`). A call of it that timed
out can be committed after the next import has fetched the tree: a merge has then made
the folder or the feed twice (`ImportedAsWritten`, 1078), and the device, which takes the
notification for an echo, does not show it (`ShownUnlessFailed`, 264). A page that fails
for a view that was left keeps the pane from ever loading again
(`LoadingAccounted`, 1345). A mark or a refresh that timed out can be handled by the
session it was left at once the pane has been reloaded; its notification is of the
device's own, so the count is fetched and the list is not (`ListAgreesUnlessMissed`,
284). A signup cut short leaves an account that cannot be
asked for again (`AccountsAccounted`, `user_store.cpp:101`).

## 4. What is proved

`tlapm` checks these for every value of the constants that the named assumptions
allow (`ConstantsOK`, `RootIsNoNode`, `AccountsAssumption` and the like; TLC evaluates
them in every run). Where bounds are scenarios the theorems hold for any of them,
so for behaviours of any length.

- **`FeedRefreshSchedulerProofs`**: `TypeCorrect`, `QueueIsSound`, for any finite
  set of feeds and any users, sessions and workers. `TypeOK` alone is not
  inductive: that loading an entry does not make a node record appear from
  nowhere depends on what the stages of start-up leave empty, so the invariant
  is `TypeOK /\ StartupOrder`. `QueueSound` is inductive on top of it. The work
  is in the two operators that rebuild the queue (`Orders`: what a pass appends;
  `Compacted`: what a reload keeps), stated as `QueuedAfterPass`, `Appended` and
  `CompactedKeeps`, after which each action is a case. The other invariants of the
  run follow, each with a strengthening of its own. `NoWakeupIsLost` (`NoLostWakeup`)
  needs `DrainKnown`: a scheduler thread that has been woken from a wait for
  something else than the drain still finds the queue empty, as nobody else
  fills it. `NoFeedIsFetchedTwice` (`OneFetchPerFeed`) needs `FetchesFlagged`: a
  feed somebody fetches is flagged, so it is not queued again. `EveryFlagIsCleared`
  (`FlagsAccounted`) is inductive as it stands. `ScheduleIsOfTheTree`
  (`ScheduleFollowsTree`), for any number of sessions of a user, needs `Follows`:
  where the schedule and the table differ, a session of the owner is about to make a
  call for the feed, or the last such call carried an overtaken record.
  `OvertakenByAnother` says whose fault that is: no record of a user with
  one session (`Alone`) is ever outdated.
- **`TreeRepositoryProofs`**: for any ids and users, all safety properties of the
  run and the refinement: `NeverCyclic`, `ParentsStayFolders`, `QueriesAreExact`,
  `OnlyDeletionCutsOff`, `RepositoryImplementsForest`. The inductive invariant
  `Inv` adds to the properties `ParentsUsed` (no row waits for a parent that is
  still to be created, so a new row never closes a cycle), `WalkSound` (what the
  walk up has passed is closed under parent up to where it stands, and the node
  to be moved is not in it) and `QuerySound` (what a query has listed is below
  the folder, and its children are listed or queued). When the walk reaches the
  root, the rows it passed are the witness for `FeedForest`'s `Apart`: the step
  that writes is then the abstract `Update`, and every other step of a call
  stutters.
- **`ArticleStoreProofs`**: for any feeds, guids, fetchers, modes and limit,
  `TypeCorrect` (with it: one row per feed and guid, and no id twice),
  `QueuedStay`, `CopiesStayTogether`, `ReadingIsKept`. The last needs `Carried`:
  of two fetches of a feed each knows of the other, so that one that overlapped
  none carries every offered guid that has a row - it was on offer when the
  fetch began, or the fetch has stored it itself. Mode "disabled", which deletes
  what a fetch did not carry, then cannot touch what the user has read.
- **`AccountsProofs`**: for any clients, logins, passwords and bounds, every
  property of the run: `TypeCorrect`, `AuthorityIsOne`, `EnrolledStayAccepted`,
  `AccountsStayAccounted`, `ConnectedStayAsPaired`. The inductive invariant `Inv`
  is their conjunction with what each rests on. `AuthoritySound`: the last row of
  the authority is only there with the others and all of one authority, so a
  start that was cut short has issued nothing yet and may replace what it wrote.
  `CertificatesSound`: every certificate is of the authority in the table.
  `ServingSound`: what a signup found of the account holds until it is over, as
  there is one at a time. `NumbersIssued`: whoever has a device's number got it
  after its row was committed. `VaultSound` and `PeerSound`: what is stored, and
  what an attempt has read so far, is of one enrolment, unless the client is one
  of those excepted. A lemma for each variable says which steps change it, so
  that a conjunct meets only those.
- **`ConnectionManagerProofs`**: for any number of changes of the network and of
  faults, the three invariants of the run: `TypeCorrect`, `OneAttemptAtATime`
  (`AttemptAccounted`), `NeverStranded` (`NeverStrandedUnlessStale`). The first
  two are inductive together; the proof speaks of a view, a thread and a queue as
  arguments (`Sound`), because a handler changes all three and `stop()` adds to
  the queue what the io thread had to report. The third rests on `Kept`. `Announced`:
  an event that says an attempt goes on is posted before the one that ends it,
  and is handled while the attempt is under way, so that it never overwrites what
  the end left. `Watched`: who shows a connection checks its health. `Attended`: with
  a network, a peer and nothing stale there is an attempt, another network to
  wait for, a timer or a connection - no condition on queue or requests, so it
  holds in the middle of everything, and the property is what is left of it when
  nothing is posted and no thread runs. `Follows` says of each change of the view
  that it keeps this.
- **`TreeSyncProofs`**: for any nodes, devices, connections and scenarios,
  `TypeCorrect`, `DevicesFollow` (`AgreeUnlessRaced`) and `RemovalsAlwaysEnd`. A
  device that did not race shows the server's tree, or what it shows becomes that
  with one change that is on its way to it (`CopiesFollow`). This needs `OneChange`:
  while some device has not raced, what is on its way anywhere, in a handler, a
  queue or an answered request, is one change, still true of the table, or trees
  that are the table. To tell which device gets that change as a notification
  and which as its answer takes `AnswersSound` (a request has one answer, from
  one place, and none before the server has read it), `FetchesSound` (a device
  waits for one tree at a time and shows no connection meanwhile) and
  `LinkedServed`. `ParentsUsed` says that a new node has nothing below it. What a
  copy may lack are rows the root does not reach (`Copies`); `CopyAbsorbs` and the
  lemmas after it say that applying a change to such a copy gives such a copy of
  the table that has the change. `RemovalsAlwaysEnd` states `RemovalsEnd`: on a
  device that did not race `removeDescendants`, which recurses without looking
  for loops, ends, whatever it is told to remove. It follows from the table being
  a forest (`ForestStays`). The proof found a way to disagree that runs with two
  nodes had missed, the node brought back that section 3 names.

- **`ArticlePaneProofs`**: for any articles and dates, feeds, folders, queries,
  page length and scenarios, all properties of the run.
  - *The list.* `MergeIsTarget`: the removals, insertions, moves and copies of
    `mergeArticles` turn any rows into exactly the target, if no id is in it
    twice and every row that is not in it may be removed; `TargetIs`: the target is in order, holds
    the article being read, and has an id twice only if the page had. The passes
    are folds of the community modules; `SortedInSteps` and its four siblings
    prove that such a fold is its base and then one step for each row, by the
    least number a statement fails for (`Induction`). Each pass then has a lemma about
    one step (`PlacedRow`, `PutRow`, `InsertedRow`, `MovedRow`) and one by
    induction over the rows. `SelectionKeepsItsArticle` (`MergeKeepsPlace`)
    follows for every step of the pane.
  - *The pane.* `TypeCorrect` rests on `Typed`, which says besides the types that a
    page on its way, or in the cache, is of its view, by node, query and filter, and, if
    on its way, has no article twice; and, in `AstrayTyped`, that what was left at a session is
    a change the user asked for. That the server lists it so takes a proof that rows in a
    strict total order are listed by the number of those before (`ListingIs`).
    `PagesOfTheView` (`PagesAreOfTheView`) follows, as the order of the list only
    changes by a merge of such a page (`ListSteps`). `LoadingIsAccounted` is
    inductive on top of `Typed`; `MergesDefined` needs `CacheSingle`: a cached page has an
    article twice only after an overlap, and a merge goes wrong only with such a
    page. `CountAgrees` needs `CountsTrue`: unless the newest count was used, or a
    change was told to nobody, there is a `Trigger`, a notification or a job that
    brings a count at least as new as the last commit; and a count that differs
    from the server's has a trigger, or a mark that is still to be made.
  - *What the list shows.* `ListAgrees` (`ListAgreesUnlessMissed`) speaks only of
    states in which nothing is on its way, so it says nothing of the steps
    that lead there. `ListSound` says what holds between: if no change was missed,
    either something is under way that will have the list loaded again, or count as
    a lapse (`Pending`: a job that failed, a refresh that is done, a
    notification that concerns the view), or the page that replaces the list is
    (`Renewing`), or the list is true (`ListTrue`). A true list shows each article as
    the server has it, or will once the user's request for it is
    answered (`Foreseen`), and lacks none of those above its end. A request that is handled
    after it had failed counts as a lapse, unless the page that replaces the list is still
    to be served, which then has it. A page that
    no change has overtaken is true likewise (`PagesHold`), and none was computed
    with such a request open (`WritesKnown`). The pages are by offset: what
    `PageServed` and `MergedRows` say of one, and of the list after its merge, is in
    terms of how many articles of the view come before another (`Above`). A request
    of the user makes true what the list foresees (`WriteMade`); what it will make of
    an article rests on that article alone (`Elsewhere`, `Commutes`), so open requests
    do not disturb each other; one of another device is told to this one unless
    it leaves the view's articles as they were (`OthersTell`). TLC
    checked this invariant with the bounds of `article_pane`, too (542 625 states).

- **`FeedImportProofs`**: for any names, threads and scenarios, `TypeCorrect`,
  `ShowsTheTree` (`ShownUnlessFailed`) and `ImportsAsWritten` (`ImportedAsWritten`).
  - *Trees and files.* The model walks them with recursive functions.
    `Recursion` says that one which is defined for a node from what it is for
    the parent is what its equation says (`Parents`: what holds of a node if it holds of
    its parent holds of all, by the least number it fails for). So `GroundedIs`,
    `SubtreeIs`, `DepthIs`, `PathIs`, and `HasFeedIs`, where the function goes down
    and not up, give what each walk yields. `WithGrounded`, `WithPaths`, `GroundedWithout`
    and `PathsCarried` say what a new, or a missing, node changes of it. `ExportedIs`:
    an exported file stands for the tree, feed by feed and path by path, for
    any tree; it needs that folders are listed before what is in them
    (`FolderFirstIs`), and that as many feeds are in the one as in the other.
  - *Types.* `Typed` adds to `TypeOK` that no node is put into a feed, and that two
    things which know of one node agree about it (`Agrees`): an import creates in its
    own copy of the tree and in the backend at once, and it may go on with a
    folder that somebody else has deleted; a call that was left may be committed
    whenever (`AstrayTyped`). `TypedByCall` treats the call as such, whatever becomes of it.
  - *What is shown.* `ShownSound`: unless some import has written, or did before it
    failed, the root has the same below it on the device (`Alike`); a tree that is
    about to be shown is the tree if it is not late. `WithoutAlike`: the backend
    removes a node alone, the device all below it, and the two are alike again.
  - *What an import leaves.* `ImportedAsWritten` speaks of the tree before a series of
    imports and of the one after it, and is not inductive. `ImportSound` says what
    holds between: one thread at most writes, it knows the tree as it is
    (`Continues`), and what it has still to do is what is missing (`Work`). Every
    feed not among its tasks, nor below one (`Waiting`), has its path in the tree
    already; no outline is below two tasks (`Apart`); a task's folder has the
    path that its outline's parent has (`Fits`). In an overwrite the tree holds nothing but
    what is in the file, each folder once, and feeds there and feeds to come add up to those of
    the file (`Copying`): as one path may have several feeds, paths alone would not
    tell. In a merge the first tree is untouched and nothing is there that neither it nor the
    file accounts for (`Between`), which a failed import leaves as it is, and so does
    its last call if that is committed before the next one fetches the tree
    (`CutSound`): so the next one may start from it. `WorkEnters` and its kin say that a task done keeps this;
    with no task left it is `Overwritten` or `Merged` (`OverwrittenIs`, `MergedIs`).

Only model-checked: what must eventually happen (`DueFeedDispatched`, `StopCompletes`,
`EveryCallReturns`, `EventuallyConnected`): liveness under fairness and ENABLED are beyond the
prover. So is induction with a statement for a parameter, on which the library's
theorems rest: what `ArticlePaneProofs` has instead is an induction over sets of
numbers, stated anew for each fold or recursive function. No module uses a
RECURSIVE operator.

## 5. What is not modelled

- `FeedFetcher`, the sanitizers, the making of keys and certificates, logging,
  QML, tray, browser profiles, feed title lookup, packaging: I/O, text or
  presentation. In the models a fetch returns some of what the feed offers, or
  fails; a certificate is the authority it was made with.
- The editors of settings and their notification: one row, read and written
  whole. Their numbers are not modelled either: an archive limit of 2^31 or more
  is stored as a negative number, read back as 0 and used as 1
  (`user_store.cpp:200`); `Limit` is a constant here.
- What a session without a writer does to the trees and lists on show: that a
  client gets out of it is in `ConnectionManager`. There an oversized page has the
  ping time out, which the client takes for a route that is gone: it waits for
  another network (`awaiting`) though this one is well.
- Moves of nodes during an import; attributes of outlines besides title and url.

## 6. The plan

The order is by what breaks most if it is wrong. Done: 1-9.

1. `FeedRefreshScheduler`: safety, liveness, type and queue theorems.
2. `FeedForest`, `TreeRepository`: refinement, every safety property proved.
3. `TreeSync`: what the devices show, composed over `FeedForest`.
4. `ArticleStore`: what fetches, policies, failures and the user make of the
   articles; safety proved.
5. `ConnectionManager`: how a client connects, notices that it is not, and
   connects again, with the threads and promises of `AppClient`.
6. `ArticleListModel`, `ArticlePane`: what the pane shows, whichever way answers
   and notifications come.
7. `Accounts`: signup, pairing and the authority with a failure between any two
   writes; safety proved.
8. `FeedImport`: imports that are cut short and started again.
9. Proofs: every safety property of every run.
10. The widths of the settings' numbers.
