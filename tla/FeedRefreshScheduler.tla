------------------------ MODULE FeedRefreshScheduler ------------------------
(***************************************************************************)
(* The background refresh of feeds in the backend                          *)
(* (backend/src/feed_refresh_scheduler.cpp): one scheduler thread that     *)
(* queues the feeds whose time has come, a pool of worker threads that     *)
(* fetch them, one mutex, one condition variable, and the calls that the   *)
(* session threads of the app server make after they have changed the      *)
(* nodes table.                                                            *)
(*                                                                         *)
(* A step is what a thread does between taking mutex_ and releasing it.    *)
(* Blocking on the condition variable takes two steps, as it does in the   *)
(* code: the predicate is found false ("blocking", mutex_ still held), and *)
(* only then does the thread join the waiters ("waiting", mutex_ free).    *)
(* Time is one bit per feed: whether its next_run has been reached.        *)
(***************************************************************************)
EXTENDS Integers, Sequences, FiniteSets

CONSTANTS
  Feeds,       \* node ids of feeds
  Users,       \* user ids
  Sessions,    \* connected app sessions, one reader thread each
  Workers,     \* worker_threads_
  Scheduler,   \* scheduler_thread_
  Owner,       \* the user_id of each feed's node
  UserOf,      \* the user_id each session has authenticated as
  MaxVersion,  \* bound: how often one row of the nodes table is written
  NoTask       \* a worker that holds no task

ASSUME ConstantsOK ==
  /\ IsFiniteSet(Feeds)
  /\ Owner \in [Feeds -> Users]
  /\ UserOf \in [Sessions -> Users]
  /\ Scheduler \notin Workers
  /\ MaxVersion \in Nat \ {0}
  /\ NoTask \notin Feeds \X Nat

VARIABLES
  tree,             \* feeds that have a row in the nodes table
  version,          \* how often each row was written; 0: never created
  feeds,            \* feeds_
  readyQueue,       \* ready_queue_
  scheduleChanged,  \* schedule_changed_
  stopRequested,    \* stop_requested_
  pc,               \* where each scheduler or worker thread stands
  waitKind,         \* which of its three waits the scheduler thread is in
  task,             \* the (node_id, generation) each worker has taken
  op,               \* the scheduler call a session is about to make
  records,          \* the node records that call carries (0: none)
  main,             \* where the main thread stands
  loading,          \* rows scheduleExistingFeeds has still to load
  bumped,           \* history: see FlagsAccounted
  disturbed,        \* history: see OneFetchPerFeed
  outdated          \* history: see ScheduleFollowsTree

store     == <<tree, version>>
schedule  == <<feeds, readyQueue, scheduleChanged>>
threads   == <<pc, waitKind, task>>
calls     == <<op, records>>
startup   == <<main, loading, stopRequested>>
history   == <<bumped, disturbed, outdated>>
vars      == <<store, schedule, threads, calls, startup, history>>

Threads   == Workers \cup {Scheduler}
Versions  == 1..MaxVersion

-----------------------------------------------------------------------------
(* One entry of feeds_. Generation 0 stands for "no entry": operator[]      *)
(* default-constructs the entry and upsertFeedLocked adds 1 at once.         *)

Untracked ==
  [node |-> 0, generation |-> 0, queued |-> FALSE, running |-> FALSE, due |-> FALSE]

Tracked(f) == feeds[f].generation > 0

\* upsertFeedLocked: the queued and running flags of an existing entry stay.
\* Every caller asks for "immediate" or for a staggered start; a staggered
\* start is a run in the future, or one that Tick makes due at once.
\* (Mutation: an existing entry keeps the record it was made from.)
UpsertedKeepingRecord(state, v, immediate) ==
  [state EXCEPT !.node = IF state.generation = 0 THEN v ELSE @,
                !.generation = @ + 1, !.due = immediate]

Upserted(state, v, immediate) ==
  [node |-> v, generation |-> state.generation + 1,
   queued |-> state.queued, running |-> state.running, due |-> immediate]

\* cv_.notify_all. (Mutation: notify_one.)
NotifyOne(p) ==
  IF \A t \in Threads : p[t] # "waiting" THEN p
  ELSE [p EXCEPT ![CHOOSE t \in Threads : p[t] = "waiting"] = "woken"]

NotifyAll(p) == [t \in Threads |-> IF p[t] = "waiting" THEN "woken" ELSE p[t]]

\* Nobody is between a false predicate and the wait.
MutexFree == \A t \in Threads : pc[t] # "blocking"

\* What enqueueDueFeedsLocked may queue. (Mutations: a flag is not looked at.)
StartableThoughQueued  == {f \in Feeds : Tracked(f) /\ ~feeds[f].running}
StartableThoughRunning == {f \in Feeds : Tracked(f) /\ ~feeds[f].queued}

Startable == {f \in Feeds : Tracked(f) /\ ~feeds[f].queued /\ ~feeds[f].running}
DueFeeds  == {f \in Startable : feeds[f].due}

\* feeds_ is an unordered_map: due feeds are queued in any order.
Orders(S) ==
  {q \in [1..Cardinality(S) -> S] :
     /\ \A i, j \in 1..Cardinality(S) : q[i] = q[j] => i = j
     /\ \A x \in S : \E i \in 1..Cardinality(S) : q[i] = x}

\* erase(remove_if(...)): what is left of q, in order, when the entries at the
\* indices outside keep are dropped. The set has exactly one element.
Compacted(q, keep) ==
  {[i \in 1..Cardinality(keep) |-> q[h[i]]] :
     h \in {g \in [1..Cardinality(keep) -> keep] :
              /\ \A i, j \in 1..Cardinality(keep) : i < j => g[i] < g[j]
              /\ \A k \in keep : \E i \in 1..Cardinality(keep) : g[i] = k}}

OnFeed(w, f) == task[w] # NoTask /\ task[w][1] = f

-----------------------------------------------------------------------------
(* The main thread: start(), scheduleExistingFeeds(), then the accept loop;  *)
(* or stop(), when the acceptor cannot be opened and the server unwinds.     *)

Init ==
  /\ tree \in SUBSET Feeds
  /\ version = [f \in Feeds |-> IF f \in tree THEN 1 ELSE 0]
  /\ feeds = [f \in Feeds |-> Untracked]
  /\ readyQueue = <<>>
  /\ scheduleChanged = FALSE
  /\ stopRequested = FALSE
  /\ pc = [t \in Threads |-> "none"]
  /\ waitKind = "work"
  /\ task = [w \in Workers |-> NoTask]
  /\ op = [s \in Sessions |-> "none"]
  /\ records = [s \in Sessions |-> [f \in Feeds |-> 0]]
  /\ main = "start"
  /\ loading = {}
  /\ bumped = {}
  /\ disturbed = {}
  /\ outdated = {}

Start ==
  /\ main = "start"
  /\ main' = "clear"
  /\ stopRequested' = FALSE
  /\ pc' = [t \in Threads |-> "ready"]
  /\ UNCHANGED <<store, schedule, waitKind, task, calls, loading, history>>

ClearExisting ==
  /\ main = "clear"
  /\ MutexFree
  /\ main' = "load"
  /\ feeds' = [f \in Feeds |-> Untracked]
  /\ readyQueue' = <<>>
  /\ loading' = tree
  /\ UNCHANGED <<store, scheduleChanged, threads, calls, stopRequested, history>>

LoadExisting(f) ==
  /\ main = "load"
  /\ MutexFree
  /\ f \in loading
  /\ feeds' = [feeds EXCEPT ![f] = Upserted(@, version[f], FALSE)]
  /\ loading' = loading \ {f}
  /\ UNCHANGED <<store, readyQueue, scheduleChanged, threads, calls, main,
                 stopRequested, history>>

FinishExisting ==
  /\ main = "load"
  /\ MutexFree
  /\ loading = {}
  /\ scheduleChanged' = TRUE
  /\ pc' = NotifyAll(pc)
  /\ main' \in {"serve", "stop"}
  /\ UNCHANGED <<store, feeds, readyQueue, waitKind, task, calls, loading,
                 stopRequested, history>>

\* stop() raises the flag without taking mutex_, ...
RequestStop ==
  /\ main = "stop"
  /\ main' = "notify"
  /\ stopRequested' = TRUE
  /\ UNCHANGED <<store, schedule, threads, calls, loading, history>>

\* ... wakes whoever waits at that moment, ...
NotifyStop ==
  /\ main = "notify"
  /\ main' = "join"
  /\ pc' = NotifyAll(pc)
  /\ UNCHANGED <<store, schedule, waitKind, task, calls, loading, stopRequested, history>>

\* ... and joins every thread.
JoinThreads ==
  /\ main = "join"
  /\ \A t \in Threads : pc[t] = "exited"
  /\ main' = "done"
  /\ UNCHANGED <<store, schedule, threads, calls, loading, stopRequested, history>>

-----------------------------------------------------------------------------
(* The scheduler thread                                                      *)

\* The predicate of the wait the scheduler thread is in. (Mutations: the
\* changed flag, or the stop flag, is not looked at.)
WakeIgnoringChange ==
  \/ stopRequested
  \/ waitKind = "drain" /\ readyQueue = <<>>
  \/ waitKind = "work" /\ readyQueue # <<>>

WakeIgnoringStop ==
  \/ scheduleChanged
  \/ waitKind = "drain" /\ readyQueue = <<>>
  \/ waitKind = "work" /\ readyQueue # <<>>

WakePredicate ==
  \/ stopRequested
  \/ scheduleChanged
  \/ waitKind = "drain" /\ readyQueue = <<>>
  \/ waitKind = "work" /\ readyQueue # <<>>

\* It enters its loop body at the start, woken with the predicate true, or
\* because the time it waits for (the earliest next_run) has come.
AtLoopTop ==
  \/ pc[Scheduler] = "ready"
  \/ pc[Scheduler] = "woken" /\ WakePredicate
  \/ pc[Scheduler] = "waiting" /\ waitKind = "timed" /\ DueFeeds # {}

SchedulerPass ==
  /\ MutexFree
  /\ AtLoopTop
  /\ ~stopRequested
  /\ \E order \in Orders(DueFeeds) :
       readyQueue' = readyQueue \o
         [i \in 1..Cardinality(DueFeeds) |-> <<order[i], feeds[order[i]].generation>>]
  /\ feeds' = [f \in Feeds |->
                 IF f \in DueFeeds THEN [feeds[f] EXCEPT !.queued = TRUE] ELSE feeds[f]]
  /\ scheduleChanged' = FALSE
  /\ waitKind' = IF readyQueue' # <<>> THEN "drain"
                 ELSE IF Startable = {} THEN "work" ELSE "timed"
  /\ pc' = [(IF readyQueue' # <<>> THEN NotifyAll(pc) ELSE pc)
              EXCEPT ![Scheduler] = "blocking"]
  /\ UNCHANGED <<store, task, calls, startup, history>>

\* Woken with the predicate false: back to waiting.
SchedulerRecheck ==
  /\ MutexFree
  /\ pc[Scheduler] = "woken"
  /\ ~WakePredicate
  /\ pc' = [pc EXCEPT ![Scheduler] = "blocking"]
  /\ UNCHANGED <<store, schedule, waitKind, task, calls, startup, history>>

SchedulerExit ==
  /\ MutexFree
  /\ AtLoopTop
  /\ stopRequested
  /\ pc' = [pc EXCEPT ![Scheduler] = "exited"]
  /\ UNCHANGED <<store, schedule, waitKind, task, calls, startup, history>>

\* cv_.wait releases mutex_ and joins the waiters.
Block(t) ==
  /\ pc[t] = "blocking"
  /\ pc' = [pc EXCEPT ![t] = "waiting"]
  /\ UNCHANGED <<store, schedule, waitKind, task, calls, startup, history>>

-----------------------------------------------------------------------------
(* A worker thread                                                           *)

AtWorkerTop(w) == MutexFree /\ pc[w] \in {"ready", "woken"}

WorkerWait(w) ==
  /\ AtWorkerTop(w)
  /\ ~stopRequested
  /\ readyQueue = <<>>
  /\ pc' = [pc EXCEPT ![w] = "blocking"]
  /\ UNCHANGED <<store, schedule, waitKind, task, calls, startup, history>>

WorkerExit(w) ==
  /\ AtWorkerTop(w)
  /\ stopRequested
  /\ pc' = [pc EXCEPT ![w] = "exited"]
  /\ UNCHANGED <<store, schedule, waitKind, task, calls, startup, history>>

\* The front entry is current: its feed goes from queued to running.
Dispatch(w) ==
  /\ AtWorkerTop(w)
  /\ ~stopRequested
  /\ readyQueue # <<>>
  /\ LET f == Head(readyQueue)[1] IN
       /\ feeds[f].generation = Head(readyQueue)[2]
       /\ feeds' = [feeds EXCEPT ![f] = [@ EXCEPT !.queued = FALSE, !.running = TRUE]]
  /\ task' = [task EXCEPT ![w] = Head(readyQueue)]
  /\ readyQueue' = Tail(readyQueue)
  /\ pc' = [NotifyAll(pc) EXCEPT ![w] = "dispatched"]
  /\ UNCHANGED <<store, scheduleChanged, waitKind, calls, startup, history>>

\* A stale front entry is dropped; the feed's queued flag stays as it is.
DiscardStale(w) ==
  /\ AtWorkerTop(w)
  /\ ~stopRequested
  /\ readyQueue # <<>>
  /\ feeds[Head(readyQueue)[1]].generation # Head(readyQueue)[2]
  /\ readyQueue' = Tail(readyQueue)
  /\ pc' = [NotifyAll(pc) EXCEPT ![w] = "ready"]
  /\ UNCHANGED <<store, feeds, scheduleChanged, waitKind, task, calls, startup, history>>

\* executeFetch looks the feed up again before it fetches.
BeginFetch(w) ==
  /\ pc[w] = "dispatched"
  /\ MutexFree
  /\ feeds[task[w][1]].generation = task[w][2]
  /\ pc' = [pc EXCEPT ![w] = "fetching"]
  /\ UNCHANGED <<store, schedule, waitKind, task, calls, startup, history>>

\* History only: the last worker to leave a feed ends the disturbance.
Undisturbed(w) ==
  {f \in disturbed : \E other \in Workers \ {w} : OnFeed(other, f)}

\* The early return of executeFetch: the running flag stays as it is.
AbandonFetch(w) ==
  /\ pc[w] = "dispatched"
  /\ MutexFree
  /\ feeds[task[w][1]].generation # task[w][2]
  /\ pc' = [pc EXCEPT ![w] = "ready"]
  /\ task' = [task EXCEPT ![w] = NoTask]
  /\ disturbed' = Undisturbed(w)
  /\ UNCHANGED <<store, schedule, waitKind, calls, startup, bumped, outdated>>

\* The entry after a fetch that was dispatched with generation g. (Mutation:
\* a fetch of an older generation changes nothing.)
FinishedIfCurrent(state, g) ==
  IF state.generation = g THEN [state EXCEPT !.running = FALSE, !.due = FALSE]
  ELSE state

Finished(state, g) ==
  [state EXCEPT !.running = FALSE, !.due = @ /\ state.generation # g]

\* The fetch has succeeded or thrown; both end here.
FinishFetch(w) ==
  /\ pc[w] = "fetching"
  /\ MutexFree
  /\ LET f == task[w][1] IN
       IF Tracked(f)
         THEN /\ feeds' = [feeds EXCEPT ![f] = Finished(feeds[f], task[w][2])]
              /\ scheduleChanged' = TRUE
              /\ pc' = [NotifyAll(pc) EXCEPT ![w] = "ready"]
         ELSE /\ pc' = [pc EXCEPT ![w] = "ready"]
              /\ UNCHANGED <<feeds, scheduleChanged>>
  /\ task' = [task EXCEPT ![w] = NoTask]
  /\ disturbed' = Undisturbed(w)
  /\ UNCHANGED <<store, readyQueue, waitKind, calls, startup, bumped, outdated>>

\* The next_run of a feed is reached.
Tick(f) ==
  /\ Tracked(f)
  /\ ~feeds[f].due
  /\ feeds' = [feeds EXCEPT ![f].due = TRUE]
  /\ UNCHANGED <<store, readyQueue, scheduleChanged, threads, calls, startup, history>>

-----------------------------------------------------------------------------
(* A session's reader thread: a request writes the nodes table, and then     *)
(* the handler calls the scheduler with what it has written or read back.    *)

CreateFeed(s, f) ==
  /\ main = "serve" /\ op[s] = "none"
  /\ Owner[f] = UserOf[s] /\ version[f] = 0
  /\ tree' = tree \cup {f}
  /\ version' = [version EXCEPT ![f] = 1]
  /\ op' = [op EXCEPT ![s] = "scheduleNow"]
  /\ records' = [records EXCEPT ![s] = [g \in Feeds |-> IF g = f THEN 1 ELSE 0]]
  /\ UNCHANGED <<schedule, threads, startup, history>>

UpdateFeed(s, f) ==
  /\ main = "serve" /\ op[s] = "none"
  /\ Owner[f] = UserOf[s] /\ f \in tree /\ version[f] < MaxVersion
  /\ version' = [version EXCEPT ![f] = @ + 1]
  /\ op' = [op EXCEPT ![s] = "scheduleNow"]
  /\ records' = [records EXCEPT ![s] = [g \in Feeds |-> IF g = f THEN version[f] + 1 ELSE 0]]
  /\ UNCHANGED <<tree, schedule, threads, startup, history>>

DeleteFeed(s, f) ==
  /\ main = "serve" /\ op[s] = "none"
  /\ Owner[f] = UserOf[s] /\ f \in tree
  /\ tree' = tree \ {f}
  /\ op' = [op EXCEPT ![s] = "reload"]
  /\ UNCHANGED <<version, records, schedule, threads, startup, history>>

UpdateUserSettings(s) ==
  /\ main = "serve" /\ op[s] = "none"
  /\ op' = [op EXCEPT ![s] = "reload"]
  /\ UNCHANGED <<store, records, schedule, threads, startup, history>>

\* History only: a call on a queued feed, or on one whose worker has not yet
\* looked it up again.
Bumps(f) ==
  \/ feeds[f].queued
  \/ \E w \in Workers : pc[w] = "dispatched" /\ OnFeed(w, f)

\* The node that listAllFeeds would read for f; 0: it has no row.
Row(f) == IF f \in tree THEN version[f] ELSE 0

\* History only: of the feeds some, those whose record in a call of s is not, or
\* not any more, what the nodes table has of them.
OutdatedBy(s, some) == (outdated \ some) \cup {f \in some : records[s][f] # Row(f)}

ScheduleNow(s) ==
  /\ op[s] = "scheduleNow"
  /\ MutexFree
  /\ \E f \in Feeds :
       /\ records[s][f] # 0
       /\ feeds' = [feeds EXCEPT ![f] = Upserted(@, records[s][f], TRUE)]
       /\ bumped' = bumped \cup {g \in {f} : Bumps(g)}
       /\ outdated' = OutdatedBy(s, {f})
  /\ scheduleChanged' = TRUE
  /\ pc' = NotifyAll(pc)
  /\ op' = [op EXCEPT ![s] = "none"]
  /\ records' = [records EXCEPT ![s] = [f \in Feeds |-> 0]]
  /\ UNCHANGED <<store, readyQueue, waitKind, task, startup, disturbed>>

\* reloadUserFeeds reads settings and nodes before it takes mutex_, ...
ListNodes(s) ==
  /\ op[s] = "reload"
  /\ op' = [op EXCEPT ![s] = "apply"]
  /\ records' = [records EXCEPT ![s] =
       [f \in Feeds |-> IF f \in tree /\ Owner[f] = UserOf[s] THEN version[f] ELSE 0]]
  /\ UNCHANGED <<store, schedule, threads, startup, history>>

\* The entry of a feed after a reload that has read the record v. (Mutation:
\* rows that are gone are scheduled too.)
ReloadedUnfiltered(v) == Upserted(Untracked, v, FALSE)

Reloaded(v) == IF v = 0 THEN Untracked ELSE Upserted(Untracked, v, FALSE)

\* ... then replaces the user's entries and drops them from the queue.
ApplyReload(s) ==
  /\ op[s] = "apply"
  /\ MutexFree
  /\ LET mine == {f \in Feeds : Owner[f] = UserOf[s]}
         kept == {i \in 1..Len(readyQueue) :
                    Tracked(readyQueue[i][1]) /\ readyQueue[i][1] \notin mine}
     IN /\ feeds' = [f \in Feeds |->
                       IF f \in mine THEN Reloaded(records[s][f]) ELSE feeds[f]]
        /\ readyQueue' \in Compacted(readyQueue, kept)
        /\ bumped' = bumped \ mine
        /\ disturbed' = disturbed \cup
             {f \in mine : \E w \in Workers : OnFeed(w, f)}
        /\ outdated' = OutdatedBy(s, mine)
  /\ scheduleChanged' = TRUE
  /\ pc' = NotifyAll(pc)
  /\ op' = [op EXCEPT ![s] = "none"]
  /\ records' = [records EXCEPT ![s] = [f \in Feeds |-> 0]]
  /\ UNCHANGED <<store, waitKind, task, startup>>

-----------------------------------------------------------------------------
MainStep ==
  \/ Start \/ ClearExisting \/ FinishExisting
  \/ RequestStop \/ NotifyStop \/ JoinThreads
  \/ \E f \in Feeds : LoadExisting(f)

SchedulerStep == SchedulerPass \/ SchedulerRecheck \/ SchedulerExit \/ Block(Scheduler)

\* Everything a worker does by itself; how long a fetch takes is up to the
\* remote server, so FinishFetch is not among it.
WorkerStep(w) ==
  \/ WorkerWait(w) \/ WorkerExit(w) \/ Dispatch(w) \/ DiscardStale(w)
  \/ BeginFetch(w) \/ AbandonFetch(w) \/ Block(w)

\* A new request, and the rest of the handler of one that has come.
RequestStep(s) ==
  \/ \E f \in Feeds : CreateFeed(s, f) \/ UpdateFeed(s, f) \/ DeleteFeed(s, f)
  \/ UpdateUserSettings(s)

CallStep(s) == ScheduleNow(s) \/ ListNodes(s) \/ ApplyReload(s)

Next ==
  \/ MainStep
  \/ SchedulerStep
  \/ \E w \in Workers : WorkerStep(w) \/ FinishFetch(w)
  \/ \E f \in Feeds : Tick(f)
  \/ \E s \in Sessions : RequestStep(s) \/ CallStep(s)

Spec == Init /\ [][Next]_vars

\* The operating system runs every thread of the process, and mutex_ is
\* granted to a thread that keeps asking for it. Nothing obliges a remote
\* server to answer, a user to send a request, or time to reach a next_run.
Fairness ==
  /\ WF_vars(MainStep)
  /\ SF_vars(SchedulerStep)
  /\ \A w \in Workers : SF_vars(WorkerStep(w))
  /\ \A s \in Sessions : SF_vars(CallStep(s))

FairSpec == Spec /\ Fairness

\* The same under servers that do answer: every fetch ends.
FetchesEnd == \A w \in Workers : SF_vars(FinishFetch(w))

AnsweredSpec == FairSpec /\ FetchesEnd
-----------------------------------------------------------------------------
(* Properties                                                                *)

FeedState ==
  {Untracked} \cup
  [node : Versions, generation : Nat \ {0}, queued : BOOLEAN, running : BOOLEAN,
   due : BOOLEAN]

ThreadState ==
  {"none", "ready", "blocking", "waiting", "woken", "dispatched", "fetching", "exited"}

\* The variables keep their types. In particular an entry of feeds_ never
\* exists without the node record it was made from.
TypeOK ==
  /\ tree \in SUBSET Feeds
  /\ version \in [Feeds -> 0..MaxVersion]
  /\ \A f \in tree : version[f] # 0
  /\ feeds \in [Feeds -> FeedState]
  /\ readyQueue \in Seq(Feeds \X (Nat \ {0}))
  /\ scheduleChanged \in BOOLEAN
  /\ stopRequested \in BOOLEAN
  /\ pc \in [Threads -> ThreadState]
  /\ waitKind \in {"drain", "work", "timed"}
  /\ task \in [Workers -> (Feeds \X (Nat \ {0})) \cup {NoTask}]
  /\ \A w \in Workers : pc[w] \in {"dispatched", "fetching"} <=> task[w] # NoTask
  /\ op \in [Sessions -> {"none", "scheduleNow", "reload", "apply"}]
  /\ records \in [Sessions -> [Feeds -> 0..MaxVersion]]
  /\ main \in {"start", "clear", "load", "serve", "stop", "notify", "join", "done"}
  /\ loading \in SUBSET tree
  /\ bumped \in SUBSET Feeds
  /\ disturbed \in SUBSET Feeds
  /\ outdated \in SUBSET Feeds

\* ready_queue_ never holds two entries for one feed, so it is never longer
\* than feeds_; and whatever the sessions call and the workers take, an entry
\* is for a feed that is still in feeds_, flagged as queued and not running.
QueueSound ==
  /\ \A i \in 1..Len(readyQueue) :
       LET state == feeds[readyQueue[i][1]] IN
         /\ state.queued /\ ~state.running
         /\ readyQueue[i][2] <= state.generation
  /\ \A i, j \in 1..Len(readyQueue) : readyQueue[i][1] = readyQueue[j][1] => i = j

\* A feed's queued and running flags keep it out of the queue, so each needs
\* somebody who will clear it: a queue entry of the current generation, or a
\* worker that is fetching or will find the generation unchanged. That holds
\* for every feed on which scheduleNow was not called while it was queued or
\* just dispatched (bumped, until the next reload). For those see
\* RequestedFetchStarts.
FlagsAccounted ==
  \A f \in Feeds \ bumped :
    /\ feeds[f].queued =>
         \E i \in 1..Len(readyQueue) : readyQueue[i] = <<f, feeds[f].generation>>
    /\ feeds[f].running =>
         \E w \in Workers :
           /\ OnFeed(w, f)
           /\ pc[w] = "fetching" \/ task[w][2] = feeds[f].generation

\* No two workers fetch the same feed at once, except after reloadUserFeeds
\* has replaced the feed's entry under a worker (disturbed, until no worker is
\* left on the feed): the new entry does not know of the fetch in flight.
OneFetchPerFeed ==
  \A f \in Feeds \ disturbed : \A w1, w2 \in Workers :
    OnFeed(w1, f) /\ OnFeed(w2, f) => w1 = w2

\* No wakeup is lost while the program runs: when there is work, no worker
\* sleeps (or is about to) without a notification on its way, and the
\* scheduler thread never sleeps through a change of the schedule or through
\* the emptying of the queue it waits to drain.
NoLostWakeup ==
  LET asleep(t) == pc[t] \in {"blocking", "waiting"} IN
    /\ \A w \in Workers : asleep(w) => readyQueue = <<>>
    /\ asleep(Scheduler) =>
         /\ ~scheduleChanged
         /\ waitKind = "drain" <=> readyQueue # <<>>

\* The schedule follows the nodes table, however the requests of a user's devices
\* interleave: whenever no call is still to come for a user, exactly the user's
\* feeds that have a row are scheduled, each from the row as it stands. Excepted
\* is a feed whose last call carried a record that another request had overtaken
\* (outdated, until the next call for it); nothing else loses an update.
ScheduleFollowsTree ==
  main = "serve" =>
    \A f \in Feeds \ outdated :
      (\A s \in Sessions : UserOf[s] = Owner[f] => op[s] = "none") =>
         feeds[f].node = Row(f)

Fetching(f) == \E w \in Workers : pc[w] = "fetching" /\ OnFeed(w, f)

\* A feed whose time has come is fetched, as long as the remote servers leave
\* one worker free: it is dispatched, rescheduled or dropped, or every worker
\* is inside a fetch, or the program stops. (Feeds in bumped are excepted.)
DueFeedDispatched ==
  \A f \in Feeds :
    feeds[f].due ~>
      \/ Fetching(f) \/ ~feeds[f].due \/ f \in bumped
      \/ \A w \in Workers : pc[w] = "fetching"
      \/ stopRequested

\* stop() gets past its joins if no thread is on its way into a wait when it
\* notifies, and no fetch is still in flight. The flag is raised and the
\* notification sent without mutex_, so a thread that has just found its
\* predicate false misses both and sleeps on.
StopCompletes ==
  (main = "notify" /\ MutexFree) ~>
    (main = "done" \/ \E w \in Workers : pc[w] = "fetching")

\* scheduleNow logs "Scheduled immediate fetch for feed": if every fetch ends,
\* a feed that is due is fetched or rescheduled sooner or later. The code does
\* not keep this: the generation scheduleNow bumps makes the queued entry
\* stale, and the worker that drops the entry leaves the queued flag set.
RequestedFetchStarts ==
  \A f \in Feeds : feeds[f].due ~> Fetching(f) \/ ~feeds[f].due \/ stopRequested
=============================================================================
