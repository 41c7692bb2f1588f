------------------------------ MODULE ArticlePane ------------------------------
(***************************************************************************)
(* The article pane of one device (desktop/src/main_view_model.cpp): the   *)
(* pages it asks for, what the user does to the articles in them, the      *)
(* notifications it gets, and the unread count beside them; with the       *)
(* requests for articles of its session (backend/src/app_server.cpp) and   *)
(* the tables behind them (backend/src/sqlite_tree_repository.cpp).        *)
(*                                                                         *)
(* Every request has a thread of its own (runAsync), which waits for the   *)
(* answer and posts it to the GUI thread: answers are used in any order,   *)
(* and later than they were computed. The view on show, the list and the   *)
(* flag that a page is being loaded belong to the GUI thread, but a thread *)
(* whose mark failed reloads the pane itself.                              *)
(*                                                                         *)
(* The scheduler and the user's other devices change the same tables, and  *)
(* their notifications come late or, while the device is not connected,    *)
(* not at all. Feeds are not created or deleted here: see TreeSync.        *)
(***************************************************************************)
EXTENDS ArticleListModel, Bags

CONSTANTS
  Holds,       \* the articles of each feed, and of all feeds below each folder
  Folders,     \* the nodes of Holds that are folders
  Root, Queue, \* kRootNodeId, kQueueNodeId
  Everywhere,  \* the empty node_id of a notification
  Titles,      \* for each query, the articles whose titles it is found in
  NoQuery,     \* the empty query
  Limit,       \* articles in a page: 200
  Scenarios    \* bounds; see Scenario

Feeds == DOMAIN Holds \ Folders
Nodes == DOMAIN Holds \cup {Root, Queue}
Views == [node : Nodes, query : DOMAIN Titles, unread : BOOLEAN]

ASSUME PaneAssumption ==
  /\ Holds \in [DOMAIN Holds -> SUBSET Articles]
  /\ \A a \in Articles : \E f \in Feeds : \A g \in Feeds : a \in Holds[g] <=> g = f
  /\ {Root, Queue} \cap DOMAIN Holds = {}
  /\ Titles \in [DOMAIN Titles -> SUBSET Articles]
  /\ NoQuery \in DOMAIN Titles /\ Titles[NoQuery] = Articles
  /\ Limit \in Nat \ {0}

Ops == {"select", "search", "filter", "more", "read", "unread", "queue", "unqueue", "all", "refresh"}

\* Bounds on one behaviour: the read flags of the articles there are at first,
\* what the user does, with which nodes and how often, what the scheduler
\* ("fetch") and other devices do and how often, and how many faults there are.
Scenario == [stored : UNION {[S -> BOOLEAN] : S \in SUBSET Articles},
             ops : SUBSET Ops, nodes : SUBSET Nodes, acts : Nat,
             others : SUBSET (Ops \cup {"fetch"}), changes : Nat, faults : Nat]

ASSUME ScenarioAssumption == Scenarios \subseteq Scenario

VARIABLES
  articles,   \* table articles: the read flag of each article that is stored
  queued,     \* table queued_articles, by the article that was copied
  notes,      \* notifications on their way to the device, a bag
  jobs,       \* what the device's threads are doing, a bag; see below
  astray,     \* changes that failed here and that the server may still make, a bag
  view,       \* selected_node_id_, article_search_query_, ~showing_read_articles_
  list, row,  \* article_list_model_: articles_ and selected_row_
  loading,    \* loading_more_articles_
  next, more, \* next_article_offset_, can_load_more_articles_
  cache,      \* article_cache_, by view
  count,      \* unread_count_
  left,       \* bound: what the scenario has left
  broken,     \* history: a merge read past the end of the list
  lapses      \* history: see Lapses

tables  == <<articles, queued>>
pager   == <<loading, next, more>>
pane    == <<view, list, row, cache, count, broken>>
vars    == <<tables, notes, jobs, astray, pane, pager, left, lapses>>

-----------------------------------------------------------------------------
(* Jobs. A request is "asked" until the server has handled it, then it is   *)
(* "done" or "failed" until the device has dealt with the answer. "reload" *)
(* is a thread in the middle of loadArticlesPage, "connect" is reconnect().*)

PageJob(v, append, offset) ==
  [job |-> "page", state |-> "asked", view |-> v, append |-> append, offset |-> offset]
CountJob      == [job |-> "count", state |-> "asked"]
ConnectJob    == [job |-> "connect", state |-> "asked"]
RefreshJob(f) == [job |-> "refresh", state |-> "asked", feed |-> f]
ReloadJob(v)  == [job |-> "reload", state |-> "checked", view |-> v]

\* A request that changes articles. The node is the queue when that is on show.
WriteJob(op, node, article, copy) ==
  [job |-> "write", state |-> "asked", op |-> op, node |-> node, article |-> article,
   copy |-> copy]

\* As in BagsExt, by the operators of Bags.
BagAdd(bag, x)    == bag (+) SetToBag({x})
BagRemove(bag, x) == bag (-) SetToBag({x})

Jobs    == BagToSet(jobs)
Paging  == \E j \in Jobs : j.job = "page"
Offline == ConnectJob \in Jobs
Quiet   == Jobs = {} /\ notes = EmptyBag

-----------------------------------------------------------------------------
(* History: what can leave the pane behind the server. It is only read by   *)
(* the properties.                                                         *)
(*   missed   the list: a reload was refused because a page was loading, or *)
(*            began while an older one was on its way, a notification or an *)
(*            answer was not for the node on show, a page overtook a change *)
(*            of the user's, two of those crossed, the list did not follow  *)
(*            one, a request failed, or one that had failed was handled     *)
(*            when no reload was still to be served                         *)
(*   writes   how many changes the user asked for here, and the number of   *)
(*   based      them when the first page of the list was computed           *)
(*   overlap  a page had articles the list already had                      *)
(*   stuck    the flag stays up: see LoadingAccounted                       *)
(*   wrong    the count: an older answer was used last, or the server did   *)
(*            not tell of a change                                          *)
(*   commits  how many changes the server made, and the number of them when *)
(*   counted    the newest count that was used was computed, and when last  *)
(*   silent     the server told nobody of a change, or a count failed       *)

NoLapses ==
  [missed |-> FALSE, writes |-> 0, based |-> 0, overlap |-> FALSE, stuck |-> FALSE,
   wrong |-> FALSE, commits |-> 0, counted |-> 0, silent |-> 0]

Missed(so) == [lapses EXCEPT !.missed = so]

-----------------------------------------------------------------------------
(* What the server holds                                                    *)

Of(n) == IF n \in DOMAIN Holds THEN Holds[n] ELSE Articles
FeedOf(a) == CHOOSE f \in Feeds : a \in Holds[f]

\* The articles two nodes have in common as far as the pane goes.
Overlap(m, n) == Of(m) \cap Of(n) # {}

Rows(n) ==
  IF n = Queue
    THEN {[article |-> a, copy |-> TRUE, read |-> queued[a], queued |-> TRUE] :
            a \in DOMAIN queued}
    ELSE {[article |-> a, copy |-> FALSE, read |-> articles[a], queued |-> a \in DOMAIN queued] :
            a \in DOMAIN articles \cap Of(n)}

\* ORDER BY published_at DESC, id DESC
ListedBefore(r, s) ==
  \/ Published[r.article] > Published[s.article]
  \/ Published[r.article] = Published[s.article] /\ r.article > s.article

Listed(v) == {r \in Rows(v.node) : r.article \in Titles[v.query] /\ ~(v.unread /\ r.read)}

\* listArticles, all pages of it
Listing(v) ==
  LET place(r) == Cardinality({s \in Listed(v) : ListedBefore(s, r)}) + 1
  IN [i \in 1..Cardinality(Listed(v)) |-> CHOOSE r \in Listed(v) : place(r) = i]

Unread == Cardinality({a \in DOMAIN articles : ~articles[a]})

-----------------------------------------------------------------------------
(* What a request that changes articles does. A mark, or a place in the     *)
(* queue, finds a copy by the copy's id when it names the queue, and else  *)
(* an article by its own.                                                  *)

Found(w) ==
  IF (w.node = Queue) # w.copy THEN {}
  ELSE {w.article} \cap (IF w.copy THEN DOMAIN queued ELSE DOMAIN articles \cup DOMAIN queued)

Flagged(table, some, read) ==
  [a \in DOMAIN table |-> IF a \in some THEN read ELSE table[a]]

ArticlesAfter(w) ==
  CASE w.op = "read"   -> Flagged(articles, Found(w), TRUE)
    [] w.op = "unread" -> Flagged(articles, Found(w), FALSE)
    [] w.op = "all"    -> Flagged(articles, IF w.node = Queue THEN DOMAIN queued ELSE Of(w.node), TRUE)
    [] OTHER           -> articles

QueuedAfter(w) ==
  CASE w.op = "read"    -> Flagged(queued, Found(w), TRUE)
    [] w.op = "unread"  -> Flagged(queued, Found(w), FALSE)
    [] w.op = "all"     -> IF w.node = Queue THEN Flagged(queued, DOMAIN queued, TRUE) ELSE queued
    [] w.op = "queue"   ->
         LET new == IF w.copy THEN {} ELSE Found(w) \cap DOMAIN articles
         IN [a \in DOMAIN queued \cup new |-> IF a \in DOMAIN queued THEN queued[a] ELSE articles[a]]
    [] w.op = "unqueue" -> Restrict(queued, DOMAIN queued \ Found(w))

Changes(w) == ArticlesAfter(w) # articles \/ QueuedAfter(w) # queued

\* An error is answered: to queue a copy under its feed, and, once it is done,
\* to mark all of the queue, whose row in tree_nodes is looked for in vain.
Throws(w) ==
  \/ w.op = "queue" /\ w.node # Queue /\ (w.copy \/ w.article \notin DOMAIN articles)
  \/ w.op = "all" /\ w.node = Queue /\ Changes(w)

\* Mutation: a mark of an article as unread is not told of.
ToldButUnread(w) ==
  IF ~Changes(w) \/ Throws(w) \/ w.op = "unread" THEN {}
  ELSE CASE w.op \in {"queue", "unqueue"} -> {w.node, Queue}
         [] w.op = "all" /\ w.node \notin Feeds -> {Everywhere}
         [] OTHER -> {w.node}

\* The nodes that the devices are told of.
Told(w) ==
  IF ~Changes(w) \/ Throws(w) THEN {}
  ELSE CASE w.op \in {"queue", "unqueue"} -> {w.node, Queue}
         [] w.op = "all" /\ w.node \notin Feeds -> {Everywhere}
         [] OTHER -> {w.node}

Note(node, from) == [node |-> node, from |-> from]

Notify(nodes, from) ==
  notes' = IF Offline THEN notes ELSE notes (+) SetToBag({Note(n, from) : n \in nodes})

-----------------------------------------------------------------------------
\* The device has just connected: the pane of all feeds is being loaded.
Init ==
  /\ left \in Scenarios
  /\ articles = left.stored
  /\ queued = [a \in {} |-> TRUE]
  /\ notes = EmptyBag
  /\ view = [node |-> Root, query |-> NoQuery, unread |-> FALSE]
  /\ list = <<>> /\ row = 0
  /\ jobs = SetToBag({PageJob(view, FALSE, 0)})
  /\ astray = EmptyBag
  /\ loading = TRUE /\ next = 0 /\ more = FALSE
  /\ cache = [v \in {} |-> NoLapses]
  /\ count = Unread
  /\ broken = FALSE
  /\ lapses = NoLapses

-----------------------------------------------------------------------------
(* The pane: pages                                                          *)

\* loadArticlesPage, by a handler that leaves the jobs of rest, too.
LoadPage(v, append, rest, history) ==
  /\ IF loading
       THEN jobs' = rest /\ UNCHANGED pager
       ELSE /\ jobs' = BagAdd(rest, PageJob(v, append, IF append THEN next ELSE 0))
            /\ loading' = TRUE
            /\ next' = IF append THEN next ELSE 0
            /\ more' = (append /\ more)
  /\ lapses' = IF append THEN history ELSE [history EXCEPT !.missed = loading \/ Paging]

Spend(op) ==
  /\ left.acts > 0 /\ op \in left.ops
  /\ left' = [left EXCEPT !.acts = @ - 1]

SelectNode(n) ==
  /\ Spend("select")
  /\ n \in left.nodes \ {view.node}
  /\ row' = 0
  /\ view' = [view EXCEPT !.node = n]
  /\ LoadPage(view', FALSE, jobs, lapses)
  /\ UNCHANGED <<tables, notes, list, cache, count, broken>>

SearchArticles(q) ==
  /\ Spend("search")
  /\ view' = [view EXCEPT !.query = q]
  /\ LoadPage(view', FALSE, jobs, lapses)
  /\ UNCHANGED <<tables, notes, list, row, cache, count, broken>>

ToggleShowingReadArticles ==
  /\ Spend("filter")
  /\ view' = [view EXCEPT !.unread = ~@]
  /\ LoadPage(view', FALSE, jobs, lapses)
  /\ UNCHANGED <<tables, notes, list, row, cache, count, broken>>

LoadMoreArticles ==
  /\ Spend("more")
  /\ ~loading /\ more
  /\ LoadPage(view, TRUE, jobs, lapses)
  /\ UNCHANGED <<tables, notes, pane>>

\* setArticles, appendArticles. An id twice is not defined; see Merged.
Merge(page, removing) ==
  LET target == Target(list, row, page, removing) IN
    IF Doubled(target)
      THEN broken' = TRUE /\ UNCHANGED <<list, row>>
      ELSE /\ list' = Merged(list, target, removing)
           /\ row' = SelectedAfter(list, row, list')
           /\ UNCHANGED broken

Cached(v, page) == [w \in DOMAIN cache \cup {v} |-> IF w = v THEN page ELSE cache[w]]

\* What the cache has for the view on show, and the page after it.
CachedWith(page) ==
  IF view \in DOMAIN cache THEN cache[view].rows \o page ELSE page

\* Mutation: a page that is loaded again is added, too.
CacheGrown(j) == CachedWith(j.rows)

CacheAfter(j) == IF j.append THEN CachedWith(j.rows) ELSE j.rows

\* A page overtook a change that the user asked for here, or the pages before
\* it are of another listing.
Overtook(j) ==
  \/ j.writes # lapses.writes
  \/ j.append /\ lapses.based # lapses.writes /\ (view.unread \/ view.node = Queue)

\* The answer is for what was on show when it was asked for. (Mutation: the
\* filter is not compared.)
IsForViewButFilter(j) == j.view.node = view.node /\ j.view.query = view.query

IsForView(j) == j.view = view

\* The flag after a page came. (Mutation: one for another view leaves it up.)
LoadingUnlessShown(j) == loading /\ ~IsForView(j)

LoadingAfter(j) == FALSE

UsePage(j) ==
  /\ j.job = "page" /\ j.state = "done"
  /\ jobs' = BagRemove(jobs, j)
  /\ loading' = LoadingAfter(j)
  /\ IF IsForView(j)
       THEN /\ Merge(j.rows, ~j.append)
            /\ cache' = Cached(view, [rows |-> CacheAfter(j), next |-> j.next, more |-> j.more])
            /\ next' = j.next
            /\ more' = j.more
            /\ lapses' = [lapses EXCEPT
                 !.missed = @ \/ Overtook(j),
                 !.based = IF j.append THEN @ ELSE lapses.writes,
                 !.overlap = @ \/ (j.append /\ Ids(j.rows) \cap Ids(CachedWith(<<>>)) # {}),
                 !.stuck = FALSE]
       ELSE /\ lapses' = [lapses EXCEPT !.missed = TRUE, !.stuck = FALSE]
            /\ UNCHANGED <<list, row, cache, broken, next, more>>
  /\ UNCHANGED <<tables, notes, view, count, left>>

\* The list that is shown instead of a page that could not be fetched.
Substitute ==
  IF view \in DOMAIN cache THEN cache[view] ELSE [rows |-> <<>>, next |-> 0, more |-> FALSE]

\* A reconnect follows an error that was a timeout or a connection gone. One
\* for another view than that on show leaves the flag up.
PageFailed(j) ==
  /\ j.job = "page" /\ j.state = "failed"
  /\ LET rest == BagRemove(jobs, j) IN
       IF ~IsForView(j)
         THEN /\ jobs' = rest
              /\ lapses' = [lapses EXCEPT !.missed = TRUE,
                   !.stuck = loading /\ \A k \in BagToSet(rest) : k.job # "page"]
              /\ UNCHANGED <<list, row, broken, pager, notes>>
         ELSE /\ IF j.append
                   THEN more' = FALSE /\ UNCHANGED <<list, row, broken, next>>
                   ELSE /\ Merge(Substitute.rows, TRUE)
                        /\ next' = Substitute.next
                        /\ more' = Substitute.more
              /\ loading' = FALSE
              /\ \/ jobs' = rest /\ UNCHANGED notes
                 \/ ~Offline /\ jobs' = BagAdd(rest, ConnectJob) /\ notes' = EmptyBag
              /\ lapses' = [lapses EXCEPT !.missed = TRUE, !.stuck = FALSE]
  /\ UNCHANGED <<tables, view, cache, count, left>>

-----------------------------------------------------------------------------
(* The pane: what the user does to articles                                 *)

NodeFor(r) == IF view.node = Queue THEN Queue ELSE FeedOf(r.article)

WriteFor(op, r) == WriteJob(op, NodeFor(r), r.article, r.copy)

\* std::max(0, n - k). (Mutation: without.)
Minus(n, k) == n - k

Less(n, k) == IF n > k THEN n - k ELSE 0

\* Another request of the user's for the same article is not handled yet: their
\* threads may send them in either order.
Crossing(w) ==
  \E k \in Jobs : /\ k.job = "write" /\ k.state = "asked"
                  /\ k.article = w.article \/ "all" \in {k.op, w.op}

Wrote(w) == [lapses EXCEPT !.writes = @ + 1, !.missed = @ \/ Crossing(w)]

\* selectArticleRow, and openSelectedArticle: markSelectedArticleRead
SelectArticle(i) ==
  /\ Spend("read")
  /\ i \in DOMAIN list
  /\ row' = i
  /\ IF list[i].read
       THEN UNCHANGED <<list, count, jobs, lapses>>
       ELSE /\ list' = Flag(list, i, "read", TRUE)
            /\ count' = Less(count, 1)
            /\ jobs' = BagAdd(jobs, WriteFor("read", list[i]))
            /\ lapses' = Wrote(WriteFor("read", list[i]))
  /\ UNCHANGED <<tables, notes, view, cache, broken, pager>>

MarkSelectedArticleUnread ==
  /\ Spend("unread")
  /\ row # 0 /\ list[row].read
  /\ list' = Flag(list, row, "read", FALSE)
  /\ count' = count + 1
  /\ jobs' = BagAdd(jobs, WriteFor("unread", list[row]))
  /\ lapses' = Wrote(WriteFor("unread", list[row]))
  /\ UNCHANGED <<tables, notes, view, row, cache, broken, pager>>

\* An article that leaves the queue while it is on show: the pane is reloaded.
ToggleSelectedArticleQueued ==
  /\ Spend("queue")
  /\ row # 0
  /\ LET was == list[row].queued
         job == WriteFor(IF was THEN "unqueue" ELSE "queue", list[row])
     IN /\ list' = Flag(list, row, "queued", ~was)
        /\ IF was /\ view.node = Queue
             THEN LoadPage(view, FALSE, BagAdd(jobs, job), Wrote(job))
             ELSE jobs' = BagAdd(jobs, job) /\ lapses' = Wrote(job) /\ UNCHANGED pager
  /\ UNCHANGED <<tables, notes, view, row, cache, count, broken>>

\* Of any node: the list is only changed for the one on show.
MarkAllArticlesRead(n) ==
  /\ Spend("all")
  /\ n \in left.nodes
  /\ LET shown == n = view.node
         unread == Cardinality(UnreadRows(list))
         job == WriteJob("all", n, 0, FALSE)
     IN /\ list' = IF shown THEN AllRead(list) ELSE list
        /\ count' = IF shown THEN Less(count, unread) ELSE count
        /\ jobs' = BagAdd(jobs, job)
        /\ lapses' = [Wrote(job) EXCEPT
             !.missed = @ \/ (~shown /\ view.node # Queue /\ Overlap(n, view.node))]
  /\ UNCHANGED <<tables, notes, view, row, cache, broken, pager>>

RefreshFeed(f) ==
  /\ Spend("refresh")
  /\ f \in Feeds \cap left.nodes
  /\ jobs' = BagAdd(jobs, RefreshJob(f))
  /\ UNCHANGED <<tables, notes, pane, pager, lapses>>

\* The user's thread after the answer. Errors of a mark, and of a change of the
\* queue, reload the pane, in this thread: the flag is read here, but is raised
\* in ReloadByThread.
FinishWrite(j) ==
  /\ j.job = "write" /\ j.state \in {"done", "failed"}
  /\ LET reloads == j.state = "failed" /\ j.op # "all"
         counts  == j.op = "all" \/ (j.state = "failed" /\ j.op \in {"read", "unread"})
         rest    == IF counts THEN BagAdd(BagRemove(jobs, j), CountJob) ELSE BagRemove(jobs, j)
     IN /\ jobs' = IF reloads /\ ~loading THEN BagAdd(rest, ReloadJob(view)) ELSE rest
        /\ lapses' = Missed(lapses.missed \/ (reloads /\ loading)
                              \/ (j.state = "failed" /\ j.op = "all"))
  /\ UNCHANGED <<tables, notes, pane, pager, left>>

ReloadByThread(j) ==
  /\ j.job = "reload"
  /\ jobs' = BagAdd(BagRemove(jobs, j), PageJob(j.view, FALSE, 0))
  /\ loading' = TRUE
  /\ next' = 0
  /\ more' = FALSE
  /\ lapses' = Missed(Paging)
  /\ UNCHANGED <<tables, notes, pane, left>>

FinishRefresh(j) ==
  /\ j.job = "refresh" /\ j.state \in {"done", "failed"}
  /\ LET rest == BagRemove(jobs, j) IN
       CASE j.state = "failed" ->
              jobs' = rest /\ lapses' = Missed(TRUE) /\ UNCHANGED pager
         [] j.state = "done" /\ view.node \in {Root, Queue, j.feed} ->
              LoadPage(view, FALSE, BagAdd(rest, CountJob), lapses)
         [] OTHER ->
              /\ jobs' = BagAdd(rest, CountJob)
              /\ lapses' = Missed(lapses.missed \/ Overlap(j.feed, view.node))
              /\ UNCHANGED pager
  /\ UNCHANGED <<tables, notes, pane, left>>

-----------------------------------------------------------------------------
(* The pane: notifications and counts                                       *)

\* Whether a notification, not of the device's own doing, is about the list on
\* show. One of the scheduler (no origin) always is.
Concerns(m) ==
  \/ m.node \in {Everywhere, Queue, view.node}
  \/ view.node \in {Root, Queue}
  \/ m.from = "scheduler"

\* For a folder, those of other devices about the feeds below it are not.
ReceiveNote(m) ==
  /\ BagIn(m, notes)
  /\ notes' = BagRemove(notes, m)
  /\ LET counting == BagAdd(jobs, CountJob) IN
       IF m.from # "own" /\ Concerns(m)
         THEN LoadPage(view, FALSE, counting, lapses)
         ELSE /\ jobs' = counting
              /\ lapses' = Missed(lapses.missed \/ (m.from # "own" /\ Overlap(m.node, view.node)))
              /\ UNCHANGED pager
  /\ cache' = IF m.from # "own" /\ m.node = Everywhere THEN [v \in {} |-> NoLapses] ELSE cache
  /\ UNCHANGED <<tables, view, list, row, count, broken, left>>

Counted(j, history) ==
  [history EXCEPT
     !.wrong = j.commits < lapses.counted \/ j.commits < lapses.silent,
     !.counted = IF j.commits > @ THEN j.commits ELSE @]

UseCount(j) ==
  /\ j.job = "count" /\ j.state \in {"done", "failed"}
  /\ jobs' = BagRemove(jobs, j)
  /\ IF j.state = "done"
       THEN count' = j.value /\ lapses' = Counted(j, lapses)
       ELSE /\ lapses' = [lapses EXCEPT !.wrong = TRUE, !.silent = lapses.commits]
            /\ UNCHANGED count
  /\ UNCHANGED <<tables, notes, view, list, row, cache, broken, pager, left>>

\* reconnect() has the count, too, and reloads the pane.
UseConnection(j) ==
  /\ j.job = "connect" /\ j.state = "done"
  /\ count' = j.value
  /\ LoadPage(view, FALSE, BagRemove(jobs, j), Counted(j, lapses))
  /\ UNCHANGED <<tables, notes, view, list, row, cache, broken, left>>

-----------------------------------------------------------------------------
(* The server: the requests of the device                                   *)

Serving(j, kind) == j.job = kind /\ j.state = "asked" /\ ~Offline

\* One article more is asked for than there are in a page.
ServePage(j) ==
  /\ Serving(j, "page")
  /\ LET all  == Listing(j.view)
         last == IF j.offset + Limit < Len(all) THEN j.offset + Limit ELSE Len(all)
         rows == SubSeq(all, j.offset + 1, last)
         behind == \E k \in Jobs : k.job = "write" /\ k.state = "asked"
     IN jobs' = BagAdd(BagRemove(jobs, j),
          [job |-> "page", state |-> "done", view |-> j.view, append |-> j.append,
           rows |-> rows, next |-> j.offset + Len(rows), more |-> last < Len(all),
           writes |-> IF behind THEN 0 - 1 ELSE lapses.writes])
  /\ UNCHANGED <<tables, notes, pane, pager, left, lapses>>

Count(kind) ==
  [job |-> kind, state |-> "done", value |-> Unread, commits |-> lapses.commits]

ServeCount(j) ==
  /\ Serving(j, "count")
  /\ jobs' = BagAdd(BagRemove(jobs, j), Count("count"))
  /\ UNCHANGED <<tables, notes, pane, pager, left, lapses>>

\* The session is registered, and the count is fetched.
ServeConnection(j) ==
  /\ j = ConnectJob
  /\ jobs' = BagAdd(BagRemove(jobs, j), Count("connect"))
  /\ UNCHANGED <<tables, notes, pane, pager, left, lapses>>

ServeWrite(j) ==
  /\ Serving(j, "write")
  /\ articles' = ArticlesAfter(j)
  /\ queued' = QueuedAfter(j)
  /\ jobs' = BagAdd(BagRemove(jobs, j),
               [j EXCEPT !.state = IF Throws(j) THEN "failed" ELSE "done"])
  /\ Notify(Told(j), "own")
  /\ lapses' = [lapses EXCEPT
       !.commits = IF Changes(j) THEN @ + 1 ELSE @,
       !.wrong = @ \/ (~Changes(j) /\ j.op \in {"read", "unread"})]
  /\ UNCHANGED <<pane, pager, left>>

\* Bound: a fetch finds one new article or none; the archive policy keeps all.
Arrives(some, from, f, missed) ==
  /\ articles' = [a \in DOMAIN articles \cup some |-> IF a \in some THEN FALSE ELSE articles[a]]
  /\ Notify({f}, from)
  /\ lapses' = [lapses EXCEPT !.commits = IF some = {} THEN @ ELSE @ + 1, !.missed = missed]

ServeRefresh(j) ==
  /\ Serving(j, "refresh")
  /\ \E some \in {{}} \cup {{a} : a \in Holds[j.feed] \ DOMAIN articles} :
       Arrives(some, "own", j.feed, lapses.missed)
  /\ jobs' = BagAdd(BagRemove(jobs, j), [j EXCEPT !.state = "done"])
  /\ UNCHANGED <<queued, pane, pager, left>>

-----------------------------------------------------------------------------
(* The server: the scheduler and the user's other devices                   *)

SpendChange(op) ==
  /\ left.changes > 0 /\ op \in left.others
  /\ left' = [left EXCEPT !.changes = @ - 1]

SchedulerFetches(a) ==
  /\ SpendChange("fetch")
  /\ a \notin DOMAIN articles
  /\ Arrives({a}, "scheduler", FeedOf(a), lapses.missed)
  /\ UNCHANGED <<queued, jobs, pane, pager>>

\* What another device's pane or tree asks for.
Asked ==
  {WriteJob(op, IF copy THEN Queue ELSE FeedOf(a), a, copy) :
     op \in {"read", "unread", "queue", "unqueue"}, a \in Articles, copy \in BOOLEAN}
  \cup {WriteJob("all", n, 0, FALSE) : n \in Nodes}

\* A change that no job of the device's waits for.
Commits(w, from, missed) ==
  /\ Changes(w)
  /\ articles' = ArticlesAfter(w)
  /\ queued' = QueuedAfter(w)
  /\ Notify(Told(w), from)
  /\ lapses' = [lapses EXCEPT
       !.commits = @ + 1,
       !.missed = missed \/ Throws(w),
       !.wrong = @ \/ Throws(w),
       !.silent = IF Throws(w) THEN lapses.commits + 1 ELSE @]

OtherDeviceWrites(w) ==
  /\ SpendChange(w.op)
  /\ Commits(w, "other", lapses.missed)
  /\ UNCHANGED <<jobs, pane, pager>>

-----------------------------------------------------------------------------
(* Faults                                                                   *)

\* A request times out, gets an error for an answer, or goes with the
\* connection, before or after the server has handled it. One that it has not
\* handled can be in a queue of the device's, or be read late by a session that
\* is no longer the device's own, behind a fetch that takes its time.
RequestFails(j) ==
  /\ j.job \in {"page", "count", "write", "refresh"}
  /\ j.state \in {"asked", "done"}
  /\ IF Offline THEN UNCHANGED left
     ELSE left.faults > 0 /\ left' = [left EXCEPT !.faults = @ - 1]
  /\ jobs' = BagAdd(BagRemove(jobs, j),
       CASE j.job = "page"  -> [job |-> "page", state |-> "failed", view |-> j.view,
                                append |-> j.append]
         [] j.job = "count" -> [job |-> "count", state |-> "failed"]
         [] OTHER           -> [j EXCEPT !.state = "failed"])
  /\ astray' = IF j.job \in {"write", "refresh"} /\ j.state = "asked"
                 THEN BagAdd(astray, j) ELSE astray
  /\ UNCHANGED <<tables, notes, pane, pager, lapses>>

\* A reload of what is on show that the server has not handled yet
ReloadAsked ==
  \E p \in Jobs : p.job = "page" /\ p.state = "asked" /\ ~p.append /\ p.view = view

\* Such a request is handled after all, if ever, also when the device is not
\* connected or has reloaded. (Where it changes nothing it is as if it were not.)
CommitAstray(j) ==
  /\ LET missed == lapses.missed \/ ~ReloadAsked IN
       \/ j.job = "write" /\ Commits(j, "own", missed)
       \/ /\ j.job = "refresh"
          /\ \E a \in Holds[j.feed] \ DOMAIN articles : Arrives({a}, "own", j.feed, missed)
          /\ UNCHANGED queued
  /\ astray' = BagRemove(astray, j)
  /\ UNCHANGED <<jobs, pane, pager, left>>

\* The health check finds the connection gone, and with it what was on its way.
LoseConnection ==
  /\ \A j \in Jobs : j.job # "connect"
  /\ left.faults > 0
  /\ left' = [left EXCEPT !.faults = @ - 1]
  /\ notes' = EmptyBag
  /\ jobs' = BagAdd(jobs, ConnectJob)
  /\ UNCHANGED <<tables, pane, pager, lapses>>

-----------------------------------------------------------------------------
UserActs ==
  \/ \E n \in left.nodes : SelectNode(n) \/ MarkAllArticlesRead(n)
  \/ \E q \in DOMAIN Titles : SearchArticles(q)
  \/ ToggleShowingReadArticles \/ LoadMoreArticles
  \/ \E i \in DOMAIN list : SelectArticle(i)
  \/ MarkSelectedArticleUnread \/ ToggleSelectedArticleQueued
  \/ \E f \in Feeds : RefreshFeed(f)

DeviceActs(j) ==
  \/ UsePage(j) \/ PageFailed(j) \/ FinishWrite(j) \/ ReloadByThread(j) \/ FinishRefresh(j)
  \/ UseCount(j) \/ UseConnection(j)

ServerActs(j) ==
  \/ ServePage(j) \/ ServeCount(j) \/ ServeConnection(j) \/ ServeWrite(j) \/ ServeRefresh(j)

Next ==
  /\ ~broken
  /\ \/ /\ \/ UserActs
           \/ \E j \in Jobs : DeviceActs(j) \/ ServerActs(j)
           \/ \E m \in BagToSet(notes) : ReceiveNote(m)
           \/ \E a \in Articles : SchedulerFetches(a)
           \/ \E w \in Asked : OtherDeviceWrites(w)
           \/ LoseConnection
        /\ UNCHANGED astray
     \/ \E j \in Jobs : RequestFails(j)
     \/ \E j \in BagToSet(astray) : CommitAstray(j)

Spec == Init /\ [][Next]_vars
-----------------------------------------------------------------------------
(* Properties                                                               *)

\* The variables keep their types; the selection is a row of the list, and the
\* list has an article once.
TypeOK ==
  /\ <<left.acts, left.changes, left.faults>> \in Nat \X Nat \X Nat
  /\ DOMAIN articles \subseteq Articles /\ DOMAIN queued \subseteq Articles
  /\ view \in Views
  /\ list \in Seq(Row) /\ ~Doubled(list)
  /\ row \in 0..Len(list)
  /\ DOMAIN cache \subseteq Views
  /\ \A v \in DOMAIN cache : cache[v].rows \in Seq(Row)
  /\ <<loading, more, broken>> \in BOOLEAN \X BOOLEAN \X BOOLEAN
  /\ <<next, count>> \in Nat \X Nat
  /\ IsABag(jobs) /\ IsABag(notes) /\ IsABag(astray)

Order(rows) == [i \in DOMAIN rows |-> Id(rows[i])]

\* article_list_model.cpp: "Keep the article being read even when a refresh no
\* longer returns it." Whatever page is merged, and however rows are inserted,
\* moved and removed for it, the list is in order and the selection stays on the
\* article it was on.
MergeKeepsPlace ==
  [][Order(list') # Order(list) =>
       /\ \A i, j \in DOMAIN list' : i < j => Before(list'[i], list'[j])
       /\ row # 0 => row' # 0 /\ Id(list'[row']) = Id(list[row])]_<<list, row>>

\* No answer puts articles into the list that do not belong to what is on show,
\* by node, query and filter: not one for a view that was left while it was on
\* its way, nor the cached page that stands in for one that failed.
PagesAreOfTheView ==
  [][\A i \in DOMAIN list' :
       Id(list'[i]) \notin Ids(list) =>
         /\ list'[i].copy = (view.node = Queue)
         /\ list'[i].article \in Of(view.node) \cap Titles[view.query]
         /\ ~(view.unread /\ list'[i].read)]_<<list, row>>

\* When everything has arrived, each article in the list has the flags it has at
\* the server, unless it was kept because it is being read and is in no page
\* that was loaded, and no article is missing that is not still to be paged in:
\* optimistic changes, notifications and the reloads they cause make up for
\* everything, lost connections included, except for the lapses that came after
\* the last reload: among them a request that had failed here and that the server
\* handled only then.
ListAgreesUnlessMissed ==
  Quiet /\ ~lapses.missed /\ ~broken =>
    /\ \A i \in DOMAIN list :
         Id(list[i]) \in Ids(CachedWith(<<>>)) =>
           \A r \in Rows(view.node) : Id(r) = Id(list[i]) => r = list[i]
    /\ more \/ \A r \in Listed(view) : Id(r) \in Ids(list)

\* When everything has arrived, the count is that of the server, unless an older
\* answer was used after a newer one, a mark found nothing to change, a count
\* failed, or the server told nobody of a change.
CountAgreesUnlessWrong ==
  Quiet /\ ~lapses.wrong /\ ~broken => count = Unread

\* While the flag is up that makes the pane refuse every load, a page is on its
\* way that will take it down, unless the page failed after the view changed.
LoadingAccounted ==
  loading /\ ~lapses.stuck => Paging

\* A merge reads past the end of the list only if pages overlapped, so that the
\* cache has an article twice.
MergesDefinedUnlessOverlap == broken => lapses.overlap
=============================================================================
