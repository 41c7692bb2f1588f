---------------------------- MODULE ArticleStore ----------------------------
(***************************************************************************)
(* The articles of one user in the backend: tables articles and            *)
(* queued_articles (backend/src/sqlite_tree_repository.cpp), what fetches  *)
(* and the user's requests do to them, and what failures leave.            *)
(*                                                                         *)
(* A fetch, by a scheduler worker (feed_refresh_scheduler.cpp) or by a     *)
(* session on request (app_server.cpp), reads the feed's row and the feed, *)
(* then stores the articles, then applies the archive policy: two calls    *)
(* that each hold mutex_, and between them anything else may run, another  *)
(* fetch of the same feed included. Within a call every statement commits  *)
(* by itself, so a failure can come between two of them.                   *)
(*                                                                         *)
(* Of an article the model keeps which feed and guid it is for and whether *)
(* it was read. A queue copy goes by the id of its original: there is at   *)
(* most one.                                                               *)
(***************************************************************************)
EXTENDS Naturals, FiniteSets, Functions

CONSTANTS
  Feeds,      \* feeds of the user when the server starts
  Guids,
  Published,  \* published_at of each guid; 0 for none
  Ids,        \* bound: article ids that newUuid ever returns
  Fetchers,   \* scheduler workers and sessions that refresh a feed
  Modes,      \* the archive modes the user gives to feeds
  Defaults,   \* and those to use for feeds that have "default"
  Limit       \* archive_limit, but at least 1

ModeNames == {"default", "keep_all", "limit", "older_than", "disabled"}

ASSUME ConstantsOK ==
  /\ Published \in [Guids -> Nat]
  /\ Modes \subseteq ModeNames
  /\ Defaults \subseteq ModeNames \ {"default"}
  /\ Limit \in Nat \ {0}

VARIABLES
  feeds,     \* feeds with a row in tree_nodes
  mode,      \* archive_mode of each feed
  default,   \* default_archive_mode of the user
  articles,  \* table articles: a function on the ids that have a row
  queued,    \* table queued_articles: a function on original_article_id
  used,      \* ids newUuid has returned
  source,    \* for each feed, what its server did with each guid
  fetch,     \* what each fetcher is doing
  told,      \* history: see ReadStaysRead
  split      \* history: see CopiesAgreeUnlessSplit

tables   == <<feeds, articles, queued, used>>
settings == <<mode, default>>
history  == <<told, split>>
vars     == <<tables, settings, source, fetch, history>>

Row == [feed : Feeds, guid : Guids, read : BOOLEAN]

Idle == [stage |-> "idle"]
Fetch ==
  {Idle} \cup
  [stage : {"fetched", "stored"}, feed : Feeds, mode : ModeNames,
   guids : SUBSET Guids, mixed : BOOLEAN]

-----------------------------------------------------------------------------
Offered(f)   == {g \in Guids : source[f][g] = "offered"}
RowsOf(f)    == {id \in DOMAIN articles : articles[id].feed = f}
Busy(f)      == {w \in Fetchers : fetch[w] # Idle /\ fetch[w].feed = f}
Article(row) == <<row.feed, row.guid>>

\* UPDATE ... SET is_read = read, for the rows of ids.
Flagged(table, ids, read) ==
  [id \in DOMAIN table |->
     IF id \in ids THEN [table[id] EXCEPT !.read = read] ELSE table[id]]

\* The user reads an article that its feed offers.
Told(ids) ==
  told \cup {Article(articles[id]) :
               id \in {id \in DOMAIN articles : articles[id].guid \in Offered(articles[id].feed)} \cap ids}

Init ==
  /\ feeds = Feeds
  /\ mode = [f \in Feeds |-> "default"]
  /\ default = "keep_all"
  /\ articles = [id \in {} |-> Idle]
  /\ queued = [id \in {} |-> Idle]
  /\ used = {}
  /\ source = [f \in Feeds |-> [g \in Guids |-> "unpublished"]]
  /\ fetch = [w \in Fetchers |-> Idle]
  /\ told = {}
  /\ split = {}

-----------------------------------------------------------------------------
(* The feed's own server (external), and what else the user changes          *)

Publish(f, g) ==
  /\ source[f][g] = "unpublished"
  /\ source' = [source EXCEPT ![f][g] = "offered"]
  /\ UNCHANGED <<tables, settings, fetch, history>>

\* An item that a feed has dropped does not come back.
Retire(f, g) ==
  /\ source[f][g] = "offered"
  /\ source' = [source EXCEPT ![f][g] = "retired"]
  /\ told' = told \ {<<f, g>>}
  /\ UNCHANGED <<tables, settings, fetch, split>>

SetMode(f, m) ==
  /\ f \in feeds
  /\ mode' = [mode EXCEPT ![f] = m]
  /\ UNCHANGED <<tables, default, source, fetch, history>>

SetDefault(m) ==
  /\ default' = m
  /\ UNCHANGED <<tables, mode, source, fetch, history>>

\* The articles of a node go with it (ON DELETE CASCADE), queue copies stay.
DeleteFeed(f) ==
  /\ f \in feeds
  /\ feeds' = feeds \ {f}
  /\ articles' = Restrict(articles, DOMAIN articles \ RowsOf(f))
  /\ told' = {a \in told : a[1] # f}
  /\ split' = split \ RowsOf(f)
  /\ UNCHANGED <<queued, used, settings, source, fetch>>

-----------------------------------------------------------------------------
(* Fetches                                                                   *)

\* The feed's row, or the scheduler's copy of it, and what the feed offers.
BeginFetch(w, f) ==
  /\ fetch[w] = Idle
  /\ f \in feeds
  /\ fetch' = [v \in Fetchers |->
       IF v = w
         THEN [stage |-> "fetched", feed |-> f, mode |-> mode[f],
               guids |-> Offered(f), mixed |-> Busy(f) # {}]
         ELSE IF v \in Busy(f) THEN [fetch[v] EXCEPT !.mixed = TRUE] ELSE fetch[v]]
  /\ UNCHANGED <<tables, settings, source, history>>

\* upsertArticles: the guids that need a row. (Mutation: all do.)
MissingOrNot(f, guids) == guids

Missing(f, guids) == guids \ {articles[id].guid : id \in RowsOf(f)}

NewRows(f, new) ==
  [id \in Range(new) |->
     [feed |-> f, guid |-> CHOOSE g \in DOMAIN new : new[g] = id, read |-> FALSE]]

\* A guid that has a row keeps its id and its flag. (Mutation: DO UPDATE SET
\* covers is_read, too.)
StoredUnread(f, guids, new) ==
  LET old == {id \in RowsOf(f) : articles[id].guid \in guids}
      all == NewRows(f, new)
  IN [id \in DOMAIN articles \cup DOMAIN all |->
        IF id \in DOMAIN all THEN all[id]
        ELSE IF id \in old THEN [articles[id] EXCEPT !.read = FALSE] ELSE articles[id]]

Stored(f, guids, new) ==
  LET all == NewRows(f, new)
  IN [id \in DOMAIN articles \cup DOMAIN all |->
        IF id \in DOMAIN articles THEN articles[id] ELSE all[id]]

Upsert(f, guids) ==
  \E new \in [Missing(f, guids) -> Ids \ used] :
    /\ \A g, h \in DOMAIN new : new[g] = new[h] => g = h
    /\ articles' = Stored(f, guids, new)
    /\ used' = used \cup Range(new)

\* The call throws if the feed was deleted, which ends the fetch. The user's
\* default mode is read next.
StoreArticles(w) ==
  /\ fetch[w].stage = "fetched"
  /\ IF fetch[w].feed \in feeds
       THEN /\ Upsert(fetch[w].feed, fetch[w].guids)
            /\ fetch' = [fetch EXCEPT
                 ![w].stage = "stored",
                 ![w].mode = IF @ = "default" THEN default ELSE @]
       ELSE /\ fetch' = [fetch EXCEPT ![w] = Idle]
            /\ UNCHANGED <<articles, used>>
  /\ UNCHANGED <<feeds, queued, settings, source, history>>

\* The articles ORDER BY ... LIMIT keeps. Ids are random: ties fall either way.
Newest(rows) ==
  {kept \in SUBSET rows :
     /\ Cardinality(kept) = IF Cardinality(rows) < Limit THEN Cardinality(rows) ELSE Limit
     /\ \A i \in kept, j \in rows \ kept :
          Published[articles[i].guid] >= Published[articles[j].guid]}

\* applyArchivePolicy: the sets of rows it may delete. Which articles are too
\* old depends on the clock. (Mutation: queued articles are not spared.)
RemovableThoughQueued(f) == RowsOf(f)

Removable(f) == RowsOf(f) \ DOMAIN queued

Removals(f, m, guids) ==
  CASE m = "limit"      -> {Removable(f) \ kept : kept \in Newest(RowsOf(f))}
    [] m = "older_than" -> SUBSET {id \in Removable(f) : Published[articles[id].guid] # 0}
    [] m = "disabled"   -> {{id \in Removable(f) : articles[id].guid \notin guids}}
    [] OTHER            -> {{}}

ApplyArchivePolicy(w) ==
  LET me == fetch[w] IN
    /\ me.stage = "stored"
    /\ IF me.feed \in feeds
         THEN \E gone \in Removals(me.feed, me.mode, me.guids) :
                /\ articles' = Restrict(articles, DOMAIN articles \ gone)
                /\ told' = IF me.mixed \/ me.mode \in {"limit", "older_than"}
                             THEN told \ {Article(articles[id]) : id \in gone}
                             ELSE told
         ELSE UNCHANGED <<articles, told>>
    /\ fetch' = [fetch EXCEPT ![w] = Idle]
    /\ UNCHANGED <<feeds, queued, used, settings, source, split>>

-----------------------------------------------------------------------------
(* Requests                                                                  *)

\* markArticleRead, markArticleUnread, by the article or by its queue copy: both
\* get the flag.
MarkArticle(id, read) ==
  /\ articles' = Flagged(articles, {id}, read)
  /\ queued' = Flagged(queued, {id}, read)
  /\ told' = IF read THEN Told({id})
             ELSE told \ {Article(articles[i]) : i \in {id} \cap DOMAIN articles}
  /\ split' = split \ {id}
  /\ UNCHANGED <<feeds, used, settings, source, fetch>>

\* markAllArticlesRead of a feed, of the feeds below a folder, or of all.
MarkFeedsRead(some) ==
  LET ids == UNION {RowsOf(f) : f \in some} IN
    /\ some \subseteq feeds
    /\ articles' = Flagged(articles, ids, TRUE)
    /\ told' = Told(ids)
    /\ split' = split \cup (ids \cap DOMAIN queued)
    /\ UNCHANGED <<feeds, queued, used, settings, source, fetch>>

\* markAllArticlesRead of the queue.
MarkQueueRead ==
  /\ queued' = Flagged(queued, DOMAIN queued, TRUE)
  /\ articles' = Flagged(articles, DOMAIN queued, TRUE)
  /\ told' = Told(DOMAIN queued)
  /\ split' = split \ DOMAIN queued
  /\ UNCHANGED <<feeds, used, settings, source, fetch>>

\* An article that is queued already stays as it is. (Mutation: the copy starts
\* unread.)
UnreadCopy(id) == [articles[id] EXCEPT !.read = FALSE]

Copy(id) == articles[id]

QueueArticle(id) ==
  /\ id \in DOMAIN articles \ DOMAIN queued
  /\ queued' = [i \in DOMAIN queued \cup {id} |-> IF i = id THEN Copy(id) ELSE queued[i]]
  /\ UNCHANGED <<feeds, articles, used, settings, source, fetch, history>>

UnqueueArticle(id) ==
  /\ id \in DOMAIN queued
  /\ queued' = Restrict(queued, DOMAIN queued \ {id})
  /\ split' = split \ {id}
  /\ UNCHANGED <<feeds, articles, used, settings, source, fetch, told>>

-----------------------------------------------------------------------------
(* Failures: a statement is refused while the user store writes through its  *)
(* own connection (there is no busy timeout), a feed cannot be read, or the  *)
(* server crashes. A call that is one statement then changes nothing.        *)

FailFetch(w) ==
  /\ fetch[w] # Idle
  /\ fetch' = [fetch EXCEPT ![w] = Idle]
  /\ UNCHANGED <<tables, settings, source, history>>

\* Between two rows of upsertArticles.
FailWhileStoring(w) ==
  /\ fetch[w].stage = "fetched"
  /\ fetch[w].feed \in feeds
  /\ \E done \in SUBSET fetch[w].guids : Upsert(fetch[w].feed, done)
  /\ fetch' = [fetch EXCEPT ![w] = Idle]
  /\ UNCHANGED <<feeds, queued, settings, source, history>>

\* Between the two updates of markArticleRead or markArticleUnread. The user's
\* answer is an error or none, so the article counts as neither.
FailWhileMarking(id, read) ==
  /\ id \in DOMAIN articles \cap DOMAIN queued
  /\ \/ articles' = Flagged(articles, {id}, read) /\ UNCHANGED queued
     \/ queued' = Flagged(queued, {id}, read) /\ UNCHANGED articles
  /\ told' = told \ {Article(articles[id])}
  /\ split' = split \cup {id}
  /\ UNCHANGED <<feeds, used, settings, source, fetch>>

\* Between the two updates of markAllArticlesRead of the queue.
FailWhileMarkingQueue ==
  /\ queued' = Flagged(queued, DOMAIN queued, TRUE)
  /\ split' = DOMAIN queued
  /\ UNCHANGED <<feeds, articles, used, settings, source, fetch, told>>

Crash ==
  /\ fetch' = [w \in Fetchers |-> Idle]
  /\ UNCHANGED <<tables, settings, source, history>>

-----------------------------------------------------------------------------
Next ==
  \/ \E f \in Feeds :
       \/ \E g \in Guids : Publish(f, g) \/ Retire(f, g)
       \/ \E m \in Modes : SetMode(f, m)
       \/ DeleteFeed(f)
       \/ \E w \in Fetchers : BeginFetch(w, f)
  \/ \E m \in Defaults : SetDefault(m)
  \/ \E w \in Fetchers :
       StoreArticles(w) \/ ApplyArchivePolicy(w) \/ FailFetch(w) \/ FailWhileStoring(w)
  \/ \E some \in SUBSET Feeds : MarkFeedsRead(some)
  \/ MarkQueueRead \/ FailWhileMarkingQueue
  \/ \E id \in Ids :
       \/ \E read \in BOOLEAN : MarkArticle(id, read) \/ FailWhileMarking(id, read)
       \/ QueueArticle(id) \/ UnqueueArticle(id)
  \/ Crash

Spec == Init /\ [][Next]_vars
-----------------------------------------------------------------------------
(* Properties                                                                *)

\* The variables keep their types; a feed has one article for a guid, articles
\* have a feed, and ids are not used twice.
TypeOK ==
  /\ feeds \in SUBSET Feeds
  /\ mode \in [Feeds -> ModeNames]
  /\ default \in ModeNames \ {"default"}
  /\ used \in SUBSET Ids
  /\ DOMAIN articles \in SUBSET used
  /\ \A id \in DOMAIN articles : articles[id] \in Row /\ articles[id].feed \in feeds
  /\ \A i, j \in DOMAIN articles : Article(articles[i]) = Article(articles[j]) => i = j
  /\ DOMAIN queued \in SUBSET used
  /\ \A id \in DOMAIN queued : queued[id] \in Row
  /\ source \in [Feeds -> [Guids -> {"unpublished", "offered", "retired"}]]
  /\ fetch \in [Fetchers -> Fetch]
  /\ told \in SUBSET (Feeds \X Guids)
  /\ split \in SUBSET DOMAIN queued

\* An article that is in the queue stays in its feed as long as the feed does:
\* no fetch, policy or crash takes the original away from its copy, and it is
\* still the article the copy was made of.
QueuedOriginalsStay ==
  \A id \in DOMAIN queued :
    queued[id].feed \in feeds =>
      id \in DOMAIN articles /\ Article(articles[id]) = Article(queued[id])

\* An article that the user has read, and that its feed still offers, stays
\* there as read, through refreshes, changes of the policy, failed and cut off
\* fetches, unless a policy by number or age, or a fetch that overlapped another
\* one of the feed, removed it.
ReadStaysRead ==
  \A a \in told : \E id \in DOMAIN articles : Article(articles[id]) = a /\ articles[id].read

\* An article and its queue copy are read or unread together, unless the last to
\* mark either was a request for a whole feed or folder, or one that failed.
CopiesAgreeUnlessSplit ==
  \A id \in (DOMAIN articles \cap DOMAIN queued) \ split : articles[id].read = queued[id].read
=============================================================================
