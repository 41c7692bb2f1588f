------------------------- MODULE ArticleStoreProofs -------------------------
(***************************************************************************)
(* Proofs about ArticleStore, for any feeds, guids, ids, fetchers, modes   *)
(* and limit.                                                              *)
(***************************************************************************)
EXTENDS ArticleStore, TLAPS

-----------------------------------------------------------------------------
(* The statements                                                            *)

\* UPDATE of the flag leaves the rest of every row alone.
LEMMA FlaggedRows ==
  ASSUME NEW table, NEW ids, NEW read \in BOOLEAN,
         \A id \in DOMAIN table : table[id] \in Row
  PROVE  /\ DOMAIN Flagged(table, ids, read) = DOMAIN table
         /\ \A id \in DOMAIN table :
              /\ Flagged(table, ids, read)[id] \in Row
              /\ Article(Flagged(table, ids, read)[id]) = Article(table[id])
              /\ Flagged(table, ids, read)[id].feed = table[id].feed
              /\ Flagged(table, ids, read)[id].guid = table[id].guid
              /\ Flagged(table, ids, read)[id].read
                   = IF id \in ids THEN read ELSE table[id].read
  BY DEF Flagged, Row, Article

\* DELETE leaves the other rows alone.
LEMMA RestrictedRows ==
  ASSUME NEW table, NEW ids
  PROVE  /\ DOMAIN Restrict(table, ids) = ids
         /\ \A id \in ids : Restrict(table, ids)[id] = table[id]
  BY DEF Restrict

\* upsertArticles adds rows for guids that had none, under ids never used.
LEMMA UpsertRows ==
  ASSUME TypeOK, NEW f \in feeds, NEW guids \in SUBSET Guids, Upsert(f, guids)
  PROVE  /\ used \subseteq used' /\ used' \subseteq Ids
         /\ DOMAIN articles \subseteq DOMAIN articles'
         /\ DOMAIN articles' \subseteq used'
         /\ \A id \in DOMAIN articles : articles'[id] = articles[id]
         /\ \A id \in DOMAIN articles' \ DOMAIN articles :
              /\ id \notin used
              /\ articles'[id] \in Row
              /\ articles'[id].feed = f
              /\ articles'[id].guid \in Missing(f, guids)
         /\ \A i, j \in DOMAIN articles' \ DOMAIN articles :
              articles'[i].guid = articles'[j].guid => i = j
  <1>1. PICK new \in [Missing(f, guids) -> Ids \ used] :
          /\ \A g, h \in DOMAIN new : new[g] = new[h] => g = h
          /\ articles' = Stored(f, guids, new)
          /\ used' = used \cup Range(new)
    BY DEF Upsert
  <1> DEFINE all == NewRows(f, new)
             Of(id) == CHOOSE g \in DOMAIN new : new[g] = id
  <1>2. Range(new) \subseteq Ids \ used
    BY <1>1 DEF Range
  <1>3. DOMAIN all = Range(new)
    BY DEF NewRows
  <1>4. \A id \in Range(new) : Of(id) \in Missing(f, guids) /\ new[Of(id)] = id
    <2> TAKE id \in Range(new)
    <2>1. \E g \in DOMAIN new : new[g] = id
      BY DEF Range
    <2> QED BY <2>1, <1>1
  <1>5. \A id \in Range(new) : all[id] = [feed |-> f, guid |-> Of(id), read |-> FALSE]
    BY DEF NewRows
  <1>6. /\ DOMAIN articles' = DOMAIN articles \cup Range(new)
        /\ \A id \in DOMAIN articles : articles'[id] = articles[id]
        /\ \A id \in Range(new) : id \notin DOMAIN articles => articles'[id] = all[id]
    BY <1>1, <1>3 DEF Stored
  <1>7. Missing(f, guids) \subseteq Guids /\ f \in Feeds
    BY DEF Missing, TypeOK
  <1> HIDE DEF all, Of
  <1>8. DOMAIN articles \subseteq used /\ used \subseteq Ids
    BY DEF TypeOK
  <1>9. \A id \in DOMAIN articles' \ DOMAIN articles :
          /\ id \in Range(new)
          /\ articles'[id] = [feed |-> f, guid |-> Of(id), read |-> FALSE]
    BY <1>5, <1>6
  <1>10. \A id \in DOMAIN articles' \ DOMAIN articles :
           /\ id \notin used
           /\ articles'[id] \in Row
           /\ articles'[id].feed = f
           /\ articles'[id].guid \in Missing(f, guids)
    <2> TAKE id \in DOMAIN articles' \ DOMAIN articles
    <2>1. id \in Range(new) /\ articles'[id] = [feed |-> f, guid |-> Of(id), read |-> FALSE]
      BY <1>9
    <2>2. Of(id) \in Missing(f, guids)
      BY <1>4, <2>1
    <2>3. id \notin used
      BY <1>2, <2>1
    <2> QED BY <1>7, <2>1, <2>2, <2>3 DEF Row
  <1>11. \A i, j \in DOMAIN articles' \ DOMAIN articles :
           articles'[i].guid = articles'[j].guid => i = j
    BY <1>4, <1>9
  <1>12. /\ used \subseteq used' /\ used' \subseteq Ids
         /\ DOMAIN articles' \subseteq used'
    BY <1>1, <1>2, <1>6, <1>8
  <1> QED BY <1>6, <1>10, <1>11, <1>12

\* applyArchivePolicy spares queued articles and, when it keeps only what was
\* fetched, what was fetched.
LEMMA RemovedRows ==
  ASSUME NEW f, NEW m, NEW guids, NEW gone \in Removals(f, m, guids)
  PROVE  /\ gone \subseteq RowsOf(f) \ DOMAIN queued
         /\ m \notin {"limit", "older_than"} =>
              \A id \in gone : articles[id].guid \notin guids
  <1>1. CASE m = "limit"
    BY <1>1 DEF Removals, Removable
  <1>2. CASE m = "older_than"
    BY <1>2 DEF Removals, Removable
  <1>3. CASE m = "disabled"
    BY <1>3 DEF Removals, Removable
  <1>4. CASE m \notin {"limit", "older_than", "disabled"}
    BY <1>4 DEF Removals
  <1> QED BY <1>1, <1>2, <1>3, <1>4

-----------------------------------------------------------------------------
(* Types                                                                     *)

LEMMA FetchTyped ==
  ASSUME TypeOK, NEW w \in Fetchers, fetch[w] # Idle
  PROVE  fetch[w] \in [stage : {"fetched", "stored"}, feed : Feeds, mode : ModeNames,
                       guids : SUBSET Guids, mixed : BOOLEAN]
  BY DEF TypeOK, Fetch

\* Same rows, perhaps with other flags, or fewer.
LEMMA FewerRows ==
  ASSUME TypeOK, NEW table,
         DOMAIN table \subseteq DOMAIN articles,
         \A id \in DOMAIN table :
           /\ table[id] \in Row
           /\ table[id].feed = articles[id].feed
           /\ Article(table[id]) = Article(articles[id])
  PROVE  /\ DOMAIN table \in SUBSET used
         /\ \A id \in DOMAIN table : table[id] \in Row /\ table[id].feed \in feeds
         /\ \A i, j \in DOMAIN table : Article(table[i]) = Article(table[j]) => i = j
  BY DEF TypeOK

LEMMA FlaggedTyped ==
  ASSUME TypeOK, NEW ids, NEW read \in BOOLEAN, NEW table, table = Flagged(articles, ids, read)
  PROVE  /\ DOMAIN table = DOMAIN articles
         /\ DOMAIN table \in SUBSET used
         /\ \A id \in DOMAIN table : table[id] \in Row /\ table[id].feed \in feeds
         /\ \A i, j \in DOMAIN table : Article(table[i]) = Article(table[j]) => i = j
  <1>1. \A id \in DOMAIN articles : articles[id] \in Row
    BY DEF TypeOK
  <1>2. /\ DOMAIN table = DOMAIN articles
        /\ \A id \in DOMAIN articles :
             /\ table[id] \in Row
             /\ table[id].feed = articles[id].feed
             /\ Article(table[id]) = Article(articles[id])
    BY <1>1, FlaggedRows
  <1> QED BY <1>2, FewerRows

LEMMA FlaggedCopies ==
  ASSUME TypeOK, NEW ids, NEW read \in BOOLEAN, NEW table, table = Flagged(queued, ids, read)
  PROVE  DOMAIN table = DOMAIN queued /\ \A id \in DOMAIN table : table[id] \in Row
  <1>1. \A id \in DOMAIN queued : queued[id] \in Row
    BY DEF TypeOK
  <1> QED BY <1>1, FlaggedRows

LEMMA UpsertTyped ==
  ASSUME TypeOK, NEW f \in feeds, NEW guids \in SUBSET Guids, Upsert(f, guids)
  PROVE  /\ used' \in SUBSET Ids
         /\ DOMAIN articles' \in SUBSET used'
         /\ \A id \in DOMAIN articles' : articles'[id] \in Row /\ articles'[id].feed \in feeds
         /\ \A i, j \in DOMAIN articles' :
              Article(articles'[i]) = Article(articles'[j]) => i = j
         /\ DOMAIN queued \in SUBSET used'
  <1>1. /\ used' \in SUBSET Ids
        /\ DOMAIN articles' \in SUBSET used'
        /\ DOMAIN queued \in SUBSET used'
    BY UpsertRows DEF TypeOK
  <1>2. \A id \in DOMAIN articles' : articles'[id] \in Row /\ articles'[id].feed \in feeds
    BY UpsertRows DEF TypeOK
  <1>3. ASSUME NEW i \in DOMAIN articles', NEW j \in DOMAIN articles',
               Article(articles'[i]) = Article(articles'[j])
        PROVE  i = j
    <2>1. articles'[i].feed = articles'[j].feed /\ articles'[i].guid = articles'[j].guid
      BY <1>3 DEF Article
    <2>2. CASE i \in DOMAIN articles /\ j \in DOMAIN articles
      BY <1>3, <2>2, UpsertRows DEF TypeOK
    <2>3. CASE i \notin DOMAIN articles /\ j \notin DOMAIN articles
      BY <2>1, <2>3, UpsertRows
    <2>4. ASSUME NEW k \in DOMAIN articles, NEW n \in DOMAIN articles' \ DOMAIN articles
          PROVE  ~(articles'[k].feed = articles'[n].feed /\ articles'[k].guid = articles'[n].guid)
      <3>1. articles'[k] = articles[k] /\ articles'[n].feed = f
            /\ articles'[n].guid \in Missing(f, guids)
        BY UpsertRows
      <3> QED BY <3>1 DEF Missing, RowsOf
    <2> QED BY <2>1, <2>2, <2>3, <2>4
  <1> QED BY <1>1, <1>2, <1>3

LEMMA TypeInductive == TypeOK /\ [Next]_vars => TypeOK'
  <1> SUFFICES ASSUME TypeOK, [Next]_vars PROVE TypeOK'
    OBVIOUS
  <1> USE DEF tables, settings, history
  <1>1. ASSUME NEW f \in Feeds, NEW g \in Guids, Publish(f, g) PROVE TypeOK'
    BY <1>1 DEF Publish, TypeOK
  <1>2. ASSUME NEW f \in Feeds, NEW g \in Guids, Retire(f, g) PROVE TypeOK'
    BY <1>2 DEF Retire, TypeOK
  <1>3. ASSUME NEW f \in Feeds, NEW m \in Modes, SetMode(f, m) PROVE TypeOK'
    BY <1>3, ConstantsOK DEF SetMode, TypeOK
  <1>4. ASSUME NEW m \in Defaults, SetDefault(m) PROVE TypeOK'
    BY <1>4, ConstantsOK DEF SetDefault, TypeOK
  <1>5. ASSUME NEW f \in Feeds, DeleteFeed(f) PROVE TypeOK'
    <2>1. /\ DOMAIN articles' = DOMAIN articles \ RowsOf(f)
          /\ \A id \in DOMAIN articles' : articles'[id] = articles[id]
      BY <1>5, RestrictedRows DEF DeleteFeed
    <2>2. \A id \in DOMAIN articles' : articles'[id] \in Row /\ articles'[id].feed \in feeds'
      BY <1>5, <2>1 DEF DeleteFeed, TypeOK, RowsOf
    <2> QED BY <1>5, <2>1, <2>2, FewerRows DEF DeleteFeed, TypeOK
  <1>6. ASSUME NEW w \in Fetchers, NEW f \in Feeds, BeginFetch(w, f) PROVE TypeOK'
    <2>1. ASSUME NEW v \in Fetchers PROVE fetch'[v] \in Fetch
      <3>1. CASE v = w
        <4>1. fetch'[w] = [stage |-> "fetched", feed |-> f, mode |-> mode[f],
                           guids |-> Offered(f), mixed |-> Busy(f) # {}]
          BY <1>6 DEF BeginFetch
        <4>2. mode[f] \in ModeNames /\ Offered(f) \in SUBSET Guids /\ (Busy(f) # {}) \in BOOLEAN
          BY DEF TypeOK, Offered
        <4> QED BY <3>1, <4>1, <4>2 DEF Fetch
      <3>2. CASE v # w /\ v \in Busy(f)
        <4>1. fetch[v] # Idle /\ fetch'[v] = [fetch[v] EXCEPT !.mixed = TRUE]
          BY <1>6, <3>2 DEF BeginFetch, Busy
        <4> QED BY <4>1, FetchTyped DEF Fetch
      <3>3. CASE v # w /\ v \notin Busy(f)
        BY <1>6, <3>3 DEF BeginFetch, TypeOK
      <3> QED BY <3>1, <3>2, <3>3
    <2>2. fetch' \in [Fetchers -> Fetch]
      BY <1>6, <2>1 DEF BeginFetch
    <2> QED BY <1>6, <2>2 DEF BeginFetch, TypeOK
  <1>7. ASSUME NEW w \in Fetchers, StoreArticles(w) PROVE TypeOK'
    <2>1. fetch[w] # Idle
      BY <1>7 DEF StoreArticles, Idle
    <2>2. CASE fetch[w].feed \in feeds
      <3>1. Upsert(fetch[w].feed, fetch[w].guids) /\ fetch[w].guids \in SUBSET Guids
        BY <1>7, <2>1, <2>2, FetchTyped DEF StoreArticles
      <3>2. fetch' \in [Fetchers -> Fetch]
        <4>1. fetch' = [fetch EXCEPT ![w].stage = "stored",
                                     ![w].mode = IF @ = "default" THEN default ELSE @]
          BY <1>7, <2>2 DEF StoreArticles
        <4>2. default \in ModeNames
          BY DEF TypeOK
        <4>3. ASSUME NEW v \in Fetchers PROVE fetch'[v] \in Fetch
          BY <2>1, <4>1, <4>2, FetchTyped DEF TypeOK, Fetch
        <4>4. DOMAIN fetch' = Fetchers /\ fetch' = [v \in Fetchers |-> fetch'[v]]
          BY <4>1 DEF TypeOK
        <4> QED BY <4>3, <4>4
      <3>3. UNCHANGED <<feeds, queued, settings, source, history>>
        BY <1>7 DEF StoreArticles
      <3> QED BY <2>2, <3>1, <3>2, <3>3, UpsertTyped DEF TypeOK
    <2>3. CASE fetch[w].feed \notin feeds
      BY <1>7, <2>3 DEF StoreArticles, TypeOK, Fetch
    <2> QED BY <2>2, <2>3
  <1>8. ASSUME NEW w \in Fetchers, ApplyArchivePolicy(w) PROVE TypeOK'
    <2>1. /\ fetch' \in [Fetchers -> Fetch]
          /\ UNCHANGED <<feeds, queued, used, settings, source, split>>
      BY <1>8 DEF ApplyArchivePolicy, TypeOK, Fetch
    <2>2. CASE fetch[w].feed \in feeds
      <3>1. PICK gone : articles' = Restrict(articles, DOMAIN articles \ gone)
                        /\ told' \subseteq told
        BY <1>8, <2>2 DEF ApplyArchivePolicy
      <3>2. /\ DOMAIN articles' \subseteq DOMAIN articles
            /\ \A id \in DOMAIN articles' : articles'[id] = articles[id]
        BY <3>1, RestrictedRows
      <3>3. \A id \in DOMAIN articles' : articles'[id] \in Row
        BY <3>2 DEF TypeOK
      <3> QED BY <2>1, <3>1, <3>2, <3>3, FewerRows DEF TypeOK
    <2>3. CASE fetch[w].feed \notin feeds
      BY <1>8, <2>1, <2>3 DEF ApplyArchivePolicy, TypeOK
    <2> QED BY <2>2, <2>3
  <1>9. ASSUME NEW ids PROVE Told(ids) \subseteq Feeds \X Guids
    BY DEF Told, TypeOK, Article, Row
  <1>10. ASSUME NEW id \in Ids, NEW read \in BOOLEAN, MarkArticle(id, read) PROVE TypeOK'
    <2>1. told' \subseteq Feeds \X Guids
      BY <1>9, <1>10 DEF MarkArticle, TypeOK
    <2>2. /\ articles' = Flagged(articles, {id}, read)
          /\ queued' = Flagged(queued, {id}, read)
          /\ split' = split \ {id}
          /\ UNCHANGED <<feeds, used, settings, source, fetch>>
      BY <1>10 DEF MarkArticle
    <2>3. /\ DOMAIN articles' \in SUBSET used
          /\ \A i \in DOMAIN articles' : articles'[i] \in Row /\ articles'[i].feed \in feeds
          /\ \A i, j \in DOMAIN articles' :
               Article(articles'[i]) = Article(articles'[j]) => i = j
      BY <2>2, FlaggedTyped
    <2>4. DOMAIN queued' = DOMAIN queued /\ \A i \in DOMAIN queued' : queued'[i] \in Row
      BY <2>2, FlaggedCopies
    <2> QED BY <2>1, <2>2, <2>3, <2>4 DEF TypeOK
  <1>11. ASSUME NEW some \in SUBSET Feeds, MarkFeedsRead(some) PROVE TypeOK'
    <2>1. PICK ids : articles' = Flagged(articles, ids, TRUE)
      BY <1>11 DEF MarkFeedsRead
    <2>2. /\ told' \subseteq Feeds \X Guids /\ split' \subseteq DOMAIN queued
          /\ UNCHANGED <<feeds, queued, used, settings, source, fetch>>
      BY <1>9, <1>11 DEF MarkFeedsRead, TypeOK
    <2> QED BY <2>1, <2>2, FlaggedTyped DEF TypeOK
  <1>12. CASE MarkQueueRead
    <2>1. /\ articles' = Flagged(articles, DOMAIN queued, TRUE)
          /\ queued' = Flagged(queued, DOMAIN queued, TRUE)
          /\ told' \subseteq Feeds \X Guids /\ split' = split \ DOMAIN queued
          /\ UNCHANGED <<feeds, used, settings, source, fetch>>
      BY <1>9, <1>12 DEF MarkQueueRead
    <2>2. DOMAIN queued' = DOMAIN queued /\ \A i \in DOMAIN queued' : queued'[i] \in Row
      BY <2>1, FlaggedCopies
    <2> QED BY <2>1, <2>2, FlaggedTyped DEF TypeOK
  <1>13. ASSUME NEW id \in Ids, QueueArticle(id) PROVE TypeOK'
    BY <1>13 DEF QueueArticle, Copy, TypeOK
  <1>14. ASSUME NEW id \in Ids, UnqueueArticle(id) PROVE TypeOK'
    <2>1. /\ DOMAIN queued' = DOMAIN queued \ {id}
          /\ \A i \in DOMAIN queued' : queued'[i] = queued[i]
      BY <1>14, RestrictedRows DEF UnqueueArticle
    <2> QED BY <1>14, <2>1 DEF UnqueueArticle, TypeOK
  <1>15. ASSUME NEW w \in Fetchers, FailFetch(w) PROVE TypeOK'
    BY <1>15 DEF FailFetch, TypeOK, Fetch
  <1>16. ASSUME NEW w \in Fetchers, FailWhileStoring(w) PROVE TypeOK'
    <2>1. fetch[w] # Idle
      BY <1>16 DEF FailWhileStoring, Idle
    <2>2. PICK done \in SUBSET Guids : Upsert(fetch[w].feed, done)
      BY <1>16, <2>1, FetchTyped DEF FailWhileStoring
    <2>3. /\ fetch[w].feed \in feeds
          /\ fetch' \in [Fetchers -> Fetch]
          /\ UNCHANGED <<feeds, queued, settings, source, history>>
      BY <1>16 DEF FailWhileStoring, TypeOK, Fetch
    <2> QED BY <2>2, <2>3, UpsertTyped DEF TypeOK
  <1>17. ASSUME NEW id \in Ids, NEW read \in BOOLEAN, FailWhileMarking(id, read) PROVE TypeOK'
    <2>1. /\ DOMAIN articles' = DOMAIN articles /\ DOMAIN queued' = DOMAIN queued
          /\ \A i \in DOMAIN articles :
               /\ articles'[i] \in Row
               /\ articles'[i].feed = articles[i].feed
               /\ Article(articles'[i]) = Article(articles[i])
          /\ \A i \in DOMAIN queued : queued'[i] \in Row
      BY <1>17, FlaggedRows DEF FailWhileMarking, TypeOK
    <2> QED BY <1>17, <2>1, FewerRows DEF FailWhileMarking, TypeOK
  <1>18. CASE Crash
    BY <1>18 DEF Crash, TypeOK, Fetch
  <1>20. CASE FailWhileMarkingQueue
    <2>1. /\ queued' = Flagged(queued, DOMAIN queued, TRUE) /\ split' = DOMAIN queued
          /\ UNCHANGED <<feeds, articles, used, settings, source, fetch, told>>
      BY <1>20 DEF FailWhileMarkingQueue
    <2>2. DOMAIN queued' = DOMAIN queued /\ \A i \in DOMAIN queued' : queued'[i] \in Row
      BY <2>1, FlaggedCopies
    <2> QED BY <2>1, <2>2 DEF TypeOK
  <1>19. CASE UNCHANGED vars
    BY <1>19 DEF vars, TypeOK
  <1> QED
    BY <1>1, <1>2, <1>3, <1>4, <1>5, <1>6, <1>7, <1>8, <1>10, <1>11, <1>12, <1>13,
       <1>14, <1>15, <1>16, <1>17, <1>18, <1>19, <1>20 DEF Next

\* The variables of ArticleStore keep their types: one article for a guid of a
\* feed, no article without its feed, no id used twice.
THEOREM TypeCorrect == Spec => []TypeOK
  <1>1. Init => TypeOK
    BY ConstantsOK DEF Init, TypeOK, ModeNames, Fetch
  <1> QED BY <1>1, TypeInductive, PTL DEF Spec

-----------------------------------------------------------------------------
(* The queue                                                                 *)

\* Flags may change, rows that are not queued may go, and rows may come under ids
\* that the queue does not have.
LEMMA QueueInductive ==
  TypeOK /\ QueuedOriginalsStay /\ [Next]_vars => QueuedOriginalsStay'
  <1> SUFFICES ASSUME TypeOK, QueuedOriginalsStay, [Next]_vars PROVE QueuedOriginalsStay'
    OBVIOUS
  <1> USE DEF tables, settings, history
  <1>0. /\ \A id \in DOMAIN articles : articles[id] \in Row
        /\ \A id \in DOMAIN queued : queued[id] \in Row
    BY DEF TypeOK
  <1>1. CASE UNCHANGED <<feeds, articles, queued>>
    BY <1>1 DEF QueuedOriginalsStay, Article
  <1>2. ASSUME NEW f \in Feeds, DeleteFeed(f) PROVE QueuedOriginalsStay'
    <2>1. /\ DOMAIN articles' = DOMAIN articles \ RowsOf(f)
          /\ \A id \in DOMAIN articles' : articles'[id] = articles[id]
          /\ feeds' = feeds \ {f} /\ queued' = queued
      BY <1>2, RestrictedRows DEF DeleteFeed
    <2> QED BY <2>1 DEF QueuedOriginalsStay, RowsOf, Article
  <1>3. ASSUME NEW f \in feeds, NEW guids \in SUBSET Guids, Upsert(f, guids),
               UNCHANGED <<feeds, queued>>
        PROVE  QueuedOriginalsStay'
    BY <1>3, UpsertRows DEF QueuedOriginalsStay, Article
  <1>4. ASSUME NEW w \in Fetchers, StoreArticles(w) PROVE QueuedOriginalsStay'
    <2>1. fetch[w] # Idle
      BY <1>4 DEF StoreArticles, Idle
    <2> QED BY <1>1, <1>3, <1>4, <2>1, FetchTyped DEF StoreArticles
  <1>5. ASSUME NEW w \in Fetchers, FailWhileStoring(w) PROVE QueuedOriginalsStay'
    <2>1. fetch[w] # Idle
      BY <1>5 DEF FailWhileStoring, Idle
    <2> QED BY <1>3, <1>5, <2>1, FetchTyped DEF FailWhileStoring
  <1>6. ASSUME NEW w \in Fetchers, ApplyArchivePolicy(w) PROVE QueuedOriginalsStay'
    <2>1. UNCHANGED <<feeds, queued>>
      BY <1>6 DEF ApplyArchivePolicy
    <2>2. CASE fetch[w].feed \in feeds
      <3>1. PICK gone \in Removals(fetch[w].feed, fetch[w].mode, fetch[w].guids) :
              articles' = Restrict(articles, DOMAIN articles \ gone)
        BY <1>6, <2>2 DEF ApplyArchivePolicy
      <3>2. gone \cap DOMAIN queued = {}
        BY RemovedRows
      <3>3. /\ DOMAIN articles' = DOMAIN articles \ gone
            /\ \A id \in DOMAIN articles' : articles'[id] = articles[id]
        BY <3>1, RestrictedRows
      <3> QED BY <2>1, <3>2, <3>3 DEF QueuedOriginalsStay, Article
    <2> QED BY <1>1, <1>6, <2>1, <2>2 DEF ApplyArchivePolicy
  <1>7. ASSUME NEW someIds, NEW otherIds, NEW read \in BOOLEAN,
               \/ articles' = Flagged(articles, someIds, read)
               \/ articles' = articles,
               \/ queued' = Flagged(queued, otherIds, read)
               \/ queued' = queued,
               feeds' = feeds
        PROVE  QueuedOriginalsStay'
    <2>1. DOMAIN articles' = DOMAIN articles /\
          \A id \in DOMAIN articles : Article(articles'[id]) = Article(articles[id])
      BY <1>0, <1>7, FlaggedRows
    <2>2. DOMAIN queued' = DOMAIN queued /\
          \A id \in DOMAIN queued : /\ Article(queued'[id]) = Article(queued[id])
                                   /\ queued'[id].feed = queued[id].feed
      BY <1>0, <1>7, FlaggedRows
    <2> QED BY <1>7, <2>1, <2>2 DEF QueuedOriginalsStay
  <1>8. ASSUME NEW id \in Ids, NEW read \in BOOLEAN, MarkArticle(id, read)
        PROVE  QueuedOriginalsStay'
    BY <1>7, <1>8 DEF MarkArticle
  <1>9. ASSUME NEW some \in SUBSET Feeds, MarkFeedsRead(some) PROVE QueuedOriginalsStay'
    BY <1>7, <1>9 DEF MarkFeedsRead
  <1>10. CASE MarkQueueRead
    BY <1>7, <1>10 DEF MarkQueueRead
  <1>20. CASE FailWhileMarkingQueue
    BY <1>7, <1>20 DEF FailWhileMarkingQueue
  <1>11. ASSUME NEW id \in Ids, NEW read \in BOOLEAN, FailWhileMarking(id, read)
         PROVE  QueuedOriginalsStay'
    BY <1>7, <1>11 DEF FailWhileMarking
  <1>12. ASSUME NEW id \in Ids, QueueArticle(id) PROVE QueuedOriginalsStay'
    BY <1>12 DEF QueueArticle, Copy, QueuedOriginalsStay, Article
  <1>13. ASSUME NEW id \in Ids, UnqueueArticle(id) PROVE QueuedOriginalsStay'
    BY <1>13, RestrictedRows DEF UnqueueArticle, QueuedOriginalsStay, Article
  <1>14. ASSUME NEW f \in Feeds, NEW g \in Guids, Publish(f, g) \/ Retire(f, g)
         PROVE  QueuedOriginalsStay'
    BY <1>1, <1>14 DEF Publish, Retire
  <1>15. ASSUME NEW f \in Feeds, NEW m \in Modes, SetMode(f, m) PROVE QueuedOriginalsStay'
    BY <1>1, <1>15 DEF SetMode
  <1>16. ASSUME NEW m \in Defaults, SetDefault(m) PROVE QueuedOriginalsStay'
    BY <1>1, <1>16 DEF SetDefault
  <1>17. ASSUME NEW w \in Fetchers, NEW f \in Feeds, BeginFetch(w, f)
         PROVE  QueuedOriginalsStay'
    BY <1>1, <1>17 DEF BeginFetch
  <1>18. ASSUME NEW w \in Fetchers, FailFetch(w) PROVE QueuedOriginalsStay'
    BY <1>1, <1>18 DEF FailFetch
  <1>19. CASE Crash \/ UNCHANGED vars
    BY <1>1, <1>19 DEF Crash, vars
  <1> QED
    BY <1>2, <1>4, <1>5, <1>6, <1>8, <1>9, <1>10, <1>11, <1>12, <1>13, <1>14, <1>15,
       <1>16, <1>17, <1>18, <1>19, <1>20 DEF Next

\* No fetch, policy or failure takes the original away from a queued article.
THEOREM QueuedStay == Spec => []QueuedOriginalsStay
  <1>1. Init => QueuedOriginalsStay
    BY DEF Init, QueuedOriginalsStay
  <1> QED BY <1>1, TypeCorrect, QueueInductive, PTL DEF Spec

-----------------------------------------------------------------------------
(* An article and its copy                                                   *)

LEMMA CopiesInductive ==
  TypeOK /\ CopiesAgreeUnlessSplit /\ [Next]_vars => CopiesAgreeUnlessSplit'
  <1> SUFFICES ASSUME TypeOK, CopiesAgreeUnlessSplit, [Next]_vars
               PROVE  CopiesAgreeUnlessSplit'
    OBVIOUS
  <1> USE DEF tables, settings, history
  <1>0. /\ \A id \in DOMAIN articles : articles[id] \in Row
        /\ \A id \in DOMAIN queued : queued[id] \in Row
        /\ DOMAIN queued \subseteq used
    BY DEF TypeOK
  <1>1. CASE UNCHANGED <<articles, queued, split>>
    BY <1>1 DEF CopiesAgreeUnlessSplit
  <1>2. ASSUME NEW gone,
               articles' = Restrict(articles, DOMAIN articles \ gone),
               queued' = queued, split \ gone \subseteq split'
        PROVE  CopiesAgreeUnlessSplit'
    BY <1>2, RestrictedRows DEF CopiesAgreeUnlessSplit
  <1>3. ASSUME NEW f \in feeds, NEW guids \in SUBSET Guids, Upsert(f, guids),
               UNCHANGED <<queued, split>>
        PROVE  CopiesAgreeUnlessSplit'
    BY <1>0, <1>3, UpsertRows DEF CopiesAgreeUnlessSplit
  <1>4. ASSUME NEW f \in Feeds, DeleteFeed(f) PROVE CopiesAgreeUnlessSplit'
    BY <1>2, <1>4 DEF DeleteFeed
  <1>5. ASSUME NEW w \in Fetchers, StoreArticles(w) PROVE CopiesAgreeUnlessSplit'
    <2>1. fetch[w] # Idle
      BY <1>5 DEF StoreArticles, Idle
    <2> QED BY <1>1, <1>3, <1>5, <2>1, FetchTyped DEF StoreArticles
  <1>6. ASSUME NEW w \in Fetchers, FailWhileStoring(w) PROVE CopiesAgreeUnlessSplit'
    <2>1. fetch[w] # Idle
      BY <1>6 DEF FailWhileStoring, Idle
    <2> QED BY <1>3, <1>6, <2>1, FetchTyped DEF FailWhileStoring
  <1>7. ASSUME NEW w \in Fetchers, ApplyArchivePolicy(w) PROVE CopiesAgreeUnlessSplit'
    BY <1>1, <1>2, <1>7 DEF ApplyArchivePolicy
  <1>8. ASSUME NEW id \in Ids, NEW read \in BOOLEAN, MarkArticle(id, read)
        PROVE  CopiesAgreeUnlessSplit'
    <2>1. /\ articles' = Flagged(articles, {id}, read)
          /\ queued' = Flagged(queued, {id}, read)
          /\ split' = split \ {id}
      BY <1>8 DEF MarkArticle
    <2> QED BY <1>0, <2>1, FlaggedRows DEF CopiesAgreeUnlessSplit
  <1>9. ASSUME NEW some \in SUBSET Feeds, MarkFeedsRead(some) PROVE CopiesAgreeUnlessSplit'
    <2>1. PICK ids : /\ articles' = Flagged(articles, ids, TRUE)
                     /\ queued' = queued
                     /\ split' = split \cup (ids \cap DOMAIN queued)
      BY <1>9 DEF MarkFeedsRead
    <2>2. /\ DOMAIN articles' = DOMAIN articles
          /\ \A id \in DOMAIN articles \ ids : articles'[id] = articles[id]
      BY <2>1 DEF Flagged
    <2> QED BY <2>1, <2>2 DEF CopiesAgreeUnlessSplit
  <1>10. CASE MarkQueueRead
    <2>1. /\ articles' = Flagged(articles, DOMAIN queued, TRUE)
          /\ queued' = Flagged(queued, DOMAIN queued, TRUE)
      BY <1>10 DEF MarkQueueRead
    <2>2. /\ DOMAIN articles' = DOMAIN articles
          /\ \A id \in DOMAIN articles \cap DOMAIN queued : articles'[id].read = TRUE
      BY <1>0, <2>1, FlaggedRows
    <2>3. /\ DOMAIN queued' = DOMAIN queued
          /\ \A id \in DOMAIN queued : queued'[id].read = TRUE
      BY <1>0, <2>1, FlaggedRows
    <2> QED BY <2>2, <2>3 DEF CopiesAgreeUnlessSplit
  <1>20. CASE FailWhileMarkingQueue
    <2>1. DOMAIN queued' = DOMAIN queued /\ split' = DOMAIN queued
      BY <1>20 DEF FailWhileMarkingQueue, Flagged
    <2> QED BY <2>1 DEF CopiesAgreeUnlessSplit
  <1>11. ASSUME NEW id \in Ids, NEW read \in BOOLEAN, FailWhileMarking(id, read)
         PROVE  CopiesAgreeUnlessSplit'
    BY <1>0, <1>11, FlaggedRows DEF FailWhileMarking, CopiesAgreeUnlessSplit
  <1>12. ASSUME NEW id \in Ids, QueueArticle(id) PROVE CopiesAgreeUnlessSplit'
    BY <1>12 DEF QueueArticle, Copy, CopiesAgreeUnlessSplit
  <1>13. ASSUME NEW id \in Ids, UnqueueArticle(id) PROVE CopiesAgreeUnlessSplit'
    BY <1>13, RestrictedRows DEF UnqueueArticle, CopiesAgreeUnlessSplit
  <1>14. ASSUME NEW f \in Feeds, NEW g \in Guids, Publish(f, g) \/ Retire(f, g)
         PROVE  CopiesAgreeUnlessSplit'
    BY <1>1, <1>14 DEF Publish, Retire
  <1>15. ASSUME NEW f \in Feeds, NEW m \in Modes, SetMode(f, m) PROVE CopiesAgreeUnlessSplit'
    BY <1>1, <1>15 DEF SetMode
  <1>16. ASSUME NEW m \in Defaults, SetDefault(m) PROVE CopiesAgreeUnlessSplit'
    BY <1>1, <1>16 DEF SetDefault
  <1>17. ASSUME NEW w \in Fetchers, NEW f \in Feeds, BeginFetch(w, f)
         PROVE  CopiesAgreeUnlessSplit'
    BY <1>1, <1>17 DEF BeginFetch
  <1>18. ASSUME NEW w \in Fetchers, FailFetch(w) PROVE CopiesAgreeUnlessSplit'
    BY <1>1, <1>18 DEF FailFetch
  <1>19. CASE Crash \/ UNCHANGED vars
    BY <1>1, <1>19 DEF Crash, vars
  <1> QED
    BY <1>4, <1>5, <1>6, <1>7, <1>8, <1>9, <1>10, <1>11, <1>12, <1>13, <1>14, <1>15,
       <1>16, <1>17, <1>18, <1>19, <1>20 DEF Next

\* An article and its queue copy are read or unread together, unless a request for
\* a whole feed, or one that failed, set them apart.
THEOREM CopiesStayTogether == Spec => []CopiesAgreeUnlessSplit
  <1>1. Init => CopiesAgreeUnlessSplit
    BY DEF Init, CopiesAgreeUnlessSplit
  <1> QED BY <1>1, TypeCorrect, CopiesInductive, PTL DEF Spec

-----------------------------------------------------------------------------
(* What was read stays read                                                  *)

\* What makes ReadStaysRead inductive. A guid that has a row, or that a fetch
\* carries, was published. Of two fetches of a feed each knows of the other. So a
\* fetch that overlapped none carries every offered guid that has a row: it was
\* offered when the fetch began, or the fetch itself has brought the row. And
\* what was told is offered.
Carried ==
  /\ \A id \in DOMAIN articles :
       source[articles[id].feed][articles[id].guid] # "unpublished"
  /\ \A w \in Fetchers : fetch[w] # Idle =>
       \A g \in fetch[w].guids : source[fetch[w].feed][g] # "unpublished"
  /\ \A v, w \in Fetchers :
       v # w /\ fetch[v] # Idle /\ fetch[w] # Idle /\ fetch[v].feed = fetch[w].feed
         => fetch[v].mixed
  /\ \A w \in Fetchers : fetch[w] # Idle /\ ~fetch[w].mixed =>
       \A id \in RowsOf(fetch[w].feed) :
         source[fetch[w].feed][articles[id].guid] = "offered"
           => articles[id].guid \in fetch[w].guids

TellsOffered == \A a \in told : a[1] \in feeds /\ source[a[1]][a[2]] = "offered"

\* A step that lets a fetch go on or end, and articles change flags or go.
LEMMA CarriedOn ==
  ASSUME TypeOK, Carried,
         DOMAIN articles' \subseteq DOMAIN articles,
         \A id \in DOMAIN articles' :
           articles'[id].feed = articles[id].feed /\ articles'[id].guid = articles[id].guid,
         source' = source,
         \A w \in Fetchers : fetch'[w] # Idle =>
           /\ fetch[w] # Idle
           /\ fetch'[w].feed = fetch[w].feed
           /\ fetch'[w].guids = fetch[w].guids
           /\ fetch'[w].mixed = fetch[w].mixed
  PROVE  Carried'
  BY DEF Carried, RowsOf

\* A fetch brings articles.
LEMMA CarriedIn ==
  ASSUME TypeOK, Carried, NEW w \in Fetchers, fetch[w] # Idle, fetch[w].feed \in feeds,
         NEW guids \in SUBSET fetch[w].guids, Upsert(fetch[w].feed, guids),
         source' = source,
         \A v \in Fetchers : fetch'[v] # Idle =>
           /\ fetch[v] # Idle
           /\ fetch'[v].feed = fetch[v].feed
           /\ fetch'[v].guids = fetch[v].guids
           /\ fetch'[v].mixed = fetch[v].mixed
  PROVE  Carried'
  <1> DEFINE f == fetch[w].feed
  <1>1. guids \in SUBSET Guids
    BY FetchTyped
  <1>2. /\ \A id \in DOMAIN articles : articles'[id] = articles[id]
        /\ \A id \in DOMAIN articles' \ DOMAIN articles :
             articles'[id].feed = f /\ articles'[id].guid \in guids
    BY <1>1, UpsertRows DEF Missing
  <1>3. \A id \in DOMAIN articles' :
          source'[articles'[id].feed][articles'[id].guid] # "unpublished"
    BY <1>2 DEF Carried
  <1>4. \A v \in Fetchers : fetch'[v] # Idle =>
          \A g \in fetch'[v].guids : source'[fetch'[v].feed][g] # "unpublished"
    BY DEF Carried
  <1>5. \A v, u \in Fetchers :
          v # u /\ fetch'[v] # Idle /\ fetch'[u] # Idle /\ fetch'[v].feed = fetch'[u].feed
            => fetch'[v].mixed
    BY DEF Carried
  <1>6. ASSUME NEW v \in Fetchers, fetch'[v] # Idle, ~fetch'[v].mixed,
               NEW id \in DOMAIN articles', articles'[id].feed = fetch'[v].feed,
               source'[fetch'[v].feed][articles'[id].guid] = "offered"
        PROVE  articles'[id].guid \in fetch'[v].guids
    <2>1. CASE id \in DOMAIN articles
      BY <1>2, <1>6, <2>1 DEF Carried, RowsOf
    <2>2. CASE id \notin DOMAIN articles
      <3>1. fetch[v].feed = f
        BY <1>2, <1>6, <2>2
      <3>2. v = w
        BY <1>6, <3>1 DEF Carried
      <3> QED BY <1>2, <1>6, <2>2, <3>2
    <2> QED BY <2>1, <2>2
  <1> QED BY <1>3, <1>4, <1>5, <1>6 DEF Carried, RowsOf

LEMMA CarriedInductive == TypeOK /\ Carried /\ [Next]_vars => Carried'
  <1> SUFFICES ASSUME TypeOK, Carried, [Next]_vars PROVE Carried'
    OBVIOUS
  <1> USE DEF tables, settings, history
  <1>1. ASSUME UNCHANGED <<articles, source>>,
               \A w \in Fetchers : fetch'[w] \in {fetch[w], Idle}
        PROVE  Carried'
    BY <1>1, CarriedOn
  <1>2. ASSUME NEW ids, NEW read \in BOOLEAN,
               articles' \in {articles, Flagged(articles, ids, read)},
               UNCHANGED <<source, fetch>>
        PROVE  Carried'
    <2>1. \A id \in DOMAIN articles : articles[id] \in Row
      BY DEF TypeOK
    <2>2. /\ DOMAIN articles' = DOMAIN articles
          /\ \A id \in DOMAIN articles :
               articles'[id].feed = articles[id].feed /\ articles'[id].guid = articles[id].guid
      BY <1>2, <2>1, FlaggedRows
    <2> QED BY <1>2, <2>2, CarriedOn
  <1>3. ASSUME NEW gone, articles' = Restrict(articles, DOMAIN articles \ gone),
               source' = source, \A w \in Fetchers : fetch'[w] \in {fetch[w], Idle}
        PROVE  Carried'
    <2>1. /\ DOMAIN articles' \subseteq DOMAIN articles
          /\ \A id \in DOMAIN articles' : articles'[id] = articles[id]
      BY <1>3, RestrictedRows
    <2> QED BY <1>3, <2>1, CarriedOn
  <1>4. ASSUME NEW f \in Feeds, NEW g \in Guids, Publish(f, g) PROVE Carried'
    <2>1. /\ source[f][g] = "unpublished" /\ UNCHANGED <<articles, fetch>>
          /\ \A h \in Feeds, i \in Guids :
               source'[h][i] = IF h = f /\ i = g THEN "offered" ELSE source[h][i]
      BY <1>4 DEF Publish, TypeOK
    <2>2. \A id \in DOMAIN articles : articles[id].feed \in Feeds /\ articles[id].guid \in Guids
      BY DEF TypeOK, Row
    <2>3. \A w \in Fetchers : fetch[w] # Idle => fetch[w].feed \in Feeds /\ fetch[w].guids \subseteq Guids
      BY FetchTyped
    <2> QED BY <2>1, <2>2, <2>3 DEF Carried, RowsOf
  <1>5. ASSUME NEW f \in Feeds, NEW g \in Guids, Retire(f, g) PROVE Carried'
    <2>1. /\ UNCHANGED <<articles, fetch>>
          /\ \A h \in Feeds, i \in Guids :
               source'[h][i] = IF h = f /\ i = g THEN "retired" ELSE source[h][i]
      BY <1>5 DEF Retire, TypeOK
    <2>2. \A id \in DOMAIN articles : articles[id].feed \in Feeds /\ articles[id].guid \in Guids
      BY DEF TypeOK, Row
    <2>3. \A w \in Fetchers : fetch[w] # Idle => fetch[w].feed \in Feeds /\ fetch[w].guids \subseteq Guids
      BY FetchTyped
    <2> QED BY <2>1, <2>2, <2>3 DEF Carried, RowsOf
  <1>6. ASSUME NEW w \in Fetchers, NEW f \in Feeds, BeginFetch(w, f) PROVE Carried'
    <2>1. /\ UNCHANGED <<articles, source>>
          /\ fetch[w] = Idle
          /\ fetch' = [v \in Fetchers |->
               IF v = w
                 THEN [stage |-> "fetched", feed |-> f, mode |-> mode[f],
                       guids |-> Offered(f), mixed |-> Busy(f) # {}]
                 ELSE IF v \in Busy(f) THEN [fetch[v] EXCEPT !.mixed = TRUE] ELSE fetch[v]]
      BY <1>6 DEF BeginFetch
    <2>2. /\ fetch'[w].feed = f /\ fetch'[w].guids = Offered(f)
          /\ fetch'[w].mixed = (Busy(f) # {})
      BY <2>1
    <2>3. ASSUME NEW v \in Fetchers, v # w, fetch'[v] # Idle
          PROVE  /\ fetch[v] # Idle
                 /\ fetch'[v].feed = fetch[v].feed
                 /\ fetch'[v].guids = fetch[v].guids
                 /\ fetch[v].mixed => fetch'[v].mixed
                 /\ fetch[v].feed = f => fetch'[v].mixed /\ Busy(f) # {}
      <3>1. CASE v \in Busy(f)
        <4>1. fetch'[v] = [fetch[v] EXCEPT !.mixed = TRUE] /\ fetch[v] # Idle
          BY <2>1, <2>3, <3>1 DEF Busy
        <4>2. fetch[v] \in [stage : {"fetched", "stored"}, feed : Feeds, mode : ModeNames,
                            guids : SUBSET Guids, mixed : BOOLEAN]
          BY <4>1, FetchTyped
        <4> QED BY <3>1, <4>1, <4>2
      <3>2. CASE v \notin Busy(f)
        <4>1. fetch'[v] = fetch[v]
          BY <2>1, <2>3, <3>2
        <4> QED BY <2>3, <3>2, <4>1 DEF Busy
      <3> QED BY <3>1, <3>2
    <2>4. \A v \in Fetchers : fetch'[v] # Idle =>
            \A g \in fetch'[v].guids : source[fetch'[v].feed][g] # "unpublished"
      BY <2>2, <2>3 DEF Carried, Offered
    <2>5. ASSUME NEW u \in Fetchers, NEW v \in Fetchers, u # v,
                 fetch'[u] # Idle, fetch'[v] # Idle, fetch'[u].feed = fetch'[v].feed
          PROVE  fetch'[u].mixed
      <3>1. CASE u = w
        <4>1. v # w
          BY <2>5, <3>1
        <4>2. fetch[v].feed = f
          BY <2>2, <2>3, <2>5, <3>1, <4>1
        <4>3. Busy(f) # {}
          BY <2>3, <2>5, <4>1, <4>2
        <4> QED BY <2>2, <3>1, <4>3
      <3>2. CASE v = w
        <4>1. u # w
          BY <2>5, <3>2
        <4>2. fetch[u].feed = f
          BY <2>2, <2>3, <2>5, <3>2, <4>1
        <4> QED BY <2>3, <2>5, <4>1, <4>2
      <3>3. CASE u # w /\ v # w
        <4>1. fetch[u] # Idle /\ fetch[v] # Idle /\ fetch[u].feed = fetch[v].feed
          BY <2>3, <2>5, <3>3
        <4>2. fetch[u].mixed
          BY <2>5, <4>1 DEF Carried
        <4> QED BY <2>3, <2>5, <3>3, <4>2
      <3> QED BY <3>1, <3>2, <3>3
    <2>6. ASSUME NEW v \in Fetchers, fetch'[v] # Idle, ~fetch'[v].mixed,
                 NEW id \in RowsOf(fetch'[v].feed),
                 source[fetch'[v].feed][articles[id].guid] = "offered"
          PROVE  articles[id].guid \in fetch'[v].guids
      <3>1. CASE v = w
        <4>1. articles[id].guid \in Guids
          BY DEF RowsOf, TypeOK, Row
        <4> QED BY <2>2, <2>6, <3>1, <4>1 DEF Offered
      <3>2. CASE v # w
        <4>1. /\ fetch[v] # Idle /\ ~fetch[v].mixed /\ fetch'[v].feed = fetch[v].feed
              /\ fetch'[v].guids = fetch[v].guids
          BY <2>3, <2>6, <3>2
        <4> QED BY <2>6, <4>1 DEF Carried
      <3> QED BY <3>1, <3>2
    <2> QED BY <2>1, <2>4, <2>5, <2>6 DEF Carried, RowsOf
  <1>7. ASSUME NEW w \in Fetchers, StoreArticles(w) PROVE Carried'
    <2>1. fetch[w] # Idle /\ source' = source
      BY <1>7 DEF StoreArticles, Idle
    <2>2. CASE fetch[w].feed \in feeds
      <3>1. /\ Upsert(fetch[w].feed, fetch[w].guids)
            /\ fetch' = [fetch EXCEPT ![w].stage = "stored",
                                      ![w].mode = IF @ = "default" THEN default ELSE @]
        BY <1>7, <2>2 DEF StoreArticles
      <3>2. \A v \in Fetchers : fetch'[v] # Idle =>
              /\ fetch[v] # Idle
              /\ fetch'[v].feed = fetch[v].feed
              /\ fetch'[v].guids = fetch[v].guids
              /\ fetch'[v].mixed = fetch[v].mixed
        BY <2>1, <3>1, FetchTyped DEF TypeOK
      <3> QED BY <2>1, <2>2, <3>1, <3>2, CarriedIn
    <2>3. CASE fetch[w].feed \notin feeds
      BY <1>1, <1>7, <2>3 DEF StoreArticles, TypeOK
    <2> QED BY <2>2, <2>3
  <1>8. ASSUME NEW w \in Fetchers, FailWhileStoring(w) PROVE Carried'
    <2>1. fetch[w] # Idle /\ source' = source /\ fetch[w].feed \in feeds
      BY <1>8 DEF FailWhileStoring, Idle
    <2>2. PICK done \in SUBSET fetch[w].guids : Upsert(fetch[w].feed, done)
      BY <1>8 DEF FailWhileStoring
    <2>3. \A v \in Fetchers : fetch'[v] \in {fetch[v], Idle}
      BY <1>8 DEF FailWhileStoring, TypeOK
    <2> QED BY <2>1, <2>2, <2>3, CarriedIn
  <1>9. ASSUME NEW w \in Fetchers, ApplyArchivePolicy(w) PROVE Carried'
    <2>1. source' = source /\ \A v \in Fetchers : fetch'[v] \in {fetch[v], Idle}
      BY <1>9 DEF ApplyArchivePolicy, TypeOK
    <2> QED BY <1>1, <1>3, <1>9, <2>1 DEF ApplyArchivePolicy
  <1>10. ASSUME NEW f \in Feeds, DeleteFeed(f) PROVE Carried'
    BY <1>3, <1>10 DEF DeleteFeed
  <1>11. ASSUME NEW id \in Ids, NEW read \in BOOLEAN,
                MarkArticle(id, read) \/ FailWhileMarking(id, read)
         PROVE  Carried'
    BY <1>2, <1>11 DEF MarkArticle, FailWhileMarking
  <1>12. ASSUME NEW some \in SUBSET Feeds, MarkFeedsRead(some) PROVE Carried'
    BY <1>2, <1>12 DEF MarkFeedsRead
  <1>13. CASE MarkQueueRead
    BY <1>2, <1>13 DEF MarkQueueRead
  <1>14. ASSUME NEW id \in Ids, QueueArticle(id) \/ UnqueueArticle(id) PROVE Carried'
    BY <1>1, <1>14 DEF QueueArticle, UnqueueArticle
  <1>15. ASSUME NEW f \in Feeds, NEW m \in Modes, SetMode(f, m) PROVE Carried'
    BY <1>1, <1>15 DEF SetMode
  <1>16. ASSUME NEW m \in Defaults, SetDefault(m) PROVE Carried'
    BY <1>1, <1>16 DEF SetDefault
  <1>17. ASSUME NEW w \in Fetchers, FailFetch(w) PROVE Carried'
    BY <1>1, <1>17 DEF FailFetch, TypeOK
  <1>18. CASE Crash \/ FailWhileMarkingQueue \/ UNCHANGED vars
    BY <1>1, <1>18 DEF Crash, FailWhileMarkingQueue, vars
  <1> QED
    BY <1>4, <1>5, <1>6, <1>7, <1>8, <1>9, <1>10, <1>11, <1>12, <1>13, <1>14, <1>15,
       <1>16, <1>17, <1>18 DEF Next

\* Every article that was told is offered and there, as read.
Kept == TellsOffered /\ ReadStaysRead

LEMMA ToldAreKept ==
  ASSUME TypeOK, NEW ids, NEW a \in Told(ids) \ told
  PROVE  /\ a[1] \in feeds /\ source[a[1]][a[2]] = "offered"
         /\ \E id \in ids \cap DOMAIN articles : Article(articles[id]) = a
  BY DEF Told, Offered, Article, TypeOK

\* A request to mark articles read.
LEMMA MarkKeeps ==
  ASSUME TypeOK, Kept, NEW ids,
         articles' = Flagged(articles, ids, TRUE), told' = Told(ids),
         UNCHANGED <<feeds, source>>
  PROVE  Kept'
  <1>1. \A id \in DOMAIN articles : articles[id] \in Row
    BY DEF TypeOK
  <1>2. /\ DOMAIN articles' = DOMAIN articles
        /\ \A id \in DOMAIN articles :
             /\ Article(articles'[id]) = Article(articles[id])
             /\ articles[id].read \/ id \in ids => articles'[id].read
    <2>1. /\ DOMAIN articles' = DOMAIN articles
          /\ \A id \in DOMAIN articles : Article(articles'[id]) = Article(articles[id])
      BY <1>1 DEF Flagged, Row, Article
    <2>2. \A id \in DOMAIN articles : articles[id].read \/ id \in ids => articles'[id].read
      BY <1>1 DEF Flagged, Row
    <2> QED BY <2>1, <2>2
  <1>3. TellsOffered'
    BY ToldAreKept DEF Kept, TellsOffered
  <1>4. ASSUME NEW a \in Told(ids)
        PROVE  \E id \in DOMAIN articles' : Article(articles'[id]) = a /\ articles'[id].read
    <2>1. CASE a \in told
      <3>1. PICK id \in DOMAIN articles : Article(articles[id]) = a /\ articles[id].read
        BY <2>1 DEF Kept, ReadStaysRead
      <3> QED BY <1>2, <3>1
    <2>2. CASE a \notin told
      BY <1>2, <2>2, ToldAreKept
    <2> QED BY <2>1, <2>2
  <1> QED BY <1>3, <1>4 DEF Kept, ReadStaysRead

\* A step that tells nothing: the articles that stay told stay, with their flags.
LEMMA StepKeeps ==
  ASSUME Kept, told' \subseteq told,
         \A a \in told' : a[1] \in feeds' /\ source'[a[1]][a[2]] = source[a[1]][a[2]],
         \A id \in DOMAIN articles : Article(articles[id]) \in told' =>
           /\ id \in DOMAIN articles'
           /\ Article(articles'[id]) = Article(articles[id])
           /\ articles[id].read => articles'[id].read
  PROVE  Kept'
  <1>1. TellsOffered'
    BY DEF Kept, TellsOffered
  <1>2. ASSUME NEW a \in told'
        PROVE  \E id \in DOMAIN articles' : Article(articles'[id]) = a /\ articles'[id].read
    <2>1. PICK id \in DOMAIN articles : Article(articles[id]) = a /\ articles[id].read
      BY <1>2 DEF Kept, ReadStaysRead
    <2> QED BY <1>2, <2>1
  <1> QED BY <1>1, <1>2 DEF Kept, ReadStaysRead

LEMMA KeptInductive == TypeOK /\ Carried /\ Kept /\ [Next]_vars => Kept'
  <1> SUFFICES ASSUME TypeOK, Carried, Kept, [Next]_vars PROVE Kept'
    OBVIOUS
  <1> USE DEF tables, settings, history
  <1>0. /\ \A id \in DOMAIN articles : articles[id] \in Row /\ articles[id].feed \in feeds
        /\ told \subseteq Feeds \X Guids
        /\ TellsOffered
    BY DEF TypeOK, Kept
  <1>1. CASE UNCHANGED <<feeds, articles, source, told>>
    BY <1>1 DEF Kept, TellsOffered, ReadStaysRead, Article
  <1>2. ASSUME NEW f \in Feeds, NEW g \in Guids, Publish(f, g) PROVE Kept'
    <2>1. /\ source[f][g] = "unpublished" /\ UNCHANGED <<feeds, articles, told>>
          /\ \A h \in Feeds, i \in Guids :
               source'[h][i] = IF h = f /\ i = g THEN "offered" ELSE source[h][i]
      BY <1>2 DEF Publish, TypeOK
    <2>2. \A a \in told : source'[a[1]][a[2]] = source[a[1]][a[2]]
      BY <1>0, <2>1 DEF TellsOffered
    <2> QED BY <1>0, <2>1, <2>2, StepKeeps DEF TellsOffered, Article
  <1>3. ASSUME NEW f \in Feeds, NEW g \in Guids, Retire(f, g) PROVE Kept'
    <2>1. /\ UNCHANGED <<feeds, articles>> /\ told' = told \ {<<f, g>>}
          /\ \A h \in Feeds, i \in Guids :
               source'[h][i] = IF h = f /\ i = g THEN "retired" ELSE source[h][i]
      BY <1>3 DEF Retire, TypeOK
    <2>2. \A a \in told' : source'[a[1]][a[2]] = source[a[1]][a[2]]
      BY <1>0, <2>1
    <2> QED BY <1>0, <2>1, <2>2, StepKeeps DEF TellsOffered, Article
  <1>4. ASSUME NEW f \in Feeds, DeleteFeed(f) PROVE Kept'
    <2>1. /\ DOMAIN articles' = DOMAIN articles \ RowsOf(f)
          /\ \A id \in DOMAIN articles' : articles'[id] = articles[id]
          /\ feeds' = feeds \ {f} /\ source' = source
          /\ told' = {a \in told : a[1] # f}
      BY <1>4, RestrictedRows DEF DeleteFeed
    <2>2. \A id \in DOMAIN articles : Article(articles[id])[1] = articles[id].feed
      BY DEF Article
    <2>3. \A id \in DOMAIN articles : Article(articles[id]) \in told' => id \in DOMAIN articles'
      BY <2>1, <2>2 DEF RowsOf
    <2>4. \A a \in told' : a[1] \in feeds'
      BY <1>0, <2>1 DEF TellsOffered
    <2> QED BY <2>1, <2>3, <2>4, StepKeeps DEF Article
  <1>5. ASSUME NEW f \in feeds, NEW guids \in SUBSET Guids, Upsert(f, guids),
               UNCHANGED <<feeds, source, told>>
        PROVE  Kept'
    <2>1. \A id \in DOMAIN articles : id \in DOMAIN articles' /\ articles'[id] = articles[id]
      BY <1>5, UpsertRows
    <2> QED BY <1>0, <1>5, <2>1, StepKeeps DEF TellsOffered, Article
  <1>6. ASSUME NEW w \in Fetchers, StoreArticles(w) PROVE Kept'
    <2>1. fetch[w] # Idle
      BY <1>6 DEF StoreArticles, Idle
    <2> QED BY <1>1, <1>5, <1>6, <2>1, FetchTyped DEF StoreArticles
  <1>7. ASSUME NEW w \in Fetchers, FailWhileStoring(w) PROVE Kept'
    <2>1. fetch[w] # Idle
      BY <1>7 DEF FailWhileStoring, Idle
    <2> QED BY <1>5, <1>7, <2>1, FetchTyped DEF FailWhileStoring
  <1>8. ASSUME NEW w \in Fetchers, ApplyArchivePolicy(w) PROVE Kept'
    <2>1. UNCHANGED <<feeds, source>> /\ fetch[w] # Idle
      BY <1>8 DEF ApplyArchivePolicy, Idle
    <2>2. CASE fetch[w].feed \in feeds
      <3>1. PICK gone \in Removals(fetch[w].feed, fetch[w].mode, fetch[w].guids) :
              /\ articles' = Restrict(articles, DOMAIN articles \ gone)
              /\ told' = IF fetch[w].mixed \/ fetch[w].mode \in {"limit", "older_than"}
                           THEN told \ {Article(articles[id]) : id \in gone}
                           ELSE told
        BY <1>8, <2>2 DEF ApplyArchivePolicy
      <3>2. /\ DOMAIN articles' = DOMAIN articles \ gone
            /\ \A id \in DOMAIN articles' : articles'[id] = articles[id]
        BY <3>1, RestrictedRows
      <3>3. ASSUME NEW id \in DOMAIN articles, Article(articles[id]) \in told', id \in gone
            PROVE  FALSE
        <4>1. /\ ~fetch[w].mixed
              /\ fetch[w].mode \notin {"limit", "older_than"}
              /\ Article(articles[id]) \in told
          BY <3>1, <3>3
        <4>2. id \in RowsOf(fetch[w].feed) /\ articles[id].guid \notin fetch[w].guids
          BY <3>3, <4>1, RemovedRows
        <4>3. source[fetch[w].feed][articles[id].guid] = "offered"
          BY <1>0, <4>1, <4>2 DEF TellsOffered, RowsOf, Article
        <4> QED BY <2>1, <4>1, <4>2, <4>3 DEF Carried
      <3>4. told' \subseteq told
        BY <3>1
      <3> QED BY <1>0, <2>1, <3>2, <3>3, <3>4, StepKeeps DEF TellsOffered, Article
    <2>3. CASE fetch[w].feed \notin feeds
      BY <1>1, <1>8, <2>3 DEF ApplyArchivePolicy
    <2> QED BY <2>2, <2>3
  <1>9. ASSUME NEW id \in Ids, NEW read \in BOOLEAN, MarkArticle(id, read) PROVE Kept'
    <2>1. CASE read = TRUE
      BY <1>9, <2>1, MarkKeeps DEF MarkArticle
    <2>2. CASE read = FALSE
      <3>1. /\ articles' = Flagged(articles, {id}, FALSE)
            /\ told' = told \ {Article(articles[i]) : i \in {id} \cap DOMAIN articles}
            /\ UNCHANGED <<feeds, source>>
        BY <1>9, <2>2 DEF MarkArticle
      <3>2. \A i \in DOMAIN articles \ {id} :
              i \in DOMAIN articles' /\ articles'[i] = articles[i]
        BY <3>1 DEF Flagged
      <3>3. id \in DOMAIN articles => Article(articles[id]) \notin told'
        BY <3>1
      <3> QED BY <1>0, <3>1, <3>2, <3>3, StepKeeps DEF TellsOffered, Article
    <2> QED BY <2>1, <2>2
  <1>10. ASSUME NEW some \in SUBSET Feeds, MarkFeedsRead(some) PROVE Kept'
    BY <1>10, MarkKeeps DEF MarkFeedsRead
  <1>11. CASE MarkQueueRead
    BY <1>11, MarkKeeps DEF MarkQueueRead
  <1>12. ASSUME NEW id \in Ids, NEW read \in BOOLEAN, FailWhileMarking(id, read) PROVE Kept'
    <2>1. /\ articles' \in {articles, Flagged(articles, {id}, read)}
          /\ told' = told \ {Article(articles[id])}
          /\ UNCHANGED <<feeds, source>>
      BY <1>12 DEF FailWhileMarking
    <2>2. \A i \in DOMAIN articles \ {id} :
            i \in DOMAIN articles' /\ articles'[i] = articles[i]
      BY <2>1 DEF Flagged
    <2> QED BY <1>0, <2>1, <2>2, StepKeeps DEF TellsOffered, Article
  <1>13. ASSUME NEW id \in Ids, QueueArticle(id) \/ UnqueueArticle(id) PROVE Kept'
    BY <1>1, <1>13 DEF QueueArticle, UnqueueArticle
  <1>14. ASSUME NEW f \in Feeds, NEW m \in Modes, SetMode(f, m) PROVE Kept'
    BY <1>1, <1>14 DEF SetMode
  <1>15. ASSUME NEW m \in Defaults, SetDefault(m) PROVE Kept'
    BY <1>1, <1>15 DEF SetDefault
  <1>16. ASSUME NEW w \in Fetchers, NEW f \in Feeds, BeginFetch(w, f) PROVE Kept'
    BY <1>1, <1>16 DEF BeginFetch
  <1>17. ASSUME NEW w \in Fetchers, FailFetch(w) PROVE Kept'
    BY <1>1, <1>17 DEF FailFetch
  <1>18. CASE Crash \/ FailWhileMarkingQueue \/ UNCHANGED vars
    BY <1>1, <1>18 DEF Crash, FailWhileMarkingQueue, vars
  <1> QED
    BY <1>2, <1>3, <1>4, <1>6, <1>7, <1>8, <1>9, <1>10, <1>11, <1>12, <1>13, <1>14,
       <1>15, <1>16, <1>17, <1>18 DEF Next

\* What the user has read and the feed still offers stays there as read, through
\* refreshes, failures and crashes, but for policies by number or age and for
\* fetches that overlap.
THEOREM ReadingIsKept == Spec => []ReadStaysRead
  <1>1. Init => Carried /\ Kept
    BY DEF Init, Carried, Kept, TellsOffered, ReadStaysRead
  <1>2. Kept => ReadStaysRead
    BY DEF Kept
  <1> QED BY <1>1, <1>2, TypeCorrect, CarriedInductive, KeptInductive, PTL DEF Spec

=============================================================================
