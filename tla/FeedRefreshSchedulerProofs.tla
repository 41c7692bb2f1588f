--------------------- MODULE FeedRefreshSchedulerProofs ---------------------
(***************************************************************************)
(* Proofs about FeedRefreshScheduler, for any feeds, users, sessions and   *)
(* workers: first its types, its start-up and its queue, then, from these, *)
(* that no wakeup is lost, that every flag has somebody who will clear it, *)
(* that no feed is fetched twice at once and that the schedule follows the *)
(* tree.                                                                   *)
(***************************************************************************)
EXTENDS FeedRefreshScheduler, FiniteSetTheorems, SequenceTheorems, TLAPS

Entry == Feeds \X (Nat \ {0})

-----------------------------------------------------------------------------
(* The operators on the ready queue                                          *)

\* r has the entries of q at the places to be kept, once each.
EachKept(q, keep, r) ==
  \E h \in [1..Len(r) -> keep] :
    /\ \A i \in 1..Len(r) : r[i] = q[h[i]]
    /\ \A i, j \in 1..Len(r) : h[i] = h[j] => i = j
    /\ \A k \in keep : \E i \in 1..Len(r) : h[i] = k

\* Compacted keeps entries of the queue, each at most once, and loses none of
\* the kept ones.
LEMMA CompactedKeeps ==
  ASSUME NEW q \in Seq(Entry), NEW keep \in SUBSET (1..Len(q)), NEW r \in Compacted(q, keep)
  PROVE  r \in Seq(Entry) /\ EachKept(q, keep, r)
<1>1. Len(q) \in Nat
  OBVIOUS
<1>2. Cardinality(keep) \in Nat
  <2>1. IsFiniteSet(1..Len(q))
    BY <1>1, FS_Interval
  <2>2. IsFiniteSet(keep)
    BY <2>1, FS_Subset
  <2> QED
    BY <2>2, FS_CardinalityType
<1> DEFINE n == Cardinality(keep)
<1>3. PICK h \in [1..n -> keep] :
        /\ \A i, j \in 1..n : i < j => h[i] < h[j]
        /\ \A k \in keep : \E i \in 1..n : h[i] = k
        /\ r = [i \in 1..n |-> q[h[i]]]
  BY DEF Compacted
<1>4. \A i \in 1..n : h[i] \in 1..Len(q) /\ q[h[i]] \in Entry
  BY <1>2, <1>3, ElementOfSeq
<1>5. r \in Seq(Entry) /\ Len(r) = n
  BY <1>2, <1>3, <1>4, IsASeq
<1>6. \A i, j \in 1..n : h[i] = h[j] => i = j
  BY <1>2, <1>3, <1>4
<1> QED
  BY <1>2, <1>3, <1>5, <1>6 DEF EachKept

\* What SchedulerPass appends: one entry per due feed, each of a feed's
\* current generation.
LEMMA QueuedAfterPass ==
  ASSUME TypeOK, NEW order \in Orders(DueFeeds)
  PROVE  LET n == Cardinality(DueFeeds)
             m == Len(readyQueue)
             q == readyQueue \o [i \in 1..n |-> <<order[i], feeds[order[i]].generation>>]
         IN /\ n \in Nat
            /\ order \in [1..n -> DueFeeds]
            /\ \A i, j \in 1..n : order[i] = order[j] => i = j
            /\ \A x \in DueFeeds : \E i \in 1..n : order[i] = x
            /\ q \in Seq(Entry)
            /\ Len(q) = m + n
            /\ \A i \in 1..m : q[i] = readyQueue[i]
            /\ \A i \in 1..n : q[m + i] = <<order[i], feeds[order[i]].generation>>
<1> DEFINE n == Cardinality(DueFeeds)
           new == [i \in 1..n |-> <<order[i], feeds[order[i]].generation>>]
<1>1. n \in Nat
  <2>1. DueFeeds \subseteq Feeds
    BY DEF DueFeeds, Startable
  <2> QED
    BY <2>1, ConstantsOK, FS_Subset, FS_CardinalityType
<1>2. /\ order \in [1..n -> DueFeeds]
      /\ \A i, j \in 1..n : order[i] = order[j] => i = j
      /\ \A x \in DueFeeds : \E i \in 1..n : order[i] = x
  BY DEF Orders
<1>3. \A f \in DueFeeds : f \in Feeds /\ feeds[f].generation \in Nat \ {0}
  BY DEF DueFeeds, Startable, Tracked, TypeOK, FeedState, Untracked
<1>4. \A i \in 1..n : <<order[i], feeds[order[i]].generation>> \in Entry
  BY <1>2, <1>3 DEF Entry
<1>5. new \in Seq(Entry) /\ Len(new) = n
  BY <1>1, <1>4, IsASeq
<1>6. readyQueue \in Seq(Entry)
  BY DEF TypeOK, Entry
<1> HIDE DEF n, new
<1>7. /\ readyQueue \o new \in Seq(Entry)
      /\ Len(readyQueue \o new) = Len(readyQueue) + n
      /\ \A i \in 1..Len(readyQueue) + n :
           (readyQueue \o new)[i] = IF i <= Len(readyQueue) THEN readyQueue[i]
                                    ELSE new[i - Len(readyQueue)]
  BY <1>5, <1>6, ConcatProperties
<1>8. Len(readyQueue) \in Nat
  BY <1>6
<1>9. \A i \in 1..n : (readyQueue \o new)[Len(readyQueue) + i] = new[i]
  <2> TAKE i \in 1..n
  <2>1. Len(readyQueue) + i \in 1..Len(readyQueue) + n /\ ~(Len(readyQueue) + i <= Len(readyQueue))
    BY <1>1, <1>8
  <2>2. Len(readyQueue) + i - Len(readyQueue) = i
    BY <1>1, <1>8
  <2> QED
    BY <1>7, <2>1, <2>2
<1>10. \A i \in 1..Len(readyQueue) : (readyQueue \o new)[i] = readyQueue[i]
  BY <1>1, <1>7, <1>8
<1>11. \A i \in 1..n : new[i] = <<order[i], feeds[order[i]].generation>>
  BY DEF new
<1> QED
  BY <1>1, <1>2, <1>7, <1>9, <1>10, <1>11 DEF n, new

-----------------------------------------------------------------------------
(* Types                                                                     *)

\* What the stages of start-up say about the rest of the state.
StartupOrder ==
  /\ main \in {"start", "clear"} =>
       /\ \A f \in Feeds : feeds[f] = Untracked
       /\ readyQueue = <<>>
       /\ \A w \in Workers : task[w] = NoTask
  /\ main = "start" => \A t \in Threads : pc[t] = "none"
  /\ main = "load" => \A f \in loading : feeds[f] = Untracked
  /\ main # "load" => loading = {}
  /\ main # "serve" => \A s \in Sessions : op[s] = "none"

\* NotifyAll turns waiting threads into woken ones and leaves the others.
LEMMA NotifiedType ==
  ASSUME TypeOK
  PROVE  /\ NotifyAll(pc) \in [Threads -> ThreadState]
         /\ \A t \in Threads : NotifyAll(pc)[t] # "waiting"
         /\ \A t \in Threads : pc[t] # "waiting" => NotifyAll(pc)[t] = pc[t]
         /\ \A t \in Threads : NotifyAll(pc)[t] # "woken" => NotifyAll(pc)[t] = pc[t]
         /\ \A t \in Threads :
              NotifyAll(pc)[t] \in {"dispatched", "fetching"} <=>
                pc[t] \in {"dispatched", "fetching"}
BY DEF NotifyAll, ThreadState, TypeOK

LEMMA InitType == Init => TypeOK /\ StartupOrder
<1> SUFFICES ASSUME Init PROVE TypeOK /\ StartupOrder
  OBVIOUS
<1> USE ConstantsOK DEF Init
<1>1. version \in [Feeds -> 0..MaxVersion] /\ \A f \in tree : version[f] # 0
  OBVIOUS
<1>2. feeds \in [Feeds -> FeedState]
  BY DEF FeedState
<1>3. pc \in [Threads -> ThreadState]
  BY DEF ThreadState
<1>4. \A w \in Workers : pc[w] \in {"dispatched", "fetching"} <=> task[w] # NoTask
  BY DEF Threads
<1>5. records \in [Sessions -> [Feeds -> 0..MaxVersion]]
  OBVIOUS
<1>6. readyQueue \in Seq(Feeds \X (Nat \ {0}))
  OBVIOUS
<1>7. StartupOrder
  BY DEF StartupOrder
<1> QED
  BY <1>1, <1>2, <1>3, <1>4, <1>5, <1>6, <1>7 DEF TypeOK

\* Entries of feeds_ that exist.
LEMMA TrackedState ==
  ASSUME TypeOK, NEW f \in Feeds
  PROVE  /\ feeds[f] \in FeedState
         /\ Tracked(f) <=> feeds[f].generation \in Nat \ {0}
         /\ Tracked(f) =>
              feeds[f] \in [node : Versions, generation : Nat \ {0}, queued : BOOLEAN,
                            running : BOOLEAN, due : BOOLEAN]
         /\ ~Tracked(f) => feeds[f] = Untracked
         /\ feeds[f].generation \in Nat
         /\ feeds[f].queued \/ feeds[f].running \/ feeds[f].due => Tracked(f)
BY DEF TypeOK, FeedState, Tracked, Untracked

\* upsertFeedLocked makes an entry, whatever was there before.
LEMMA UpsertedType ==
  ASSUME NEW state \in FeedState, NEW v \in Versions, NEW b \in BOOLEAN
  PROVE  /\ Upserted(state, v, b) \in FeedState
         /\ Upserted(state, v, b).generation = state.generation + 1
         /\ Upserted(state, v, b).queued = state.queued
         /\ Upserted(state, v, b).running = state.running
<1>1. state.generation \in Nat /\ state.queued \in BOOLEAN /\ state.running \in BOOLEAN
  <2>1. CASE state = Untracked
    <3>1. state.generation = 0 /\ state.queued = FALSE /\ state.running = FALSE
      BY <2>1 DEF Untracked
    <3>2. state.queued \in BOOLEAN /\ state.running \in BOOLEAN
      BY <3>1, Zenon
    <3>3. state.generation \in Nat
      BY <3>1, SMT
    <3> QED
      BY <3>2, <3>3
  <2>2. CASE state \in [node : Versions, generation : Nat \ {0}, queued : BOOLEAN,
                       running : BOOLEAN, due : BOOLEAN]
    BY <2>2
  <2> QED
    BY <2>1, <2>2 DEF FeedState
<1>2. state.generation + 1 \in Nat \ {0}
  BY <1>1
<1> QED
  BY <1>1, <1>2 DEF FeedState, Upserted

LEMMA StepType == TypeOK /\ StartupOrder /\ [Next]_vars => TypeOK' /\ StartupOrder'
<1> SUFFICES ASSUME TypeOK, StartupOrder, [Next]_vars
             PROVE  TypeOK' /\ StartupOrder'
  OBVIOUS
<1> USE ConstantsOK DEF store, schedule, threads, calls, startup, history
<1>1. ASSUME Start
      PROVE  TypeOK' /\ StartupOrder'
  BY <1>1, NotifiedType DEF Start, Threads, ThreadState, TypeOK, StartupOrder
<1>2. ASSUME ClearExisting
      PROVE  TypeOK' /\ StartupOrder'
  BY <1>2, NotifiedType DEF ClearExisting, Threads, ThreadState, TypeOK, StartupOrder
<1>3. ASSUME FinishExisting
      PROVE  TypeOK' /\ StartupOrder'
  BY <1>3, NotifiedType DEF FinishExisting, Threads, ThreadState, TypeOK, StartupOrder
<1>4. ASSUME RequestStop
      PROVE  TypeOK' /\ StartupOrder'
  BY <1>4, NotifiedType DEF RequestStop, Threads, ThreadState, TypeOK, StartupOrder
<1>5. ASSUME NotifyStop
      PROVE  TypeOK' /\ StartupOrder'
  BY <1>5, NotifiedType DEF NotifyStop, Threads, ThreadState, TypeOK, StartupOrder
<1>6. ASSUME JoinThreads
      PROVE  TypeOK' /\ StartupOrder'
  BY <1>6, NotifiedType DEF JoinThreads, Threads, ThreadState, TypeOK, StartupOrder
<1>7. ASSUME SchedulerRecheck
      PROVE  TypeOK' /\ StartupOrder'
  BY <1>7, NotifiedType DEF SchedulerRecheck, Threads, ThreadState, TypeOK, StartupOrder
<1>8. ASSUME SchedulerExit
      PROVE  TypeOK' /\ StartupOrder'
  BY <1>8, NotifiedType DEF SchedulerExit, AtLoopTop, Threads, ThreadState, TypeOK, StartupOrder
<1>9. ASSUME SchedulerPass
      PROVE  TypeOK' /\ StartupOrder'
  <2> USE <1>9 DEF SchedulerPass
  <2>1. readyQueue' \in Seq(Feeds \X (Nat \ {0}))
    BY QueuedAfterPass DEF Entry
  <2>2. feeds' \in [Feeds -> FeedState]
    <3> SUFFICES ASSUME NEW f \in Feeds PROVE feeds'[f] \in FeedState
      OBVIOUS
    <3>1. feeds[f] \in FeedState
      BY TrackedState
    <3>2. CASE f \in DueFeeds
      BY <3>2, TrackedState DEF DueFeeds, Startable, FeedState
    <3>3. CASE f \notin DueFeeds
      BY <3>1, <3>3
    <3> QED
      BY <3>2, <3>3
  <2>3. /\ pc' \in [Threads -> ThreadState]
        /\ \A w \in Workers : pc'[w] \in {"dispatched", "fetching"} <=> task'[w] # NoTask
    BY NotifiedType DEF TypeOK, ThreadState, Threads
  <2>4. main # "start" /\ DueFeeds \cap loading = {}
    BY DEF StartupOrder, AtLoopTop, DueFeeds, Startable, Tracked, Untracked, Threads
  <2>5. main = "clear" => DueFeeds = {} /\ readyQueue' = <<>>
    <3> SUFFICES ASSUME main = "clear" PROVE DueFeeds = {} /\ readyQueue' = <<>>
      OBVIOUS
    <3>1. DueFeeds = {} /\ readyQueue = <<>>
      BY DEF StartupOrder, DueFeeds, Startable, Tracked, Untracked
    <3>2. Cardinality(DueFeeds) = 0
      BY <3>1, FS_EmptySet
    <3>3. readyQueue' \in Seq(Entry) /\ Len(readyQueue') = 0
      BY <3>1, <3>2, QueuedAfterPass
    <3> QED
      BY <3>1, <3>3, EmptySeq
  <2>6. StartupOrder'
    BY <2>4, <2>5, TrackedState DEF StartupOrder, TypeOK, Untracked
  <2> QED
    BY <2>1, <2>2, <2>3, <2>6 DEF TypeOK
<1>10. ASSUME NEW f \in Feeds, LoadExisting(f)
      PROVE  TypeOK' /\ StartupOrder'
  <2> USE <1>10 DEF LoadExisting
  <2>1. version[f] \in Versions
    BY DEF TypeOK, Versions
  <2>2. Upserted(feeds[f], version[f], FALSE) \in FeedState
    BY <2>1, UpsertedType, TrackedState
  <2>3. feeds' \in [Feeds -> FeedState]
    BY <2>2 DEF TypeOK
  <2> QED
    BY <2>3 DEF TypeOK, StartupOrder
<1>11. ASSUME NEW t \in Threads, Block(t)
      PROVE  TypeOK' /\ StartupOrder'
  BY <1>11 DEF Block, Threads, ThreadState, TypeOK, StartupOrder
<1>12. ASSUME NEW w \in Workers, WorkerWait(w)
      PROVE  TypeOK' /\ StartupOrder'
  BY <1>12 DEF WorkerWait, AtWorkerTop, Threads, ThreadState, TypeOK, StartupOrder
<1>13. ASSUME NEW w \in Workers, WorkerExit(w)
      PROVE  TypeOK' /\ StartupOrder'
  BY <1>13 DEF WorkerExit, AtWorkerTop, Threads, ThreadState, TypeOK, StartupOrder
<1>14. ASSUME NEW w \in Workers, BeginFetch(w)
      PROVE  TypeOK' /\ StartupOrder'
  BY <1>14 DEF BeginFetch, AtWorkerTop, Threads, ThreadState, TypeOK, StartupOrder
<1>15. ASSUME NEW w \in Workers, Dispatch(w)
      PROVE  TypeOK' /\ StartupOrder'
  <2> DEFINE f == Head(readyQueue)[1]
  <2> USE <1>15 DEF Dispatch
  <2>1. Head(readyQueue) \in Feeds \X (Nat \ {0}) /\ Tail(readyQueue) \in Seq(Feeds \X (Nat \ {0}))
    BY DEF TypeOK
  <2>2. f \in Feeds /\ Tracked(f)
    BY <2>1 DEF Tracked
  <2>3. [feeds[f] EXCEPT !.queued = FALSE, !.running = TRUE] \in FeedState
    BY <2>2, TrackedState DEF FeedState
  <2>4. feeds' \in [Feeds -> FeedState]
    BY <2>2, <2>3 DEF TypeOK
  <2>5. /\ pc' \in [Threads -> ThreadState]
        /\ task' \in [Workers -> (Feeds \X (Nat \ {0})) \cup {NoTask}]
        /\ \A v \in Workers : pc'[v] \in {"dispatched", "fetching"} <=> task'[v] # NoTask
    BY <2>1, NotifiedType DEF TypeOK, ThreadState, Threads
  <2>6. main \notin {"start", "clear"} /\ f \notin loading
    BY <2>2 DEF StartupOrder, Tracked, Untracked
  <2>7. StartupOrder'
    BY <2>2, <2>6 DEF StartupOrder, TypeOK
  <2> QED
    BY <2>1, <2>4, <2>5, <2>7 DEF TypeOK
<1>16. ASSUME NEW w \in Workers, DiscardStale(w)
      PROVE  TypeOK' /\ StartupOrder'
  <2> USE <1>16 DEF DiscardStale, AtWorkerTop
  <2>1. Tail(readyQueue) \in Seq(Feeds \X (Nat \ {0}))
    BY DEF TypeOK
  <2>2. /\ pc' \in [Threads -> ThreadState]
        /\ \A v \in Workers : pc'[v] \in {"dispatched", "fetching"} <=> task'[v] # NoTask
    BY NotifiedType DEF TypeOK, ThreadState, Threads
  <2>3. StartupOrder'
    BY DEF StartupOrder, TypeOK
  <2> QED
    BY <2>1, <2>2, <2>3 DEF TypeOK
<1>17. ASSUME NEW w \in Workers, AbandonFetch(w)
      PROVE  TypeOK' /\ StartupOrder'
  <2> USE <1>17 DEF AbandonFetch
  <2>1. /\ pc' \in [Threads -> ThreadState]
        /\ task' \in [Workers -> (Feeds \X (Nat \ {0})) \cup {NoTask}]
        /\ \A v \in Workers : pc'[v] \in {"dispatched", "fetching"} <=> task'[v] # NoTask
    BY DEF TypeOK, ThreadState, Threads
  <2>2. disturbed' \in SUBSET Feeds
    BY DEF TypeOK, Undisturbed
  <2>3. StartupOrder'
    BY DEF StartupOrder, TypeOK, Threads
  <2> QED
    BY <2>1, <2>2, <2>3 DEF TypeOK
<1>18. ASSUME NEW w \in Workers, FinishFetch(w)
      PROVE  TypeOK' /\ StartupOrder'
  <2> DEFINE f == task[w][1]
  <2> USE <1>18 DEF FinishFetch
  <2>1. f \in Feeds /\ task[w][2] \in Nat
    BY DEF TypeOK
  <2>2. Tracked(f) => Finished(feeds[f], task[w][2]) \in FeedState
    <3> SUFFICES ASSUME Tracked(f) PROVE Finished(feeds[f], task[w][2]) \in FeedState
      OBVIOUS
    <3>1. feeds[f] \in [node : Versions, generation : Nat \ {0}, queued : BOOLEAN,
                       running : BOOLEAN, due : BOOLEAN]
      BY <2>1, TrackedState
    <3> QED
      BY <3>1 DEF FeedState, Finished
  <2>3. feeds' \in [Feeds -> FeedState] /\ scheduleChanged' \in BOOLEAN
    <3>1. CASE Tracked(f)
      <4>1. feeds' = [feeds EXCEPT ![f] = Finished(feeds[f], task[w][2])] /\ scheduleChanged'
        BY <3>1
      <4> QED
        BY <2>1, <2>2, <3>1, <4>1 DEF TypeOK
    <3>2. CASE ~Tracked(f)
      BY <3>2 DEF TypeOK
    <3> QED
      BY <3>1, <3>2
  <2>4. /\ pc' \in [Threads -> ThreadState]
        /\ task' \in [Workers -> (Feeds \X (Nat \ {0})) \cup {NoTask}]
        /\ \A v \in Workers : pc'[v] \in {"dispatched", "fetching"} <=> task'[v] # NoTask
    BY NotifiedType DEF TypeOK, ThreadState, Threads
  <2>5. disturbed' \in SUBSET Feeds
    BY DEF TypeOK, Undisturbed
  <2>6. Tracked(f) => f \notin loading
    BY DEF StartupOrder, Tracked, Untracked
  <2>7. StartupOrder'
    BY <2>1, <2>6 DEF StartupOrder, TypeOK, Threads
  <2> QED
    BY <2>3, <2>4, <2>5, <2>7 DEF TypeOK
<1>19. ASSUME NEW f \in Feeds, Tick(f)
      PROVE  TypeOK' /\ StartupOrder'
  <2> USE <1>19 DEF Tick
  <2>1. [feeds[f] EXCEPT !.due = TRUE] \in FeedState
    <3>1. feeds[f] \in [node : Versions, generation : Nat \ {0}, queued : BOOLEAN,
                       running : BOOLEAN, due : BOOLEAN]
      BY TrackedState
    <3> QED
      BY <3>1 DEF FeedState
  <2>2. feeds' \in [Feeds -> FeedState]
    BY <2>1 DEF TypeOK
  <2>3. StartupOrder'
    BY DEF StartupOrder, TypeOK, Tracked, Untracked
  <2> QED
    BY <2>2, <2>3 DEF TypeOK
<1>20. ASSUME NEW s \in Sessions, NEW f \in Feeds, CreateFeed(s, f)
      PROVE  TypeOK' /\ StartupOrder'
  BY <1>20 DEF CreateFeed, TypeOK, StartupOrder
<1>21. ASSUME NEW s \in Sessions, NEW f \in Feeds, UpdateFeed(s, f)
      PROVE  TypeOK' /\ StartupOrder'
  <2> USE <1>21 DEF UpdateFeed
  <2>1. version[f] + 1 \in 1..MaxVersion
    BY DEF TypeOK
  <2>2. version' \in [Feeds -> 0..MaxVersion] /\ \A g \in tree : version'[g] # 0
    BY <2>1 DEF TypeOK
  <2>3. records' \in [Sessions -> [Feeds -> 0..MaxVersion]]
    BY <2>1 DEF TypeOK
  <2> QED
    BY <2>2, <2>3 DEF TypeOK, StartupOrder
<1>22. ASSUME NEW s \in Sessions, NEW f \in Feeds, DeleteFeed(s, f)
      PROVE  TypeOK' /\ StartupOrder'
  BY <1>22 DEF DeleteFeed, TypeOK, StartupOrder
<1>23. ASSUME NEW s \in Sessions, UpdateUserSettings(s)
      PROVE  TypeOK' /\ StartupOrder'
  BY <1>23 DEF UpdateUserSettings, TypeOK, StartupOrder
<1>24. ASSUME NEW s \in Sessions, ListNodes(s)
      PROVE  TypeOK' /\ StartupOrder'
  BY <1>24 DEF ListNodes, TypeOK, StartupOrder
<1>25. ASSUME NEW s \in Sessions, ScheduleNow(s)
      PROVE  TypeOK' /\ StartupOrder'
  <2> USE <1>25 DEF ScheduleNow
  <2>1. PICK f \in Feeds :
          /\ records[s][f] # 0
          /\ feeds' = [feeds EXCEPT ![f] = Upserted(feeds[f], records[s][f], TRUE)]
          /\ bumped' = bumped \cup {g \in {f} : Bumps(g)}
          /\ outdated' = OutdatedBy(s, {f})
    OBVIOUS
  <2>2. records[s][f] \in Versions
    BY <2>1 DEF TypeOK, Versions
  <2>3. Upserted(feeds[f], records[s][f], TRUE) \in FeedState
    BY <2>2, UpsertedType, TrackedState
  <2>4. feeds' \in [Feeds -> FeedState]
    BY <2>1, <2>3 DEF TypeOK
  <2>5. bumped' \in SUBSET Feeds /\ outdated' \in SUBSET Feeds
    BY <2>1 DEF TypeOK, OutdatedBy
  <2>6. /\ pc' \in [Threads -> ThreadState]
        /\ \A v \in Workers : pc'[v] \in {"dispatched", "fetching"} <=> task'[v] # NoTask
    BY NotifiedType DEF TypeOK, Threads
  <2>7. StartupOrder'
    BY DEF StartupOrder, TypeOK
  <2>8. records' \in [Sessions -> [Feeds -> 0..MaxVersion]]
    BY DEF TypeOK
  <2> QED
    BY <2>4, <2>5, <2>6, <2>7, <2>8 DEF TypeOK
<1>26. ASSUME NEW s \in Sessions, ApplyReload(s)
      PROVE  TypeOK' /\ StartupOrder'
  <2> USE <1>26 DEF ApplyReload
  <2> DEFINE mine == {f \in Feeds : Owner[f] = UserOf[s]}
             kept == {i \in 1..Len(readyQueue) :
                        Tracked(readyQueue[i][1]) /\ readyQueue[i][1] \notin mine}
  <2>1. \A f \in mine : Reloaded(records[s][f]) \in FeedState
    <3> SUFFICES ASSUME NEW f \in mine PROVE Reloaded(records[s][f]) \in FeedState
      OBVIOUS
    <3>1. records[s][f] \in 0..MaxVersion
      BY DEF TypeOK
    <3>2. Untracked \in FeedState
      BY DEF FeedState
    <3>3. CASE records[s][f] = 0
      BY <3>2, <3>3 DEF Reloaded
    <3>4. CASE records[s][f] \in Versions
      BY <3>2, <3>4, UpsertedType DEF Reloaded, Versions
    <3> QED
      BY <3>1, <3>3, <3>4 DEF Versions
  <2>2. feeds' \in [Feeds -> FeedState]
    <3>1. feeds' = [f \in Feeds |-> IF f \in mine THEN Reloaded(records[s][f]) ELSE feeds[f]]
      OBVIOUS
    <3> HIDE DEF mine
    <3> QED
      BY <2>1, <3>1 DEF TypeOK
  <2>3. readyQueue' \in Seq(Feeds \X (Nat \ {0}))
    <3>1. readyQueue \in Seq(Entry) /\ kept \in SUBSET (1..Len(readyQueue))
      BY DEF TypeOK, Entry
    <3> QED
      BY <3>1, CompactedKeeps DEF Entry
  <2>4. bumped' \in SUBSET Feeds /\ disturbed' \in SUBSET Feeds /\ outdated' \in SUBSET Feeds
    BY DEF TypeOK, OutdatedBy
  <2>5. /\ pc' \in [Threads -> ThreadState]
        /\ \A v \in Workers : pc'[v] \in {"dispatched", "fetching"} <=> task'[v] # NoTask
    BY NotifiedType DEF TypeOK, Threads
  <2>6. StartupOrder'
    BY DEF StartupOrder, TypeOK
  <2>7. records' \in [Sessions -> [Feeds -> 0..MaxVersion]]
    BY DEF TypeOK
  <2> QED
    BY <2>2, <2>3, <2>4, <2>5, <2>6, <2>7 DEF TypeOK
<1>27. CASE UNCHANGED vars
  BY <1>27 DEF vars, Tracked, TypeOK, StartupOrder
<1> QED
  BY <1>1, <1>2, <1>3, <1>4, <1>5, <1>6, <1>7, <1>8, <1>9, <1>10, <1>11,
     <1>12, <1>13, <1>14, <1>15, <1>16, <1>17, <1>18, <1>19, <1>20, <1>21,
     <1>22, <1>23, <1>24, <1>25, <1>26, <1>27
  DEF Next, MainStep, SchedulerStep, WorkerStep, RequestStep, CallStep, Threads

\* TypeOK, for any constants.
THEOREM TypeCorrect == Spec => [](TypeOK /\ StartupOrder)
BY InitType, StepType, PTL DEF Spec

-----------------------------------------------------------------------------
(* The ready queue                                                           *)

LEMMA Appended ==
  ASSUME NEW m \in Nat, NEW n \in Nat, NEW i \in 1..(m + n)
  PROVE  i \in 1..m \/ \E k \in 1..n : i = m + k
<1>1. CASE i \in 1..m
  BY <1>1
<1>2. CASE i \notin 1..m
  <2>1. i - m \in 1..n /\ i = m + (i - m)
    BY <1>2
  <2> QED
    BY <2>1
<1> QED
  BY <1>1, <1>2

LEMMA InitQueue == Init => QueueSound
BY DEF Init, QueueSound

LEMMA StepQueue ==
  ASSUME TypeOK, StartupOrder, QueueSound, [Next]_vars
  PROVE  QueueSound'
<1> USE DEF store, schedule, threads, calls, startup, history
<1> DEFINE m == Len(readyQueue)
<1>1. ASSUME UNCHANGED <<feeds, readyQueue>>
      PROVE  QueueSound'
  BY <1>1 DEF QueueSound
<1>2. /\ m \in Nat
      /\ \A i \in 1..m : readyQueue[i] \in Entry /\ readyQueue[i][1] \in Feeds
  BY ElementOfSeq DEF TypeOK, Entry
<1>3. ASSUME ClearExisting
      PROVE  QueueSound'
  BY <1>3 DEF ClearExisting, QueueSound
<1>4. ASSUME NEW f \in Feeds, LoadExisting(f)
      PROVE  QueueSound'
  <2> USE <1>4 DEF LoadExisting
  <2>1. feeds[f] = Untracked
    BY DEF StartupOrder
  <2>2. \A i \in 1..m : readyQueue[i][1] # f
    BY <2>1 DEF QueueSound, Untracked
  <2>3. \A i \in 1..m : feeds'[readyQueue[i][1]] = feeds[readyQueue[i][1]]
    BY <1>2, <2>2 DEF TypeOK
  <2> QED
    BY <2>3 DEF QueueSound
<1>5. ASSUME SchedulerPass
      PROVE  QueueSound'
  <2> DEFINE n == Cardinality(DueFeeds)
  <2>0. /\ \E order \in Orders(DueFeeds) :
            readyQueue' = readyQueue \o
              [i \in 1..n |-> <<order[i], feeds[order[i]].generation>>]
        /\ feeds' = [f \in Feeds |->
             IF f \in DueFeeds THEN [feeds[f] EXCEPT !.queued = TRUE] ELSE feeds[f]]
    BY <1>5 DEF SchedulerPass
  <2>1. PICK order \in Orders(DueFeeds) :
          readyQueue' = readyQueue \o
            [i \in 1..n |-> <<order[i], feeds[order[i]].generation>>]
    BY <2>0
  <2>2. /\ n \in Nat
        /\ order \in [1..n -> DueFeeds]
        /\ \A i, j \in 1..n : order[i] = order[j] => i = j
        /\ Len(readyQueue') = m + n
        /\ \A i \in 1..m : readyQueue'[i] = readyQueue[i]
        /\ \A i \in 1..n : readyQueue'[m + i] = <<order[i], feeds[order[i]].generation>>
    BY <2>1, QueuedAfterPass
  <2>3. \A f \in DueFeeds :
          /\ f \in Feeds /\ ~feeds[f].queued
          /\ feeds'[f].queued /\ ~feeds'[f].running
          /\ feeds'[f].generation = feeds[f].generation
          /\ feeds[f].generation \in Nat
    BY <2>0, TrackedState DEF DueFeeds, Startable, FeedState, Untracked
  <2>4. \A i \in 1..m : readyQueue[i][1] \notin DueFeeds
    BY DEF QueueSound, DueFeeds, Startable
  <2>5. \A i \in 1..m : feeds'[readyQueue[i][1]] = feeds[readyQueue[i][1]]
    <3> TAKE i \in 1..m
    <3>1. readyQueue[i][1] \in Feeds /\ readyQueue[i][1] \notin DueFeeds
      BY <1>2, <2>4
    <3> HIDE DEF m
    <3> QED
      BY <2>0, <3>1
  <2>6. ASSUME NEW i \in 1..Len(readyQueue')
        PROVE  i \in 1..m \/ \E k \in 1..n : i = m + k
    <3>1. m \in Nat /\ n \in Nat
      BY <1>2, <2>2
    <3>2. i \in 1..(m + n)
      BY <2>2
    <3> HIDE DEF m, n
    <3> QED
      BY <3>1, <3>2, Appended
  <2>7. ASSUME NEW i \in 1..Len(readyQueue')
        PROVE  LET state == feeds'[readyQueue'[i][1]] IN
                 /\ state.queued /\ ~state.running
                 /\ readyQueue'[i][2] <= state.generation
    <3>1. CASE i \in 1..m
      <4>1. readyQueue'[i] = readyQueue[i] /\ feeds'[readyQueue'[i][1]] = feeds[readyQueue[i][1]]
        BY <2>2, <2>5, <3>1
      <4> QED
        BY <3>1, <4>1 DEF QueueSound
    <3>2. CASE \E k \in 1..n : i = m + k
      <4>1. PICK k \in 1..n : i = m + k
        BY <3>2
      <4>2. readyQueue'[i] = <<order[k], feeds[order[k]].generation>> /\ order[k] \in DueFeeds
        BY <2>2, <4>1
      <4>3. readyQueue'[i][1] = order[k] /\ readyQueue'[i][2] = feeds[order[k]].generation
        BY <4>2
      <4>4. /\ feeds'[order[k]].queued /\ ~feeds'[order[k]].running
            /\ feeds[order[k]].generation <= feeds'[order[k]].generation
        BY <2>3, <4>2
      <4> QED
        BY <4>3, <4>4
    <3> QED
      BY <2>6, <3>1, <3>2
  <2>8. ASSUME NEW i \in 1..Len(readyQueue'), NEW j \in 1..Len(readyQueue'),
               readyQueue'[i][1] = readyQueue'[j][1]
        PROVE  i = j
    <3>1. CASE i \in 1..m /\ j \in 1..m
      <4>1. readyQueue[i][1] = readyQueue[j][1]
        BY <2>2, <2>8, <3>1
      <4> QED
        BY <3>1, <4>1 DEF QueueSound
    <3>2. ASSUME NEW k \in 1..n
          PROVE  readyQueue'[m + k][1] = order[k] /\ order[k] \in DueFeeds
      <4>1. readyQueue'[m + k] = <<order[k], feeds[order[k]].generation>>
        BY <2>2
      <4>2. order[k] \in DueFeeds
        BY <2>2
      <4> QED
        BY <4>1, <4>2
    <3>3. CASE i \in 1..m /\ \E k \in 1..n : j = m + k
      <4>1. PICK k \in 1..n : j = m + k
        BY <3>3
      <4>2. readyQueue[i][1] = order[k]
        BY <2>2, <2>8, <3>2, <3>3, <4>1
      <4> QED
        BY <2>4, <3>2, <3>3, <4>2
    <3>4. CASE j \in 1..m /\ \E k \in 1..n : i = m + k
      <4>1. PICK k \in 1..n : i = m + k
        BY <3>4
      <4>2. readyQueue[j][1] = order[k]
        BY <2>2, <2>8, <3>2, <3>4, <4>1
      <4> QED
        BY <2>4, <3>2, <3>4, <4>2
    <3>5. CASE (\E k \in 1..n : i = m + k) /\ (\E k \in 1..n : j = m + k)
      <4>1. PICK a \in 1..n : i = m + a
        BY <3>5
      <4>2. PICK b \in 1..n : j = m + b
        BY <3>5
      <4>3. order[a] = order[b]
        BY <2>8, <3>2, <4>1, <4>2
      <4> QED
        BY <2>2, <4>1, <4>2, <4>3
    <3> QED
      BY <2>6, <3>1, <3>3, <3>4, <3>5
  <2> QED
    BY <2>7, <2>8 DEF QueueSound
<1>6. ASSUME readyQueue # <<>>, readyQueue' = Tail(readyQueue)
      PROVE  /\ Head(readyQueue) = readyQueue[1] /\ Head(readyQueue)[1] \in Feeds
             /\ m \in Nat \ {0} /\ Len(readyQueue') = m - 1
             /\ \A i \in 1..Len(readyQueue') :
                  /\ i \in 1..m /\ i + 1 \in 1..m
                  /\ readyQueue'[i] = readyQueue[i + 1]
             /\ \A i \in 1..Len(readyQueue') : readyQueue'[i][1] # Head(readyQueue)[1]
             /\ \A i, j \in 1..Len(readyQueue') : readyQueue'[i][1] = readyQueue'[j][1] => i = j
  <2>1. readyQueue \in Seq(Entry)
    BY DEF TypeOK, Entry
  <2>2. /\ Head(readyQueue) = readyQueue[1]
        /\ m \in Nat \ {0} /\ Len(readyQueue') = m - 1
        /\ \A i \in 1..Len(readyQueue') : readyQueue'[i] = readyQueue[i + 1]
    BY <1>6, <2>1, HeadTailProperties, EmptySeq
  <2>3. \A i \in 1..m - 1 : i \in 1..m /\ i + 1 \in 1..m /\ i + 1 # 1
    BY <1>2
  <2>4. 1 \in 1..m
    BY <2>2
  <2>5. \A i \in 1..Len(readyQueue') : readyQueue'[i][1] # readyQueue[1][1]
    BY <2>2, <2>3, <2>4 DEF QueueSound
  <2>6. ASSUME NEW i \in 1..Len(readyQueue'), NEW j \in 1..Len(readyQueue'),
               readyQueue'[i][1] = readyQueue'[j][1]
        PROVE  i = j
    <3>0. i + 1 \in 1..m /\ j + 1 \in 1..m
      BY <2>2, <2>3
    <3>1. i + 1 = j + 1
      <4>1. readyQueue[i + 1][1] = readyQueue[j + 1][1]
        BY <2>2, <2>6
      <4> QED
        BY <3>0, <4>1 DEF QueueSound
    <3>2. i \in Nat /\ j \in Nat
      BY <2>2
    <3> QED
      BY <3>1, <3>2
  <2>7. readyQueue[1][1] \in Feeds
    BY <1>2, <2>4
  <2> QED
    BY <2>2, <2>3, <2>5, <2>6, <2>7
<1>7. ASSUME NEW w \in Workers, Dispatch(w)
      PROVE  QueueSound'
  <2> USE <1>7 DEF Dispatch
  <2>1. \A i \in 1..Len(readyQueue') :
          feeds'[readyQueue'[i][1]] = feeds[readyQueue[i + 1][1]]
    BY <1>2, <1>6 DEF TypeOK
  <2> QED
    BY <1>6, <2>1 DEF QueueSound
<1>8. ASSUME NEW w \in Workers, DiscardStale(w)
      PROVE  QueueSound'
  BY <1>6, <1>8 DEF DiscardStale, QueueSound
<1>9. ASSUME NEW w \in Workers, FinishFetch(w)
      PROVE  QueueSound'
  <2> USE <1>9 DEF FinishFetch
  <2>1. \A f \in Feeds :
          /\ feeds'[f].queued = feeds[f].queued
          /\ feeds'[f].running => feeds[f].running
          /\ feeds'[f].generation = feeds[f].generation
    <3>1. CASE Tracked(task[w][1])
      <4>1. feeds' = [feeds EXCEPT ![task[w][1]] = Finished(feeds[task[w][1]], task[w][2])]
        BY <3>1
      <4>2. feeds[task[w][1]] \in FeedState
        BY DEF TypeOK
      <4> QED
        BY <4>1, <4>2 DEF Finished, TypeOK, FeedState, Untracked
    <3>2. CASE ~Tracked(task[w][1])
      BY <3>2
    <3> QED
      BY <3>1, <3>2
  <2> QED
    BY <1>2, <2>1 DEF QueueSound
<1>10. ASSUME NEW f \in Feeds, Tick(f)
       PROVE  QueueSound'
  <2> USE <1>10 DEF Tick
  <2>1. \A g \in Feeds :
          /\ feeds'[g].queued = feeds[g].queued
          /\ feeds'[g].running = feeds[g].running
          /\ feeds'[g].generation = feeds[g].generation
    BY TrackedState DEF TypeOK, FeedState, Untracked
  <2> QED
    BY <1>2, <2>1 DEF QueueSound
<1>11. ASSUME NEW s \in Sessions, ScheduleNow(s)
       PROVE  QueueSound'
  <2>1. PICK f \in Feeds :
          /\ records[s][f] # 0
          /\ feeds' = [feeds EXCEPT ![f] = Upserted(feeds[f], records[s][f], TRUE)]
          /\ readyQueue' = readyQueue
    BY <1>11 DEF ScheduleNow
  <2>2. \A g \in Feeds :
          /\ feeds'[g].queued = feeds[g].queued
          /\ feeds'[g].running = feeds[g].running
          /\ feeds[g].generation \in Nat
          /\ feeds'[g].generation \in {feeds[g].generation, feeds[g].generation + 1}
    <3> TAKE g \in Feeds
    <3>1. CASE g = f
      <4>1. feeds'[g] = Upserted(feeds[f], records[s][f], TRUE)
        BY <2>1, <3>1 DEF TypeOK
      <4>2. records[s][f] \in Versions /\ feeds[f] \in FeedState
        BY <2>1 DEF TypeOK, Versions
      <4>3. /\ Upserted(feeds[f], records[s][f], TRUE).generation = feeds[f].generation + 1
            /\ Upserted(feeds[f], records[s][f], TRUE).queued = feeds[f].queued
            /\ Upserted(feeds[f], records[s][f], TRUE).running = feeds[f].running
        BY <4>2, UpsertedType
      <4>4. feeds[f].generation \in Nat
        BY TrackedState
      <4>5. feeds'[g].queued = feeds[g].queued /\ feeds'[g].running = feeds[g].running
        BY <3>1, <4>1, <4>3, Zenon
      <4>6. /\ feeds[g].generation \in Nat
            /\ feeds'[g].generation \in {feeds[g].generation, feeds[g].generation + 1}
        BY <3>1, <4>1, <4>3, <4>4, Zenon
      <4> QED
        BY <4>5, <4>6
    <3>2. CASE g # f
      <4>1. feeds'[g] = feeds[g]
        BY <2>1, <3>2 DEF TypeOK
      <4> QED
        BY <4>1, TrackedState
    <3> QED
      BY <3>1, <3>2
  <2>3. \A i \in 1..m : readyQueue[i][2] \in Nat
    BY <1>2 DEF Entry
  <2>4. ASSUME NEW i \in 1..m
        PROVE  LET state == feeds'[readyQueue[i][1]] IN
                 /\ state.queued /\ ~state.running
                 /\ readyQueue[i][2] <= state.generation
    <3> DEFINE g == readyQueue[i][1]
    <3>1. g \in Feeds /\ readyQueue[i][2] \in Nat
      BY <1>2, <2>3
    <3>2. feeds[g].queued /\ ~feeds[g].running /\ readyQueue[i][2] <= feeds[g].generation
      BY DEF QueueSound
    <3> HIDE DEF g, m
    <3>3. /\ feeds'[g].queued /\ ~feeds'[g].running
          /\ feeds[g].generation \in Nat
          /\ feeds'[g].generation \in {feeds[g].generation, feeds[g].generation + 1}
      BY <2>2, <3>1, <3>2
    <3>4. readyQueue[i][2] <= feeds'[g].generation
      BY <3>1, <3>2, <3>3
    <3> QED
      BY <3>3, <3>4 DEF g
  <2> QED
    BY <2>1, <2>4 DEF QueueSound
<1>12. ASSUME NEW s \in Sessions, ApplyReload(s)
       PROVE  QueueSound'
  <2> USE <1>12 DEF ApplyReload
  <2> DEFINE mine == {f \in Feeds : Owner[f] = UserOf[s]}
             kept == {i \in 1..Len(readyQueue) :
                        Tracked(readyQueue[i][1]) /\ readyQueue[i][1] \notin mine}
  <2>1. readyQueue' \in Compacted(readyQueue, kept)
    OBVIOUS
  <2>2. readyQueue \in Seq(Entry)
    BY DEF TypeOK, Entry
  <2>3. PICK h \in [1..Len(readyQueue') -> kept] :
          /\ \A i \in 1..Len(readyQueue') : readyQueue'[i] = readyQueue[h[i]]
          /\ \A i, j \in 1..Len(readyQueue') : h[i] = h[j] => i = j
    <3>1. kept \in SUBSET (1..Len(readyQueue))
      OBVIOUS
    <3> HIDE <1>12 DEF kept, ApplyReload
    <3>2. EachKept(readyQueue, kept, readyQueue')
      BY <2>1, <2>2, <3>1, CompactedKeeps
    <3> QED
      BY <3>2 DEF EachKept
  <2>4. \A f \in Feeds : f \notin mine => feeds'[f] = feeds[f]
    OBVIOUS
  <2>5. \A i \in 1..Len(readyQueue') :
          h[i] \in 1..m /\ readyQueue[h[i]][1] \notin mine
    OBVIOUS
  <2> HIDE DEF mine, kept
  <2>6. ASSUME NEW i \in 1..Len(readyQueue')
        PROVE  /\ h[i] \in 1..m /\ readyQueue'[i] = readyQueue[h[i]]
               /\ feeds'[readyQueue'[i][1]] = feeds[readyQueue[h[i]][1]]
    BY <1>2, <2>3, <2>4, <2>5
  <2>7. ASSUME NEW i \in 1..Len(readyQueue'), NEW j \in 1..Len(readyQueue'),
               readyQueue'[i][1] = readyQueue'[j][1]
        PROVE  i = j
    <3>1. h[i] = h[j]
      BY <2>6, <2>7 DEF QueueSound
    <3> QED
      BY <2>3, <3>1
  <2> QED
    BY <2>6, <2>7 DEF QueueSound
<1>13. ASSUME \/ Start \/ FinishExisting \/ RequestStop \/ NotifyStop \/ JoinThreads
              \/ SchedulerRecheck \/ SchedulerExit
              \/ \E t \in Threads : Block(t)
              \/ \E w \in Workers : WorkerWait(w) \/ WorkerExit(w) \/ BeginFetch(w) \/ AbandonFetch(w)
              \/ \E s \in Sessions : RequestStep(s) \/ ListNodes(s)
              \/ UNCHANGED vars
       PROVE  UNCHANGED <<feeds, readyQueue>>
  BY <1>13 DEF Start, FinishExisting, RequestStop, NotifyStop, JoinThreads, SchedulerRecheck,
               SchedulerExit, Block, WorkerWait, WorkerExit, BeginFetch, AbandonFetch,
               RequestStep, CreateFeed, UpdateFeed, DeleteFeed, UpdateUserSettings, ListNodes,
               vars
<1> QED
  BY <1>1, <1>3, <1>4, <1>5, <1>7, <1>8, <1>9, <1>10, <1>11, <1>12, <1>13
  DEF Next, MainStep, SchedulerStep, WorkerStep, CallStep, Threads

\* The queue holds each feed at most once, and only feeds that are tracked,
\* flagged as queued and not running, whatever sessions and workers do.
THEOREM QueueIsSound == Spec => []QueueSound
<1>1. Init => QueueSound
  BY InitQueue
<1>2. TypeOK /\ StartupOrder /\ QueueSound /\ [Next]_vars => QueueSound'
  BY StepQueue
<1> QED
  BY <1>1, <1>2, TypeCorrect, PTL DEF Spec

-----------------------------------------------------------------------------
(* What the threads owe each other                                           *)

\* What the theorems above say holds in every state
Known == TypeOK /\ StartupOrder /\ QueueSound

LEMMA AlwaysKnown == Spec => []Known
BY TypeCorrect, QueueIsSound, PTL DEF Known

LEMMA WorkersAreThreads ==
  /\ Scheduler \in Threads
  /\ \A w \in Workers : w \in Threads /\ w # Scheduler
BY ConstantsOK DEF Threads

-----------------------------------------------------------------------------
(* Wakeups                                                                   *)

Asleep(p, t) == p[t] \in {"blocking", "waiting"}

\* The scheduler thread waits for the queue to drain unless it is empty, even
\* when it has been woken and has not yet looked.
DrainKnown ==
  pc[Scheduler] \in {"blocking", "waiting", "woken"} /\ waitKind # "drain" =>
    readyQueue = <<>>

Wakes == NoLostWakeup /\ DrainKnown

\* Nobody falls asleep.
NobodySleeps ==
  /\ \A t \in Threads : Asleep(pc', t) => Asleep(pc, t)
  /\ pc'[Scheduler] = "woken" => pc[Scheduler] \in {"blocking", "waiting", "woken"}

LEMMA WakesKept ==
  ASSUME Known, Wakes, NobodySleeps, UNCHANGED <<readyQueue, scheduleChanged, waitKind>>
  PROVE  Wakes'
BY WorkersAreThreads DEF Wakes, NoLostWakeup, DrainKnown, NobodySleeps, Asleep

\* Whoever holds mutex_ and notifies all leaves nobody asleep.
LEMMA AllAwake ==
  ASSUME Known, MutexFree, NEW t \in Threads
  PROVE  ~Asleep(NotifyAll(pc), t)
BY DEF Known, MutexFree, NotifyAll, Asleep

LEMMA WakesNotified ==
  ASSUME Known, Wakes, MutexFree,
         \/ pc' = NotifyAll(pc)
         \/ \E w \in Workers, p \in {"ready", "dispatched"} :
              pc' = [NotifyAll(pc) EXCEPT ![w] = p],
         waitKind' = waitKind, readyQueue' # <<>> => readyQueue # <<>>
  PROVE  Wakes'
<1>1. NotifyAll(pc) \in [Threads -> ThreadState]
  BY NotifiedType DEF Known
<1>2. ASSUME NEW t \in Threads
      PROVE  ~Asleep(pc', t)
  BY <1>1, AllAwake DEF Asleep
<1>3. pc'[Scheduler] = NotifyAll(pc)[Scheduler]
  BY <1>1, WorkersAreThreads
<1>4. pc'[Scheduler] = "woken" => pc[Scheduler] \in {"waiting", "woken"}
  BY <1>3, WorkersAreThreads DEF NotifyAll
<1> QED
  BY <1>2, <1>4, WorkersAreThreads DEF Wakes, NoLostWakeup, DrainKnown, Asleep

LEMMA WakesStep ==
  ASSUME Known, Wakes, [Next]_vars
  PROVE  Wakes'
<1> USE DEF store, schedule, threads, calls, startup, history
<1>1. pc \in [Threads -> ThreadState]
  BY DEF Known, TypeOK
<1>2. ASSUME pc' = pc, UNCHANGED <<readyQueue, scheduleChanged, waitKind>>
      PROVE  Wakes'
  BY <1>2, WakesKept DEF NobodySleeps, Asleep
<1>3. CASE Start
  BY <1>1, <1>3, WakesKept DEF Start, NobodySleeps, Asleep, Threads
<1>4. CASE ClearExisting
  <2>1. readyQueue' = readyQueue
    BY <1>4 DEF ClearExisting, Known, StartupOrder
  <2> QED
    BY <1>2, <1>4, <2>1 DEF ClearExisting
<1>5. CASE FinishExisting
  BY <1>5, WakesNotified DEF FinishExisting
<1>6. CASE NotifyStop
  <2>1. pc' = NotifyAll(pc)
    BY <1>6 DEF NotifyStop
  <2>2. NobodySleeps
    BY <2>1, WorkersAreThreads DEF NobodySleeps, Asleep, NotifyAll
  <2> QED
    BY <1>6, <2>2, WakesKept DEF NotifyStop
<1>7. CASE RequestStop \/ JoinThreads \/ (\E f \in Feeds : LoadExisting(f) \/ Tick(f))
             \/ \E s \in Sessions : RequestStep(s) \/ ListNodes(s)
  BY <1>2, <1>7 DEF RequestStop, JoinThreads, LoadExisting, Tick, RequestStep, CreateFeed,
                    UpdateFeed, DeleteFeed, UpdateUserSettings, ListNodes
<1>8. CASE SchedulerPass
  <2> DEFINE p == IF readyQueue' # <<>> THEN NotifyAll(pc) ELSE pc
  <2>1. /\ pc' = [p EXCEPT ![Scheduler] = "blocking"] /\ scheduleChanged' = FALSE /\ MutexFree
        /\ waitKind' = IF readyQueue' # <<>> THEN "drain"
                       ELSE IF Startable = {} THEN "work" ELSE "timed"
    BY <1>8 DEF SchedulerPass
  <2>2. p \in [Threads -> ThreadState]
    BY <1>1, NotifiedType DEF Known
  <2>3. \A w \in Workers : pc'[w] = p[w]
    BY <2>1, <2>2, WorkersAreThreads
  <2>4. ASSUME readyQueue' # <<>>, NEW w \in Workers
        PROVE  ~Asleep(pc', w)
    BY <2>1, <2>3, <2>4, AllAwake, WorkersAreThreads DEF Asleep
  <2>5. waitKind' = "drain" <=> readyQueue' # <<>>
    BY <2>1
  <2> QED
    BY <2>1, <2>4, <2>5 DEF Wakes, NoLostWakeup, DrainKnown, Asleep
<1>9. CASE SchedulerRecheck
  <2>1. /\ ~WakePredicate /\ pc[Scheduler] = "woken"
        /\ pc' = [pc EXCEPT ![Scheduler] = "blocking"]
        /\ UNCHANGED <<readyQueue, scheduleChanged, waitKind>>
    BY <1>9 DEF SchedulerRecheck
  <2>2. \A w \in Workers : pc'[w] = pc[w]
    BY <1>1, <2>1, WorkersAreThreads
  <2> QED
    BY <2>1, <2>2 DEF Wakes, NoLostWakeup, DrainKnown, WakePredicate
<1>10. CASE SchedulerExit
  BY <1>1, <1>10, WorkersAreThreads, WakesKept DEF SchedulerExit, NobodySleeps, Asleep
<1>11. ASSUME NEW t \in Threads, Block(t)
       PROVE  Wakes'
  BY <1>1, <1>11, WorkersAreThreads, WakesKept DEF Block, NobodySleeps, Asleep
<1>12. ASSUME NEW w \in Workers, WorkerWait(w)
       PROVE  Wakes'
  <2>1. readyQueue = <<>> /\ UNCHANGED <<readyQueue, scheduleChanged, waitKind>>
    BY <1>12 DEF WorkerWait
  <2>2. pc'[Scheduler] = pc[Scheduler]
    BY <1>1, <1>12, WorkersAreThreads DEF WorkerWait
  <2> QED
    BY <2>1, <2>2 DEF Wakes, NoLostWakeup, DrainKnown
<1>13. ASSUME NEW w \in Workers, WorkerExit(w) \/ BeginFetch(w) \/ AbandonFetch(w)
       PROVE  Wakes'
  <2>1. \E p \in {"exited", "fetching", "ready"} : pc' = [pc EXCEPT ![w] = p]
    BY <1>13 DEF WorkerExit, BeginFetch, AbandonFetch
  <2>2. NobodySleeps
    BY <1>1, <2>1, WorkersAreThreads DEF NobodySleeps, Asleep
  <2> QED
    BY <1>13, <2>2, WakesKept DEF WorkerExit, BeginFetch, AbandonFetch
<1>14. ASSUME NEW w \in Workers, Dispatch(w) \/ DiscardStale(w)
       PROVE  Wakes'
  BY <1>14, WakesNotified DEF Dispatch, DiscardStale, AtWorkerTop
<1>15. ASSUME NEW w \in Workers, FinishFetch(w)
       PROVE  Wakes'
  <2>1. CASE Tracked(task[w][1])
    BY <1>15, <2>1, WakesNotified DEF FinishFetch
  <2>2. CASE ~Tracked(task[w][1])
    <3>1. pc' = [pc EXCEPT ![w] = "ready"] /\ UNCHANGED <<readyQueue, scheduleChanged, waitKind>>
      BY <1>15, <2>2 DEF FinishFetch
    <3> QED
      BY <1>1, <3>1, WorkersAreThreads, WakesKept DEF NobodySleeps, Asleep
  <2> QED
    BY <2>1, <2>2
<1>16. ASSUME NEW s \in Sessions, ScheduleNow(s)
       PROVE  Wakes'
  BY <1>16, WakesNotified DEF ScheduleNow
<1>17. ASSUME NEW s \in Sessions, ApplyReload(s)
       PROVE  Wakes'
  <2> DEFINE kept == {i \in 1..Len(readyQueue) :
                        /\ Tracked(readyQueue[i][1])
                        /\ readyQueue[i][1] \notin {f \in Feeds : Owner[f] = UserOf[s]}}
  <2>1. readyQueue' \in Compacted(readyQueue, kept)
    BY <1>17 DEF ApplyReload
  <2>2. readyQueue \in Seq(Entry) /\ kept \in SUBSET (1..Len(readyQueue))
    BY DEF Known, TypeOK, Entry
  <2> HIDE DEF kept
  <2>3. readyQueue' \in Seq(Entry) /\ \E h \in [1..Len(readyQueue') -> kept] : TRUE
    BY <2>1, <2>2, CompactedKeeps DEF EachKept
  <2>4. readyQueue' # <<>> => readyQueue # <<>>
    <3> SUFFICES ASSUME readyQueue' # <<>>, readyQueue = <<>>
                 PROVE  FALSE
      OBVIOUS
    <3>1. Len(readyQueue') \in Nat /\ Len(readyQueue') # 0
      BY <2>3, EmptySeq
    <3>2. 1 \in 1..Len(readyQueue')
      BY <3>1
    <3>3. \E k \in kept : TRUE
      BY <2>3, <3>2
    <3> QED
      BY <2>2, <3>3
  <2> QED
    BY <1>17, <2>4, WakesNotified DEF ApplyReload
<1>18. CASE UNCHANGED vars
  BY <1>2, <1>18 DEF vars
<1> QED
  BY <1>3, <1>4, <1>5, <1>6, <1>7, <1>8, <1>9, <1>10, <1>11, <1>12, <1>13, <1>14, <1>15, <1>16,
     <1>17, <1>18
  DEF Next, MainStep, SchedulerStep, WorkerStep, CallStep, Threads

\* No wakeup is lost, for any feeds, sessions and workers: while there is an entry
\* in ready_queue_ no worker sleeps or is about to, and the scheduler thread
\* sleeps through neither a change of the schedule nor a drained queue.
THEOREM NoWakeupIsLost == Spec => []NoLostWakeup
<1>1. Init => Wakes
  BY WorkersAreThreads DEF Init, Wakes, NoLostWakeup, DrainKnown
<1>2. Known /\ Wakes /\ [Next]_vars => Wakes'
  BY WakesStep
<1> QED
  BY <1>1, <1>2, AlwaysKnown, PTL DEF Spec, Wakes

-----------------------------------------------------------------------------
(* Fetches                                                                   *)

\* A feed somebody is at is flagged, unless a reload has replaced its entry.
FetchesFlagged ==
  \A w \in Workers, f \in Feeds \ disturbed : OnFeed(w, f) => feeds[f].running

Fetches == OneFetchPerFeed /\ FetchesFlagged

\* The tasks stay, or some go, and the flags of those that stay, too.
LEMMA FetchesKept ==
  ASSUME Known, Fetches,
         \A w \in Workers, f \in Feeds : OnFeed(w, f)' =>
            OnFeed(w, f) /\ (f \in disturbed => f \in disturbed'),
         \A w \in Workers, f \in Feeds \ disturbed' :
            OnFeed(w, f)' /\ feeds[f].running => feeds'[f].running
  PROVE  Fetches'
<1>1. ASSUME NEW f \in Feeds \ disturbed', NEW w1 \in Workers, NEW w2 \in Workers,
             OnFeed(w1, f)', OnFeed(w2, f)'
      PROVE  w1 = w2
  <2>1. OnFeed(w1, f) /\ OnFeed(w2, f) /\ f \notin disturbed
    BY <1>1
  <2> QED
    BY <2>1 DEF Fetches, OneFetchPerFeed
<1>2. ASSUME NEW f \in Feeds \ disturbed', NEW w \in Workers, OnFeed(w, f)'
      PROVE  feeds'[f].running
  <2>1. OnFeed(w, f) /\ f \notin disturbed
    BY <1>2
  <2>2. feeds[f].running
    BY <2>1 DEF Fetches, FetchesFlagged
  <2> QED
    BY <1>2, <2>2
<1>3. OneFetchPerFeed'
  BY <1>1 DEF OneFetchPerFeed
<1>4. FetchesFlagged'
  BY <1>2 DEF FetchesFlagged
<1> QED
  BY <1>3, <1>4 DEF Fetches

\* A worker leaves its feed: whoever is left on it is so after a reload.
LEMMA FetchesLeft ==
  ASSUME Known, Fetches, NEW w \in Workers,
         task' = [task EXCEPT ![w] = NoTask], disturbed' = Undisturbed(w),
         \A f \in Feeds : ~OnFeed(w, f) => feeds'[f].running = feeds[f].running
  PROVE  Fetches'
<1>1. ASSUME NEW v \in Workers, NEW f \in Feeds, OnFeed(v, f)'
      PROVE  v # w /\ OnFeed(v, f) /\ (f \in disturbed => f \in disturbed')
  BY <1>1 DEF OnFeed, Undisturbed, Known, TypeOK
<1>2. ASSUME NEW v \in Workers, NEW f \in Feeds \ disturbed', OnFeed(v, f)', feeds[f].running
      PROVE  feeds'[f].running
  <2>1. v # w /\ OnFeed(v, f) /\ f \notin disturbed
    BY <1>1, <1>2
  <2>2. ~OnFeed(w, f)
    BY <2>1 DEF Fetches, OneFetchPerFeed
  <2> QED
    BY <1>2, <2>2
<1> QED
  BY <1>1, <1>2, FetchesKept

LEMMA FetchesStep ==
  ASSUME Known, Fetches, [Next]_vars
  PROVE  Fetches'
<1> USE DEF store, schedule, threads, calls, startup, history
<1>1. ASSUME task' = task, disturbed' = disturbed,
             \A f \in Feeds : feeds[f].running => feeds'[f].running
      PROVE  Fetches'
  BY <1>1, FetchesKept DEF OnFeed
<1>2. CASE \/ Start \/ FinishExisting \/ RequestStop \/ NotifyStop \/ JoinThreads
           \/ SchedulerRecheck \/ SchedulerExit
           \/ \E t \in Threads : Block(t)
           \/ \E w \in Workers : WorkerWait(w) \/ WorkerExit(w) \/ BeginFetch(w) \/ DiscardStale(w)
           \/ \E s \in Sessions : RequestStep(s) \/ ListNodes(s)
           \/ UNCHANGED vars
  BY <1>1, <1>2 DEF Start, FinishExisting, RequestStop, NotifyStop, JoinThreads, SchedulerRecheck,
       SchedulerExit, Block, WorkerWait, WorkerExit, BeginFetch, DiscardStale,
       RequestStep, CreateFeed, UpdateFeed, DeleteFeed, UpdateUserSettings, ListNodes, vars
<1>3. CASE ClearExisting
  <2>1. \A w \in Workers : task'[w] = NoTask
    BY <1>3 DEF ClearExisting, Known, StartupOrder
  <2> QED
    BY <2>1 DEF Fetches, OneFetchPerFeed, FetchesFlagged, OnFeed
<1>4. ASSUME NEW f \in Feeds, LoadExisting(f)
      PROVE  Fetches'
  <2>1. feeds[f] = Untracked
    BY <1>4 DEF LoadExisting, Known, StartupOrder
  <2>2. ~feeds[f].running
    BY <2>1 DEF Untracked
  <2>3. \A g \in Feeds : g # f => feeds'[g] = feeds[g]
    BY <1>4 DEF LoadExisting, Known, TypeOK
  <2>4. \A g \in Feeds : feeds[g].running => feeds'[g].running
    BY <2>2, <2>3
  <2> QED
    BY <1>1, <1>4, <2>4 DEF LoadExisting
<1>5. CASE SchedulerPass
  <2>1. feeds' = [f \in Feeds |-> IF f \in DueFeeds THEN [feeds[f] EXCEPT !.queued = TRUE]
                                  ELSE feeds[f]]
    BY <1>5 DEF SchedulerPass
  <2>2. \A f \in Feeds : feeds[f].running => feeds'[f].running
    BY <2>1 DEF DueFeeds, Startable
  <2> QED
    BY <1>1, <1>5, <2>2 DEF SchedulerPass
<1>6. ASSUME NEW w \in Workers, Dispatch(w)
      PROVE  Fetches'
  <2> DEFINE f == Head(readyQueue)[1]
  <2>1. readyQueue \in Seq(Entry) /\ readyQueue # <<>>
    BY <1>6 DEF Dispatch, Known, TypeOK, Entry
  <2>2. Head(readyQueue) \in Entry /\ Head(readyQueue) = readyQueue[1] /\ 1 \in 1..Len(readyQueue)
    BY <2>1, HeadTailProperties, EmptySeq
  <2>3. f \in Feeds /\ Head(readyQueue) # NoTask /\ ~feeds[f].running
    BY <2>2, ConstantsOK DEF Entry, Known, QueueSound
  <2>4. /\ task' = [task EXCEPT ![w] = Head(readyQueue)] /\ disturbed' = disturbed
        /\ feeds' = [feeds EXCEPT ![f] = [@ EXCEPT !.queued = FALSE, !.running = TRUE]]
        /\ pc[w] \in {"ready", "woken"}
    BY <1>6 DEF Dispatch, AtWorkerTop
  <2>5. \A v \in Workers, g \in Feeds : OnFeed(v, g)' <=> (v = w /\ g = f) \/ (v # w /\ OnFeed(v, g))
    BY <2>3, <2>4 DEF OnFeed, Known, TypeOK
  <2>6. feeds'[f].running /\ \A g \in Feeds : g # f => feeds'[g] = feeds[g]
    <3>1. feeds[f] \in [node : Versions, generation : Nat \ {0}, queued : BOOLEAN,
                        running : BOOLEAN, due : BOOLEAN]
      BY <2>2, <2>3, TrackedState DEF Known, QueueSound
    <3> QED
      BY <2>3, <2>4, <3>1 DEF Known, TypeOK
  <2> HIDE DEF f
  <2>7. \A v \in Workers : f \notin disturbed => ~OnFeed(v, f)
    BY <2>3 DEF Fetches, FetchesFlagged
  <2>8. OneFetchPerFeed'
    BY <2>4, <2>5, <2>7 DEF OneFetchPerFeed, Fetches
  <2>9. FetchesFlagged'
    BY <2>4, <2>5, <2>6 DEF FetchesFlagged, Fetches
  <2> QED
    BY <2>8, <2>9 DEF Fetches
<1>7. ASSUME NEW w \in Workers, AbandonFetch(w)
      PROVE  Fetches'
  BY <1>7, FetchesLeft DEF AbandonFetch
<1>8. ASSUME NEW w \in Workers, FinishFetch(w)
      PROVE  Fetches'
  <2>1. task' = [task EXCEPT ![w] = NoTask] /\ disturbed' = Undisturbed(w)
    BY <1>8 DEF FinishFetch
  <2>2. task[w] # NoTask
    BY <1>8 DEF FinishFetch, Known, TypeOK
  <2>3. \A f \in Feeds : ~OnFeed(w, f) => feeds'[f] = feeds[f]
    BY <1>8, <2>2 DEF FinishFetch, OnFeed, Known, TypeOK
  <2> QED
    BY <2>1, <2>3, FetchesLeft
<1>9. ASSUME NEW f \in Feeds, Tick(f)
      PROVE  Fetches'
  <2>1. feeds' = [feeds EXCEPT ![f].due = TRUE] /\ task' = task /\ disturbed' = disturbed
    BY <1>9 DEF Tick
  <2>2. feeds[f] \in [node : Versions, generation : Nat \ {0}, queued : BOOLEAN,
                      running : BOOLEAN, due : BOOLEAN]
    BY <1>9, TrackedState DEF Tick, Known
  <2>3. \A g \in Feeds : feeds'[g].running = feeds[g].running
    BY <2>1, <2>2 DEF Known, TypeOK
  <2> QED
    BY <1>1, <2>1, <2>3
<1>10. ASSUME NEW s \in Sessions, ScheduleNow(s)
       PROVE  Fetches'
  <2>1. PICK f \in Feeds : feeds' = [feeds EXCEPT ![f] = Upserted(feeds[f], records[s][f], TRUE)]
    BY <1>10 DEF ScheduleNow
  <2>2. Upserted(feeds[f], records[s][f], TRUE).running = feeds[f].running
    BY DEF Upserted
  <2>3. \A g \in Feeds : feeds'[g].running = feeds[g].running
    BY <2>1, <2>2 DEF Known, TypeOK
  <2> QED
    BY <1>1, <1>10, <2>3 DEF ScheduleNow
<1>11. ASSUME NEW s \in Sessions, ApplyReload(s)
       PROVE  Fetches'
  <2> DEFINE mine == {f \in Feeds : Owner[f] = UserOf[s]}
  <2>1. /\ feeds' = [f \in Feeds |-> IF f \in mine THEN Reloaded(records[s][f]) ELSE feeds[f]]
        /\ disturbed' = disturbed \cup {f \in mine : \E w \in Workers : OnFeed(w, f)}
        /\ task' = task
    BY <1>11 DEF ApplyReload
  <2>2. ASSUME NEW w \in Workers, NEW f \in Feeds, OnFeed(w, f)'
        PROVE  OnFeed(w, f) /\ (f \in disturbed => f \in disturbed')
    BY <2>1, <2>2 DEF OnFeed
  <2>3. ASSUME NEW w \in Workers, NEW f \in Feeds \ disturbed', OnFeed(w, f)'
        PROVE  feeds'[f] = feeds[f]
    BY <2>1, <2>2, <2>3
  <2> QED
    BY <2>2, <2>3, FetchesKept
<1> QED
  BY <1>2, <1>3, <1>4, <1>5, <1>6, <1>7, <1>8, <1>9, <1>10, <1>11
  DEF Next, MainStep, SchedulerStep, WorkerStep, CallStep, Threads

\* No two workers fetch a feed at once, for any number of workers and of calls of
\* the sessions, except after reloadUserFeeds has replaced the entry of a feed
\* under a worker, until the last worker has left it.
THEOREM NoFeedIsFetchedTwice == Spec => []OneFetchPerFeed
<1>1. Init => Fetches
  BY DEF Init, Fetches, OneFetchPerFeed, FetchesFlagged, OnFeed
<1>2. Known /\ Fetches /\ [Next]_vars => Fetches'
  BY FetchesStep
<1> QED
  BY <1>1, <1>2, AlwaysKnown, PTL DEF Spec, Fetches

-----------------------------------------------------------------------------
(* Flags                                                                     *)

Current(f) == <<f, feeds[f].generation>>

QueuedHeld(f) == feeds[f].queued => \E i \in 1..Len(readyQueue) : readyQueue[i] = Current(f)

Clears(w, f) == OnFeed(w, f) /\ (pc[w] = "fetching" \/ task[w][2] = feeds[f].generation)

RunningHeld(f) == feeds[f].running => \E w \in Workers : Clears(w, f)

Held(f) == QueuedHeld(f) /\ RunningHeld(f)

LEMMA FlagsAre == FlagsAccounted <=> \A f \in Feeds \ bumped : Held(f)
BY DEF FlagsAccounted, Held, QueuedHeld, RunningHeld, Current, Clears

\* The entry of the queue that stands for the flag stays, ...
LEMMA QueuedKept ==
  ASSUME NEW f, QueuedHeld(f), feeds'[f].queued => feeds[f].queued,
         feeds'[f].generation = feeds[f].generation,
         \A i \in 1..Len(readyQueue) : feeds[f].queued /\ readyQueue[i] = Current(f) =>
            \E j \in 1..Len(readyQueue') : readyQueue'[j] = readyQueue[i]
  PROVE  QueuedHeld(f)'
BY DEF QueuedHeld, Current

\* ... and so does the worker.
LEMMA RunningKept ==
  ASSUME NEW f, RunningHeld(f), feeds'[f].running => feeds[f].running,
         feeds'[f].generation = feeds[f].generation,
         \A w \in Workers : Clears(w, f) =>
            task'[w] = task[w] /\ (pc[w] = "fetching" => pc'[w] = "fetching")
  PROVE  RunningHeld(f)'
BY DEF RunningHeld, Clears, OnFeed

LEMMA WhileFetching ==
  ASSUME Known
  PROVE  /\ \A w \in Workers : pc[w] = "fetching" => NotifyAll(pc)[w] = "fetching"
         /\ NotifyAll(pc) \in [Threads -> ThreadState]
         /\ pc \in [Threads -> ThreadState]
BY NotifiedType, WorkersAreThreads DEF Known, NotifyAll, TypeOK

\* Removing the head of the queue keeps every other entry.
LEMMA HeadGone ==
  ASSUME Known, readyQueue # <<>>, readyQueue' = Tail(readyQueue),
         NEW i \in 1..Len(readyQueue), readyQueue[i] # Head(readyQueue)
  PROVE  \E j \in 1..Len(readyQueue') : readyQueue'[j] = readyQueue[i]
<1>1. readyQueue \in Seq(Entry)
  BY DEF Known, TypeOK, Entry
<1>2. /\ Head(readyQueue) = readyQueue[1] /\ Len(readyQueue) \in Nat
      /\ Len(readyQueue') = Len(readyQueue) - 1
      /\ \A j \in 1..Len(readyQueue') : readyQueue'[j] = readyQueue[j + 1]
  BY <1>1, HeadTailProperties
<1>3. i # 1
  BY <1>2
<1>4. i - 1 \in 1..Len(readyQueue') /\ (i - 1) + 1 = i
  BY <1>2, <1>3
<1> QED
  BY <1>2, <1>4

\* Compacted loses no entry that is to be kept.
LEMMA CompactedLosesNone ==
  ASSUME NEW q \in Seq(Entry), NEW keep \in SUBSET (1..Len(q)), NEW r \in Compacted(q, keep),
         NEW k \in keep
  PROVE  \E j \in 1..Len(r) : r[j] = q[k]
<1>1. EachKept(q, keep, r)
  BY CompactedKeeps
<1> QED
  BY <1>1 DEF EachKept

LEMMA FlagsStep ==
  ASSUME Known, FlagsAccounted, [Next]_vars
  PROVE  FlagsAccounted'
<1> SUFFICES ASSUME NEW f \in Feeds \ bumped'
             PROVE  Held(f)'
  <2>1. FlagsAccounted' <=> \A f \in Feeds \ bumped' : Held(f)'
    BY DEF FlagsAccounted, Held, QueuedHeld, RunningHeld, Current, Clears
  <2> QED
    BY <2>1
<1> USE DEF store, schedule, threads, calls, startup, history
<1>1. ASSUME bumped \subseteq bumped'
      PROVE  QueuedHeld(f) /\ RunningHeld(f)
  BY <1>1, FlagsAre DEF Held
<1>2. ASSUME ~feeds'[f].queued, ~feeds'[f].running
      PROVE  Held(f)'
  BY <1>2 DEF Held, QueuedHeld, RunningHeld
\* Nothing but pc changes, and whoever fetches goes on.
<1>3. ASSUME UNCHANGED <<readyQueue, task, bumped>>, feeds'[f] = feeds[f],
             \A w \in Workers : pc[w] = "fetching" => pc'[w] = "fetching"
      PROVE  Held(f)'
  BY <1>1, <1>3, QueuedKept, RunningKept DEF Held
<1>4. CASE \/ RequestStop \/ JoinThreads
           \/ \E s \in Sessions : RequestStep(s) \/ ListNodes(s)
           \/ UNCHANGED vars
  BY <1>3, <1>4 DEF RequestStop, JoinThreads, RequestStep, CreateFeed, UpdateFeed, DeleteFeed,
                    UpdateUserSettings, ListNodes, vars
<1>5. CASE Start
  <2>1. \A w \in Workers : pc[w] # "fetching"
    BY <1>5, WorkersAreThreads DEF Start, Known, StartupOrder
  <2> QED
    BY <1>3, <1>5, <2>1 DEF Start
<1>6. CASE FinishExisting \/ NotifyStop
  BY <1>3, <1>6, WhileFetching DEF FinishExisting, NotifyStop
<1>7. CASE \/ SchedulerRecheck \/ SchedulerExit \/ \E t \in Threads : Block(t)
           \/ \E w \in Workers : WorkerWait(w) \/ WorkerExit(w) \/ BeginFetch(w)
  <2>1. \E t \in Threads, p \in ThreadState :
          /\ pc' = [pc EXCEPT ![t] = p] /\ (pc[t] = "fetching" => t \notin Workers \/ p = "fetching")
    BY <1>7, WorkersAreThreads DEF SchedulerRecheck, SchedulerExit, Block, WorkerWait, WorkerExit,
                                   BeginFetch, AtWorkerTop, ThreadState
  <2>2. \A w \in Workers : pc[w] = "fetching" => pc'[w] = "fetching"
    BY <2>1, WhileFetching, WorkersAreThreads
  <2> QED
    BY <1>3, <1>7, <2>2 DEF SchedulerRecheck, SchedulerExit, Block, WorkerWait, WorkerExit, BeginFetch
<1>8. CASE ClearExisting
  BY <1>2, <1>8 DEF ClearExisting, Untracked
<1>9. ASSUME NEW g \in Feeds, LoadExisting(g)
      PROVE  Held(f)'
  <2>1. feeds' = [feeds EXCEPT ![g] = Upserted(feeds[g], version[g], FALSE)] /\ feeds[g] = Untracked
    BY <1>9 DEF LoadExisting, Known, StartupOrder
  <2>2. CASE f = g
    <3>1. feeds'[f] = Upserted(Untracked, version[g], FALSE)
      BY <2>1, <2>2 DEF Known, TypeOK
    <3> QED
      BY <1>2, <3>1 DEF Upserted, Untracked
  <2>3. CASE f # g
    BY <1>3, <1>9, <2>1, <2>3 DEF LoadExisting, Known, TypeOK
  <2> QED
    BY <2>2, <2>3
<1>10. CASE SchedulerPass
  <2> DEFINE n == Cardinality(DueFeeds)
             m == Len(readyQueue)
  <2>1. /\ \E order \in Orders(DueFeeds) :
             readyQueue' = readyQueue \o
               [i \in 1..n |-> <<order[i], feeds[order[i]].generation>>]
        /\ feeds' = [g \in Feeds |->
             IF g \in DueFeeds THEN [feeds[g] EXCEPT !.queued = TRUE] ELSE feeds[g]]
        /\ pc' = [(IF readyQueue' # <<>> THEN NotifyAll(pc) ELSE pc)
                    EXCEPT ![Scheduler] = "blocking"]
        /\ UNCHANGED <<task, bumped>>
    BY <1>10 DEF SchedulerPass
  <2>2. PICK order \in Orders(DueFeeds) :
          readyQueue' = readyQueue \o
            [i \in 1..n |-> <<order[i], feeds[order[i]].generation>>]
    BY <2>1
  <2>3. /\ n \in Nat /\ m \in Nat
        /\ \A x \in DueFeeds : \E i \in 1..n : order[i] = x
        /\ Len(readyQueue') = m + n
        /\ \A i \in 1..m : readyQueue'[i] = readyQueue[i]
        /\ \A i \in 1..n : readyQueue'[m + i] = <<order[i], feeds[order[i]].generation>>
    <3>1. TypeOK
      BY DEF Known
    <3>2. m \in Nat
      BY <3>1 DEF TypeOK
    <3> QED
      BY <2>2, <3>1, <3>2, QueuedAfterPass
  <2>4. \A w \in Workers : pc[w] = "fetching" => pc'[w] = "fetching"
    BY <2>1, WhileFetching, WorkersAreThreads
  <2>5. CASE f \in DueFeeds
    <3>1. feeds'[f].generation = feeds[f].generation /\ ~feeds'[f].running
      BY <2>1, <2>5, TrackedState DEF Known, DueFeeds, Startable, FeedState, Untracked
    <3>2. PICK i \in 1..n : order[i] = f
      BY <2>3, <2>5
    <3>3. m + i \in 1..(m + n)
      BY <2>3
    <3>4. readyQueue'[m + i] = <<f, feeds'[f].generation>>
      BY <2>3, <3>1, <3>2
    <3> HIDE DEF m, n
    <3>5. QueuedHeld(f)'
      BY <2>3, <3>3, <3>4 DEF QueuedHeld, Current
    <3> QED
      BY <3>1, <3>5 DEF Held, RunningHeld
  <2>6. CASE f \notin DueFeeds
    <3>1. feeds'[f] = feeds[f]
      BY <2>1, <2>6
    <3>2. \A i \in 1..m : i \in 1..Len(readyQueue') /\ readyQueue'[i] = readyQueue[i]
      BY <2>3
    <3> QED
      BY <1>1, <2>1, <2>4, <3>1, <3>2, QueuedKept, RunningKept DEF Held
  <2> QED
    BY <2>5, <2>6
<1>11. ASSUME NEW w \in Workers, Dispatch(w)
       PROVE  Held(f)'
  <2> DEFINE h == Head(readyQueue)
  <2>1. readyQueue \in Seq(Entry) /\ readyQueue # <<>>
    BY <1>11 DEF Dispatch, Known, TypeOK, Entry
  <2>2. h \in Entry /\ h = readyQueue[1] /\ 1 \in 1..Len(readyQueue)
    BY <2>1, HeadTailProperties, EmptySeq
  <2>3. h[1] \in Feeds /\ h # NoTask
    BY <2>2, ConstantsOK DEF Entry
  <2>4. /\ feeds[h[1]].generation = h[2]
        /\ feeds' = [feeds EXCEPT ![h[1]] = [@ EXCEPT !.queued = FALSE, !.running = TRUE]]
        /\ task' = [task EXCEPT ![w] = h] /\ readyQueue' = Tail(readyQueue)
        /\ pc' = [NotifyAll(pc) EXCEPT ![w] = "dispatched"] /\ bumped' = bumped
        /\ pc[w] \in {"ready", "woken"}
    BY <1>11 DEF Dispatch, AtWorkerTop
  <2>5. task[w] = NoTask
    BY <2>4 DEF Known, TypeOK
  <2> HIDE DEF h
  <2>6. CASE f = h[1]
    <3>1. feeds[f] \in [node : Versions, generation : Nat \ {0}, queued : BOOLEAN,
                        running : BOOLEAN, due : BOOLEAN]
      BY <2>2, <2>3, <2>6, TrackedState DEF Known, QueueSound
    <3>2. ~feeds'[f].queued /\ feeds'[f].generation = feeds[f].generation
      BY <2>3, <2>4, <2>6, <3>1 DEF Known, TypeOK
    <3>3. task'[w] = h
      BY <2>4 DEF Known, TypeOK
    <3>4. Clears(w, f)'
      BY <2>3, <2>4, <2>6, <3>2, <3>3 DEF Clears, OnFeed
    <3> QED
      BY <3>2, <3>4 DEF Held, QueuedHeld, RunningHeld
  <2>7. CASE f # h[1]
    <3>1. feeds'[f] = feeds[f]
      BY <2>4, <2>7 DEF Known, TypeOK
    <3>2. \A i \in 1..Len(readyQueue) : readyQueue[i] = Current(f) =>
            \E j \in 1..Len(readyQueue') : readyQueue'[j] = readyQueue[i]
      <4>1. Current(f) # Head(readyQueue)
        BY <2>7 DEF Current, h
      <4> QED
        BY <2>1, <2>4, <4>1, HeadGone
    <3>3. \A v \in Workers : Clears(v, f) =>
            task'[v] = task[v] /\ (pc[v] = "fetching" => pc'[v] = "fetching")
      BY <2>4, <2>5, WhileFetching, WorkersAreThreads DEF Clears, OnFeed, Known, TypeOK
    <3> QED
      BY <1>1, <2>4, <3>1, <3>2, <3>3, QueuedKept, RunningKept DEF Held
  <2> QED
    BY <2>6, <2>7
<1>12. ASSUME NEW w \in Workers, DiscardStale(w)
       PROVE  Held(f)'
  <2>1. /\ readyQueue # <<>> /\ feeds[Head(readyQueue)[1]].generation # Head(readyQueue)[2]
        /\ readyQueue' = Tail(readyQueue) /\ pc' = [NotifyAll(pc) EXCEPT ![w] = "ready"]
        /\ UNCHANGED <<feeds, task, bumped>> /\ pc[w] \in {"ready", "woken"}
    BY <1>12 DEF DiscardStale, AtWorkerTop
  <2>2. Current(f) # Head(readyQueue)
    BY <2>1 DEF Current
  <2>3. \A i \in 1..Len(readyQueue) : readyQueue[i] = Current(f) =>
          \E j \in 1..Len(readyQueue') : readyQueue'[j] = readyQueue[i]
    BY <2>1, <2>2, HeadGone
  <2>4. \A v \in Workers : pc[v] = "fetching" => pc'[v] = "fetching"
    BY <2>1, WhileFetching, WorkersAreThreads
  <2> QED
    BY <1>1, <2>1, <2>3, <2>4, QueuedKept, RunningKept DEF Held
<1>13. ASSUME NEW w \in Workers, AbandonFetch(w)
       PROVE  Held(f)'
  <2>1. /\ pc[w] = "dispatched" /\ feeds[task[w][1]].generation # task[w][2]
        /\ pc' = [pc EXCEPT ![w] = "ready"] /\ task' = [task EXCEPT ![w] = NoTask]
        /\ UNCHANGED <<feeds, readyQueue, bumped>>
    BY <1>13 DEF AbandonFetch
  <2>2. ~Clears(w, f)
    BY <2>1 DEF Clears, OnFeed
  <2>3. \A v \in Workers : Clears(v, f) =>
          task'[v] = task[v] /\ (pc[v] = "fetching" => pc'[v] = "fetching")
    BY <2>1, <2>2, WhileFetching, WorkersAreThreads DEF Known, TypeOK
  <2> QED
    BY <1>1, <2>1, <2>3, QueuedKept, RunningKept DEF Held
<1>14. ASSUME NEW w \in Workers, FinishFetch(w)
       PROVE  Held(f)'
  <2>1. /\ pc[w] = "fetching" /\ task' = [task EXCEPT ![w] = NoTask]
        /\ UNCHANGED <<readyQueue, bumped>>
        /\ \/ pc' = [pc EXCEPT ![w] = "ready"]
           \/ pc' = [NotifyAll(pc) EXCEPT ![w] = "ready"]
    BY <1>14 DEF FinishFetch
  <2>2. task[w] # NoTask /\ task[w][1] \in Feeds
    BY <2>1 DEF Known, TypeOK
  <2>3. /\ feeds'[f].queued = feeds[f].queued /\ feeds'[f].generation = feeds[f].generation
        /\ feeds'[f].running => feeds[f].running
        /\ OnFeed(w, f) => ~feeds'[f].running
    <3>1. CASE f = task[w][1] /\ Tracked(f)
      <4>1. feeds'[f] = Finished(feeds[f], task[w][2])
        BY <1>14, <3>1 DEF FinishFetch, Known, TypeOK
      <4>2. feeds[f] \in [node : Versions, generation : Nat \ {0}, queued : BOOLEAN,
                          running : BOOLEAN, due : BOOLEAN]
        BY <3>1, TrackedState DEF Known
      <4> QED
        BY <4>1, <4>2 DEF Finished
    <3>2. CASE f = task[w][1] /\ ~Tracked(f)
      <4>1. feeds' = feeds /\ feeds[f] = Untracked
        BY <1>14, <3>2, TrackedState DEF FinishFetch, Known
      <4> QED
        BY <4>1 DEF Untracked
    <3>3. CASE f # task[w][1]
      BY <1>14, <3>3 DEF FinishFetch, OnFeed, Known, TypeOK
    <3> QED
      BY <3>1, <3>2, <3>3
  <2>4. QueuedHeld(f)'
    BY <1>1, <2>1, <2>3, QueuedKept
  <2>5. CASE OnFeed(w, f)
    BY <2>3, <2>4, <2>5 DEF Held, RunningHeld
  <2>6. CASE ~OnFeed(w, f)
    <3>1. \A v \in Workers : Clears(v, f) =>
            task'[v] = task[v] /\ (pc[v] = "fetching" => pc'[v] = "fetching")
      BY <2>1, <2>6, WhileFetching, WorkersAreThreads DEF Clears, Known, TypeOK
    <3> QED
      BY <1>1, <2>1, <2>3, <2>4, <3>1, RunningKept DEF Held
  <2> QED
    BY <2>5, <2>6
<1>15. ASSUME NEW g \in Feeds, Tick(g)
       PROVE  Held(f)'
  <2>1. feeds' = [feeds EXCEPT ![g].due = TRUE] /\ UNCHANGED <<readyQueue, task, pc, bumped>>
    BY <1>15 DEF Tick
  <2>2. feeds[g] \in [node : Versions, generation : Nat \ {0}, queued : BOOLEAN,
                      running : BOOLEAN, due : BOOLEAN]
    BY <1>15, TrackedState DEF Tick, Known
  <2>3. /\ feeds'[f].queued = feeds[f].queued /\ feeds'[f].running = feeds[f].running
        /\ feeds'[f].generation = feeds[f].generation
    BY <2>1, <2>2 DEF Known, TypeOK
  <2> QED
    BY <1>1, <2>1, <2>3, QueuedKept, RunningKept DEF Held
<1>16. ASSUME NEW s \in Sessions, ScheduleNow(s)
       PROVE  Held(f)'
  <2>1. PICK g \in Feeds :
          /\ feeds' = [feeds EXCEPT ![g] = Upserted(feeds[g], records[s][g], TRUE)]
          /\ bumped' = bumped \cup {x \in {g} : Bumps(x)}
    BY <1>16 DEF ScheduleNow
  <2>2. pc' = NotifyAll(pc) /\ UNCHANGED <<readyQueue, task>>
    BY <1>16 DEF ScheduleNow
  <2>3. \A w \in Workers : pc[w] = "fetching" => pc'[w] = "fetching"
    BY <2>2, WhileFetching
  <2>4. CASE f = g
    <3>1. ~Bumps(f)
      BY <2>1, <2>4
    <3>2. feeds'[f] = Upserted(feeds[f], records[s][f], TRUE)
      BY <2>1, <2>4 DEF Known, TypeOK
    <3>3. ~feeds'[f].queued /\ feeds'[f].running = feeds[f].running
      BY <3>1, <3>2 DEF Upserted, Bumps
    <3>4. ASSUME feeds[f].running
          PROVE  \E w \in Workers : OnFeed(w, f) /\ pc[w] = "fetching"
      <4>1. PICK w \in Workers : Clears(w, f)
        BY <1>1, <2>1, <3>4 DEF RunningHeld
      <4>2. pc[w] \in {"dispatched", "fetching"}
        BY <4>1 DEF Clears, OnFeed, Known, TypeOK
      <4> QED
        BY <3>1, <4>1, <4>2 DEF Bumps, Clears
    <3>5. RunningHeld(f)'
      BY <2>2, <2>3, <3>3, <3>4 DEF RunningHeld, Clears, OnFeed
    <3> QED
      BY <3>3, <3>5 DEF Held, QueuedHeld
  <2>5. CASE f # g
    <3>1. feeds'[f] = feeds[f] /\ bumped \subseteq bumped'
      BY <2>1, <2>5 DEF Known, TypeOK
    <3> QED
      BY <1>1, <2>2, <2>3, <3>1, QueuedKept, RunningKept DEF Held
  <2> QED
    BY <2>4, <2>5
<1>17. ASSUME NEW s \in Sessions, ApplyReload(s)
       PROVE  Held(f)'
  <2> DEFINE mine == {g \in Feeds : Owner[g] = UserOf[s]}
             kept == {i \in 1..Len(readyQueue) :
                        Tracked(readyQueue[i][1]) /\ readyQueue[i][1] \notin mine}
  <2>1. /\ feeds' = [g \in Feeds |-> IF g \in mine THEN Reloaded(records[s][g]) ELSE feeds[g]]
        /\ readyQueue' \in Compacted(readyQueue, kept)
        /\ bumped' = bumped \ mine /\ pc' = NotifyAll(pc) /\ task' = task
    BY <1>17 DEF ApplyReload
  <2>2. CASE f \in mine
    <3>1. feeds'[f] = Reloaded(records[s][f])
      BY <2>1, <2>2
    <3> QED
      BY <1>2, <3>1 DEF Reloaded, Upserted, Untracked
  <2>3. CASE f \notin mine
    <3>1. feeds'[f] = feeds[f] /\ f \notin bumped
      BY <2>1, <2>3
    <3>2. Held(f)
      BY <3>1, FlagsAre
    <3>3. readyQueue \in Seq(Entry) /\ kept \in SUBSET (1..Len(readyQueue))
      BY DEF Known, TypeOK, Entry
    <3>4. \A i \in 1..Len(readyQueue) :
            feeds[f].queued /\ readyQueue[i] = Current(f) => i \in kept
      BY <2>3, TrackedState DEF Known, Current
    <3> HIDE DEF kept
    <3>5. ASSUME NEW i \in kept
          PROVE  \E j \in 1..Len(readyQueue') : readyQueue'[j] = readyQueue[i]
      <4>1. readyQueue' \in Compacted(readyQueue, kept)
        BY <2>1
      <4> QED
        BY <3>3, <4>1, CompactedLosesNone
    <3>6. \A w \in Workers : pc[w] = "fetching" => pc'[w] = "fetching"
      BY <2>1, WhileFetching
    <3> QED
      BY <2>1, <3>1, <3>2, <3>4, <3>5, <3>6, QueuedKept, RunningKept DEF Held
  <2> QED
    BY <2>2, <2>3
<1> QED
  BY <1>4, <1>5, <1>6, <1>7, <1>8, <1>9, <1>10, <1>11, <1>12, <1>13, <1>14, <1>15, <1>16, <1>17
  DEF Next, MainStep, SchedulerStep, WorkerStep, CallStep, Threads

\* Of every feed that is flagged as queued there is an entry in ready_queue_ that
\* a worker will take, and of every feed flagged as running a worker that will
\* clear the flag, whatever the sessions call between: a flag nobody clears keeps
\* a feed from ever being fetched again. Excepted are the feeds on which
\* scheduleNow was called at the wrong moment (bumped), until the next reload.
THEOREM EveryFlagIsCleared == Spec => []FlagsAccounted
<1>1. Init => FlagsAccounted
  BY DEF Init, FlagsAccounted, Untracked
<1>2. Known /\ FlagsAccounted /\ [Next]_vars => FlagsAccounted'
  BY FlagsStep
<1> QED
  BY <1>1, <1>2, AlwaysKnown, PTL DEF Spec

-----------------------------------------------------------------------------
(* Schedule and tree                                                         *)

\* No two sessions are of the user u.
Alone(u) == \A s, t \in Sessions : UserOf[s] = u /\ UserOf[t] = u => s = t

\* The call s is about to make is about f.
Pending(s, f) ==
  \/ op[s] = "scheduleNow" /\ records[s][f] # 0
  \/ op[s] \in {"reload", "apply"}

\* scheduleNow is of one feed of the session's user, ...
Carries(s) ==
  op[s] = "scheduleNow" =>
    /\ \A f \in Feeds : records[s][f] # 0 => Owner[f] = UserOf[s]
    /\ \A f, g \in Feeds : records[s][f] # 0 /\ records[s][g] # 0 => f = g

\* ... and nobody has overtaken what a call carries.
CallTrue(s) ==
  /\ op[s] = "scheduleNow" => \A f \in Feeds : records[s][f] # 0 => records[s][f] = Row(f)
  /\ op[s] = "apply" => \A f \in Feeds : Owner[f] = UserOf[s] => records[s][f] = Row(f)

Right(f) ==
  feeds[f].node = Row(f) \/ \E s \in Sessions : UserOf[s] = Owner[f] /\ Pending(s, f)

Follows ==
  /\ main = "load" => \A f \in Feeds \ loading : feeds[f].node = Row(f)
  /\ main = "serve" => \A f \in Feeds \ outdated : Right(f)
  /\ \A s \in Sessions : Carries(s) /\ (Alone(UserOf[s]) => CallTrue(s))
  /\ \A f \in outdated : ~Alone(Owner[f])

LEMMA FollowsMeans == Follows => ScheduleFollowsTree
BY DEF Follows, ScheduleFollowsTree, Right, Pending

LEMMA FollowsKept ==
  ASSUME Known, Follows, UNCHANGED <<main, loading, tree, version, op, records, outdated>>,
         \A f \in Feeds : feeds'[f].node = feeds[f].node
  PROVE  Follows'
<1>1. \A f \in Feeds : Row(f)' = Row(f)
  BY DEF Row
<1>2. \A f \in Feeds : Right(f) => Right(f)'
  BY <1>1 DEF Right, Pending
<1>3. \A s \in Sessions : (Carries(s) => Carries(s)') /\ (CallTrue(s) => CallTrue(s)')
  BY <1>1 DEF Carries, CallTrue
<1> QED
  BY <1>1, <1>2, <1>3 DEF Follows

\* A step of the session s: each feed is left alone, or it is put right or will be.
LEMMA FollowsOwn ==
  ASSUME Known, Follows, NEW s \in Sessions, main = "serve", main' = main,
         \A t \in Sessions : t # s => op'[t] = op[t] /\ records'[t] = records[t],
         \A f \in Feeds : Owner[f] # UserOf[s] => Row(f)' = Row(f),
         \A f \in Feeds :
           \/ /\ Row(f)' = Row(f) /\ feeds'[f].node = feeds[f].node
              /\ f \in outdated => f \in outdated'
              /\ UserOf[s] = Owner[f] /\ Pending(s, f) => Pending(s, f)'
           \/ f \in outdated' \/ feeds'[f].node = Row(f)'
           \/ UserOf[s] = Owner[f] /\ Pending(s, f)',
         Carries(s)', Alone(UserOf[s]) => CallTrue(s)',
         \A f \in outdated' : f \in outdated \/ (Owner[f] = UserOf[s] /\ ~Alone(UserOf[s]))
  PROVE  Follows'
<1>1. ASSUME NEW f \in Feeds, f \notin outdated'
      PROVE  Right(f)'
  <2>1. CASE /\ Row(f)' = Row(f) /\ feeds'[f].node = feeds[f].node
             /\ f \in outdated => f \in outdated'
             /\ UserOf[s] = Owner[f] /\ Pending(s, f) => Pending(s, f)'
    <3>1. Right(f)
      BY <1>1, <2>1 DEF Follows
    <3>2. CASE feeds[f].node = Row(f)
      BY <2>1, <3>2 DEF Right
    <3>3. CASE \E t \in Sessions : UserOf[t] = Owner[f] /\ Pending(t, f)
      <4>1. PICK t \in Sessions : UserOf[t] = Owner[f] /\ Pending(t, f)
        BY <3>3
      <4>2. Pending(t, f)'
        <5>1. CASE t = s
          BY <2>1, <4>1, <5>1
        <5>2. CASE t # s
          BY <4>1, <5>2 DEF Pending
        <5> QED
          BY <5>1, <5>2
      <4> QED
        BY <4>1, <4>2 DEF Right
    <3> QED
      BY <3>1, <3>2, <3>3 DEF Right
  <2>2. CASE feeds'[f].node = Row(f)' \/ (UserOf[s] = Owner[f] /\ Pending(s, f)')
    BY <2>2 DEF Right
  <2> QED
    BY <1>1, <2>1, <2>2
<1>2. ASSUME NEW t \in Sessions, t # s
      PROVE  Carries(t)' /\ (Alone(UserOf[t]) => CallTrue(t)')
  <2>1. Carries(t)'
    BY <1>2 DEF Follows, Carries
  <2>2. ASSUME Alone(UserOf[t])
        PROVE  CallTrue(t)'
    <3>1. CallTrue(t) /\ UserOf[t] # UserOf[s] /\ op'[t] = op[t] /\ records'[t] = records[t]
      BY <1>2, <2>2 DEF Follows, Alone
    <3>2. \A f \in Feeds : Owner[f] = UserOf[t] => Row(f)' = Row(f)
      BY <3>1
    <3>3. op[t] = "scheduleNow" => \A f \in Feeds : records[t][f] # 0 => Owner[f] = UserOf[t]
      BY DEF Follows, Carries
    <3> QED
      BY <3>1, <3>2, <3>3 DEF CallTrue
  <2> QED
    BY <2>1, <2>2
<1>3. \A f \in outdated' : ~Alone(Owner[f])
  BY DEF Follows
<1> QED
  BY <1>1, <1>2, <1>3 DEF Follows

LEMMA FollowsStep ==
  ASSUME Known, Follows, [Next]_vars
  PROVE  Follows'
<1> USE DEF store, schedule, threads, calls, startup, history
<1>1. ASSUME UNCHANGED <<feeds, main, loading, tree, version, op, records, outdated>>
      PROVE  Follows'
  BY <1>1, FollowsKept
<1>2. CASE \/ SchedulerRecheck \/ SchedulerExit \/ (\E t \in Threads : Block(t))
           \/ (\E w \in Workers : \/ WorkerWait(w) \/ WorkerExit(w) \/ DiscardStale(w)
                                  \/ BeginFetch(w) \/ AbandonFetch(w))
           \/ UNCHANGED vars
  BY <1>1, <1>2 DEF SchedulerRecheck, SchedulerExit, Block, WorkerWait, WorkerExit, DiscardStale,
                    BeginFetch, AbandonFetch, vars
<1>3. CASE Start \/ RequestStop \/ NotifyStop \/ JoinThreads
  <2>1. main' \notin {"load", "serve"} /\ main # "serve" /\ UNCHANGED <<op, outdated>>
    BY <1>3 DEF Start, RequestStop, NotifyStop, JoinThreads
  <2>2. \A s \in Sessions : op'[s] = "none"
    BY <2>1 DEF Known, StartupOrder
  <2> QED
    BY <2>1, <2>2 DEF Follows, Carries, CallTrue
<1>4. CASE ClearExisting
  <2>1. /\ main = "clear" /\ main' = "load" /\ loading' = tree
        /\ feeds' = [f \in Feeds |-> Untracked] /\ UNCHANGED <<tree, op, outdated>>
    BY <1>4 DEF ClearExisting
  <2>2. \A f \in Feeds \ loading' : feeds'[f].node = Row(f)'
    BY <2>1 DEF Row, Untracked
  <2>3. \A s \in Sessions : op'[s] = "none"
    BY <2>1 DEF Known, StartupOrder
  <2> QED
    BY <2>1, <2>2, <2>3 DEF Follows, Carries, CallTrue
<1>5. ASSUME NEW f \in Feeds, LoadExisting(f)
      PROVE  Follows'
  <2>1. /\ main = "load" /\ main' = "load" /\ f \in loading /\ loading' = loading \ {f}
        /\ feeds' = [feeds EXCEPT ![f] = Upserted(feeds[f], version[f], FALSE)]
        /\ UNCHANGED <<tree, version, op, outdated>>
    BY <1>5 DEF LoadExisting
  <2>2. f \in tree
    BY <2>1 DEF Known, TypeOK
  <2>3. feeds'[f].node = Row(f)'
    BY <2>1, <2>2 DEF Row, Upserted, Known, TypeOK
  <2>4. ASSUME NEW g \in Feeds \ loading', g # f
        PROVE  feeds'[g].node = Row(g)'
    BY <2>1, <2>4 DEF Follows, Row, Known, TypeOK
  <2>5. \A s \in Sessions : op'[s] = "none"
    BY <2>1 DEF Known, StartupOrder
  <2> QED
    BY <2>1, <2>3, <2>4, <2>5 DEF Follows, Carries, CallTrue
<1>6. CASE FinishExisting
  <2>1. /\ main = "load" /\ loading = {} /\ main' \in {"serve", "stop"}
        /\ UNCHANGED <<feeds, tree, version, op, outdated>>
    BY <1>6 DEF FinishExisting
  <2>2. \A s \in Sessions : op'[s] = "none"
    BY <2>1 DEF Known, StartupOrder
  <2>3. \A f \in Feeds : feeds'[f].node = Row(f)'
    BY <2>1 DEF Follows, Row
  <2> QED
    BY <2>1, <2>2, <2>3 DEF Follows, Right, Carries, CallTrue
<1>7. CASE SchedulerPass
  <2>1. /\ feeds' = [f \in Feeds |-> IF f \in DueFeeds THEN [feeds[f] EXCEPT !.queued = TRUE]
                                     ELSE feeds[f]]
        /\ UNCHANGED <<main, loading, tree, version, op, records, outdated>>
    BY <1>7 DEF SchedulerPass
  <2>2. ASSUME NEW f \in Feeds
        PROVE  feeds'[f].node = feeds[f].node
    <3>1. CASE f \in DueFeeds
      <4>1. feeds'[f] = [feeds[f] EXCEPT !.queued = TRUE]
        BY <2>1, <3>1
      <4>2. feeds[f] \in [node : Versions, generation : Nat \ {0}, queued : BOOLEAN,
                          running : BOOLEAN, due : BOOLEAN]
        BY <3>1, TrackedState DEF DueFeeds, Startable, Known
      <4> QED
        BY <4>1, <4>2
    <3>2. CASE f \notin DueFeeds
      BY <2>1, <3>2
    <3> QED
      BY <3>1, <3>2
  <2> QED
    BY <2>1, <2>2, FollowsKept
<1>8. ASSUME NEW w \in Workers, Dispatch(w)
      PROVE  Follows'
  <2> DEFINE h == Head(readyQueue)[1]
  <2>1. /\ feeds' = [feeds EXCEPT ![h] = [@ EXCEPT !.queued = FALSE, !.running = TRUE]]
        /\ UNCHANGED <<main, loading, tree, version, op, records, outdated>>
    BY <1>8 DEF Dispatch
  <2>2. readyQueue \in Seq(Entry) /\ readyQueue # <<>>
    BY <1>8 DEF Dispatch, Known, TypeOK, Entry
  <2>3. h \in Feeds /\ feeds[h].queued
    BY <2>2, HeadTailProperties, EmptySeq DEF Entry, Known, QueueSound
  <2> HIDE DEF h
  <2>4. feeds[h] \in [node : Versions, generation : Nat \ {0}, queued : BOOLEAN,
                      running : BOOLEAN, due : BOOLEAN]
    BY <2>3, TrackedState DEF Known
  <2>5. \A f \in Feeds : feeds'[f].node = feeds[f].node
    BY <2>1, <2>3, <2>4 DEF Known, TypeOK
  <2> QED
    BY <2>1, <2>5, FollowsKept
<1>9. ASSUME NEW w \in Workers, FinishFetch(w)
      PROVE  Follows'
  <2> DEFINE h == task[w][1]
  <2>1. UNCHANGED <<main, loading, tree, version, op, records, outdated>>
    BY <1>9 DEF FinishFetch
  <2>2. h \in Feeds
    BY <1>9 DEF FinishFetch, Known, TypeOK
  <2>3. CASE Tracked(h)
    <3>1. feeds' = [feeds EXCEPT ![h] = Finished(feeds[h], task[w][2])]
      BY <1>9, <2>3 DEF FinishFetch
    <3> HIDE DEF h
    <3>2. feeds[h] \in [node : Versions, generation : Nat \ {0}, queued : BOOLEAN,
                        running : BOOLEAN, due : BOOLEAN]
      BY <2>2, <2>3, TrackedState DEF Known
    <3>3. Finished(feeds[h], task[w][2]).node = feeds[h].node
      BY <3>2 DEF Finished
    <3>4. \A f \in Feeds : feeds'[f].node = feeds[f].node
      BY <2>2, <3>1, <3>3 DEF Known, TypeOK
    <3> QED
      BY <2>1, <3>4, FollowsKept
  <2>4. CASE ~Tracked(h)
    BY <1>1, <1>9, <2>1, <2>4 DEF FinishFetch
  <2> QED
    BY <2>3, <2>4
<1>10. ASSUME NEW f \in Feeds, Tick(f)
       PROVE  Follows'
  <2>1. /\ feeds' = [feeds EXCEPT ![f].due = TRUE]
        /\ UNCHANGED <<main, loading, tree, version, op, records, outdated>>
    BY <1>10 DEF Tick
  <2>2. feeds[f] \in [node : Versions, generation : Nat \ {0}, queued : BOOLEAN,
                      running : BOOLEAN, due : BOOLEAN]
    BY <1>10, TrackedState DEF Tick, Known
  <2>3. \A g \in Feeds : feeds'[g].node = feeds[g].node
    BY <2>1, <2>2 DEF Known, TypeOK
  <2> QED
    BY <2>1, <2>3, FollowsKept
<1>11. ASSUME NEW s \in Sessions, NEW f \in Feeds, CreateFeed(s, f) \/ UpdateFeed(s, f)
       PROVE  Follows'
  <2>1. /\ main = "serve" /\ main' = main /\ op[s] = "none" /\ Owner[f] = UserOf[s]
        /\ feeds' = feeds /\ outdated' = outdated
        /\ op' = [op EXCEPT ![s] = "scheduleNow"]
        /\ f \in tree' /\ \A g \in Feeds : g # f => (g \in tree' <=> g \in tree)
    BY <1>11 DEF CreateFeed, UpdateFeed
  <2>2. PICK v \in Nat :
          /\ v # 0 /\ version' = [version EXCEPT ![f] = v]
          /\ records' = [records EXCEPT ![s] = [g \in Feeds |-> IF g = f THEN v ELSE 0]]
    <3>1. CASE CreateFeed(s, f)
      <4>1. /\ version' = [version EXCEPT ![f] = 1]
            /\ records' = [records EXCEPT ![s] = [g \in Feeds |-> IF g = f THEN 1 ELSE 0]]
        BY <3>1 DEF CreateFeed
      <4>2. 1 \in Nat /\ 1 # 0
        OBVIOUS
      <4> QED
        BY <4>1, <4>2
    <3>2. CASE UpdateFeed(s, f)
      <4>1. version[f] + 1 \in Nat /\ version[f] + 1 # 0
        BY DEF Known, TypeOK
      <4> QED
        BY <3>2, <4>1 DEF UpdateFeed, Known, TypeOK
    <3> QED
      BY <1>11, <3>1, <3>2
  <2>3. Row(f)' = v /\ \A g \in Feeds : g # f => Row(g)' = Row(g)
    BY <2>1, <2>2 DEF Row, Known, TypeOK
  <2>4. /\ op'[s] = "scheduleNow" /\ \A g \in Feeds : records'[s][g] = IF g = f THEN v ELSE 0
        /\ \A t \in Sessions : t # s => op'[t] = op[t] /\ records'[t] = records[t]
    BY <2>1, <2>2 DEF Known, TypeOK
  <2>5. Carries(s)' /\ CallTrue(s)'
    BY <2>1, <2>2, <2>3, <2>4 DEF Carries, CallTrue
  <2>6. Pending(s, f)' /\ \A g \in Feeds : ~Pending(s, g)
    BY <2>1, <2>2, <2>4 DEF Pending
  <2> QED
    BY <2>1, <2>3, <2>4, <2>5, <2>6, FollowsOwn
<1>12. ASSUME NEW s \in Sessions, (\E f \in Feeds : DeleteFeed(s, f)) \/ UpdateUserSettings(s)
       PROVE  Follows'
  <2>1. /\ main = "serve" /\ main' = main /\ feeds' = feeds
        /\ op' = [op EXCEPT ![s] = "reload"] /\ UNCHANGED <<version, records, outdated>>
        /\ \A f \in Feeds : Owner[f] # UserOf[s] => (f \in tree' <=> f \in tree)
    BY <1>12 DEF DeleteFeed, UpdateUserSettings
  <2>2. op'[s] = "reload" /\ \A t \in Sessions : t # s => op'[t] = op[t] /\ records'[t] = records[t]
    BY <2>1 DEF Known, TypeOK
  <2>3. CallTrue(s)' /\ Carries(s)' /\ \A f \in Feeds : Pending(s, f)'
    BY <2>2 DEF CallTrue, Carries, Pending
  <2>5. \A f \in Feeds : Owner[f] # UserOf[s] => ~Pending(s, f)
    BY <1>12 DEF DeleteFeed, UpdateUserSettings, Pending
  <2>4. \A f \in Feeds : Owner[f] # UserOf[s] => Row(f)' = Row(f)
    BY <2>1 DEF Row
  <2> QED
    BY <2>1, <2>2, <2>3, <2>4, <2>5, FollowsOwn
<1>13. ASSUME NEW s \in Sessions, ListNodes(s)
       PROVE  Follows'
  <2>1. /\ op[s] = "reload" /\ UNCHANGED <<main, feeds, tree, version, outdated>>
        /\ op' = [op EXCEPT ![s] = "apply"]
        /\ records' = [records EXCEPT ![s] =
             [f \in Feeds |-> IF f \in tree /\ Owner[f] = UserOf[s] THEN version[f] ELSE 0]]
    BY <1>13 DEF ListNodes
  <2>2. main = "serve"
    BY <2>1 DEF Known, StartupOrder
  <2>3. /\ op'[s] = "apply"
        /\ \A f \in Feeds :
             records'[s][f] = IF f \in tree /\ Owner[f] = UserOf[s] THEN version[f] ELSE 0
        /\ \A t \in Sessions : t # s => op'[t] = op[t] /\ records'[t] = records[t]
    BY <2>1 DEF Known, TypeOK
  <2>4. \A f \in Feeds : Row(f)' = Row(f)
    BY <2>1 DEF Row
  <2>5. CallTrue(s)' /\ Carries(s)' /\ \A f \in Feeds : Pending(s, f)'
    BY <2>3, <2>4 DEF CallTrue, Carries, Pending, Row
  <2> QED
    BY <2>1, <2>2, <2>3, <2>4, <2>5, FollowsOwn
<1>14. ASSUME NEW s \in Sessions, ScheduleNow(s) \/ ApplyReload(s)
       PROVE  Follows'
  <2>1. /\ op[s] \in {"scheduleNow", "apply"} /\ UNCHANGED <<main, tree, version>>
        /\ op' = [op EXCEPT ![s] = "none"]
        /\ records' = [records EXCEPT ![s] = [f \in Feeds |-> 0]]
    BY <1>14 DEF ScheduleNow, ApplyReload
  <2>2. main = "serve"
    BY <2>1 DEF Known, StartupOrder
  <2>3. /\ op'[s] = "none"
        /\ \A t \in Sessions : t # s => op'[t] = op[t] /\ records'[t] = records[t]
    BY <2>1 DEF Known, TypeOK
  <2>4. \A f \in Feeds : Row(f)' = Row(f)
    BY <2>1 DEF Row
  <2>5. CallTrue(s)' /\ Carries(s)' /\ Carries(s) /\ (Alone(UserOf[s]) => CallTrue(s))
    BY <2>3 DEF CallTrue, Carries, Follows
  <2>6. CASE ScheduleNow(s)
    <3>1. PICK f \in Feeds :
            /\ records[s][f] # 0
            /\ feeds' = [feeds EXCEPT ![f] = Upserted(feeds[f], records[s][f], TRUE)]
            /\ outdated' = OutdatedBy(s, {f})
      BY <2>6 DEF ScheduleNow
    <3>2. op[s] = "scheduleNow"
      BY <2>6 DEF ScheduleNow
    <3>3. feeds'[f].node = records[s][f] /\ Owner[f] = UserOf[s]
      BY <2>5, <3>1, <3>2 DEF Carries, Upserted, Known, TypeOK
    <3>4. \A g \in Feeds : g # f => feeds'[g] = feeds[g] /\ ~Pending(s, g)
      BY <2>5, <3>1, <3>2 DEF Carries, Pending, Known, TypeOK
    <3>5. /\ \A g \in Feeds : g # f => (g \in outdated' <=> g \in outdated)
          /\ f \in outdated' <=> records[s][f] # Row(f)
      BY <3>1 DEF OutdatedBy
    <3>6. Alone(UserOf[s]) => records[s][f] = Row(f)
      BY <2>5, <3>1, <3>2 DEF CallTrue
    <3>7. \A g \in outdated' : g \in Feeds
      BY <3>1 DEF OutdatedBy, Known, TypeOK
    <3> QED
      BY <2>2, <2>1, <2>3, <2>4, <2>5, <3>3, <3>4, <3>5, <3>6, <3>7, FollowsOwn
  <2>7. CASE ApplyReload(s)
    <3> DEFINE mine == {g \in Feeds : Owner[g] = UserOf[s]}
    <3>1. /\ op[s] = "apply" /\ outdated' = OutdatedBy(s, mine)
          /\ feeds' = [f \in Feeds |-> IF f \in mine THEN Reloaded(records[s][f]) ELSE feeds[f]]
      BY <2>7 DEF ApplyReload
    <3>2. \A f \in Feeds : Owner[f] = UserOf[s] => feeds'[f].node = records[s][f]
      <4>1. \A f \in Feeds : Reloaded(records[s][f]).node = records[s][f]
        BY DEF Reloaded, Upserted, Untracked
      <4> QED
        BY <3>1, <4>1
    <3>3. \A f \in Feeds : Owner[f] # UserOf[s] => feeds'[f] = feeds[f]
      BY <3>1
    <3>4. \A f \in Feeds :
            f \in outdated' <=> IF Owner[f] = UserOf[s] THEN records[s][f] # Row(f)
                                ELSE f \in outdated
      BY <3>1 DEF OutdatedBy
    <3>5. Alone(UserOf[s]) => \A f \in Feeds : Owner[f] = UserOf[s] => records[s][f] = Row(f)
      BY <2>5, <3>1 DEF CallTrue
    <3>6. \A g \in outdated' : g \in Feeds
      BY <3>1 DEF OutdatedBy, Known, TypeOK
    <3> QED
      BY <2>2, <2>1, <2>3, <2>4, <2>5, <3>2, <3>3, <3>4, <3>5, <3>6, FollowsOwn
  <2> QED
    BY <1>14, <2>6, <2>7
<1> QED
  BY <1>2, <1>3, <1>4, <1>5, <1>6, <1>7, <1>8, <1>9, <1>10, <1>11, <1>12, <1>13, <1>14
  DEF Next, MainStep, SchedulerStep, WorkerStep, RequestStep, CallStep, Threads

\* For any feeds, users and sessions, however many of them are of one user: when no
\* call is still to come for a user, exactly the user's feeds that have a row are
\* scheduled, each from the row as it stands, unless the last call for the feed
\* carried a record that had been overtaken (reloadUserFeeds reads the rows before it
\* takes mutex_, and so do the handlers that call scheduleNow).
THEOREM ScheduleIsOfTheTree == Spec => []ScheduleFollowsTree
<1>1. Init => Follows
  BY DEF Init, Follows, Carries, CallTrue
<1>2. Known /\ Follows /\ [Next]_vars => Follows'
  BY FollowsStep
<1> QED
  BY <1>1, <1>2, FollowsMeans, AlwaysKnown, PTL DEF Spec

\* Only another session of the same user can overtake a call: of a user with one
\* device connected no record is ever outdated.
THEOREM OvertakenByAnother == Spec => [](\A f \in outdated : ~Alone(Owner[f]))
<1>1. Init => Follows
  BY DEF Init, Follows, Carries, CallTrue
<1>2. Known /\ Follows /\ [Next]_vars => Follows'
  BY FollowsStep
<1>3. Follows => \A f \in outdated : ~Alone(Owner[f])
  BY DEF Follows
<1> QED
  BY <1>1, <1>2, <1>3, AlwaysKnown, PTL DEF Spec
=============================================================================
