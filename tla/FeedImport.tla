------------------------------ MODULE FeedImport ------------------------------
(***************************************************************************)
(* OPML import and export of the desktop client: MainViewModel::importFeeds *)
(* and exportFeeds with the functions on outlines they call, against the   *)
(* tree that the backend keeps.                                            *)
(*                                                                         *)
(* An import is one thread and many calls: it fetches the tree, deletes it  *)
(* node by node if it is to overwrite, and creates what the file has, each  *)
(* folder before what is in it. Any call can fail at the device, which ends *)
(* the import where it is; the backend has committed it, or does so later,  *)
(* from a connection that was left, or never. The user can start the import *)
(* again, or start another one while it runs; other devices change the tree *)
(* between its calls. Of its own changes the device is not notified.        *)
(*                                                                         *)
(* A folder's name is its normalizedTitle, a feed's its normalizedFeedUrl;  *)
(* nothing compares the other attributes. Ids grow, so that a node's is     *)
(* above its parent's: nodes are not moved here. What notifications do in   *)
(* flight is TreeSync's: another device's change is shown at once.          *)
(***************************************************************************)
EXTENDS Integers, Sequences, FiniteSets, Bags, SequencesExt

CONSTANTS
  Titles, Urls,    \* names of folders and of feeds
  Threads,         \* threads of runAsync that import
  NoSeries,
  Scenarios        \* what a run starts from

Root  == 0
Names == Titles \cup Urls
Node  == [parent : Nat, name : Names]

\* What is in a folder comes after it, in a tree and in a file; nothing is in a feed.
InFolders(nodes) ==
  \A n \in DOMAIN nodes :
    LET p == nodes[n].parent IN p < n /\ (p \in DOMAIN nodes => nodes[p].name \in Titles)

\* A file is the sequence of its outlines, the parent of each is the number of
\* the one around it: what is in a feed is not imported, and not in the model. A
\* run begins with a tree and files, and has so many imports, and imports at once,
\* exports, failing calls and changes of other devices.
ASSUME ImportAssumption ==
  /\ Titles \cap Urls = {}
  /\ \A s \in Scenarios :
       /\ DOMAIN s.tree \subseteq Nat \ {Root} /\ IsFiniteSet(DOMAIN s.tree)
       /\ s.tree \in [DOMAIN s.tree -> Node] /\ InFolders(s.tree)
       /\ \A f \in s.files : f \in Seq(Node) /\ InFolders(f)
       /\ {s.atOnce, s.imports, s.exports, s.faults, s.changes} \subseteq Nat

VARIABLES
  tree,     \* the nodes of the user at the backend, by id
  lastId,   \* the last id that was given to a node
  files,    \* the files the user can import, each with the nodes it stands for
  thread,   \* what each thread of importFeeds is at
  astray,   \* calls that failed and that the backend may still commit, a bag
  shown,    \* the nodes the device shows
  budget,   \* bound: what is left of the imports, exports, faults and changes
  unseen,   \* history: the device may show less, or more, than there is
  series,   \* history: imports of one file in one mode that nothing came between
  cut       \* history: those of astray that failed since an import fetched the tree

vars == <<tree, lastId, files, thread, astray, shown, budget, unseen, series, cut>>

-----------------------------------------------------------------------------
(* Nodes and outlines                                                        *)

IsFeed(node) == node.name \in Urls

Below(nodes, parent) == {n \in DOMAIN nodes : nodes[n].parent = parent}

\* The nodes that the root has below it
Grounded(nodes) ==
  LET reached[n \in DOMAIN nodes] ==
        LET p == nodes[n].parent IN p = Root \/ (p \in DOMAIN nodes /\ reached[p])
  IN {n \in DOMAIN nodes : reached[n]}

\* A node and what is below it
Subtree(nodes, n) ==
  LET below[m \in DOMAIN nodes] ==
        LET p == nodes[m].parent IN m = n \/ (p \in DOMAIN nodes /\ below[p])
  IN {m \in DOMAIN nodes : below[m]}

HasFeedDescendants(file, i) ==
  LET has[k \in DOMAIN file] == IsFeed(file[k]) \/ \E c \in Below(file, k) : has[c]
  IN has[i]

NodeDepth(nodes, node) ==
  LET depth[n \in DOMAIN nodes] ==
        LET p == nodes[n].parent
        IN IF p = Root THEN 0 ELSE IF p \in DOMAIN nodes THEN 1 + depth[p] ELSE 1
  IN depth[node]

Deepest(nodes) ==
  {n \in DOMAIN nodes : \A m \in DOMAIN nodes : NodeDepth(nodes, m) <= NodeDepth(nodes, n)}

\* Mutation: the nodes are deleted in the order they are listed.
Shallowest(nodes) ==
  {n \in DOMAIN nodes : \A m \in DOMAIN nodes : NodeDepth(nodes, m) >= NodeDepth(nodes, n)}

NextToDelete(nodes) == Deepest(nodes)

\* The members of S in order; SetToSortSeq goes through the permutations.
InOrder(S, Before(_, _)) ==
  [i \in 1..Cardinality(S) |->
     CHOOSE x \in S : Cardinality({y \in S : Before(y, x)}) = i - 1]

\* writeOpmlOutline: what the root has below it, folders before feeds
FolderFirst(nodes) ==
  InOrder(Grounded(nodes),
    LAMBDA m, n : IF IsFeed(nodes[m]) = IsFeed(nodes[n]) THEN m < n ELSE IsFeed(nodes[n]))

Exported(nodes) ==
  LET written == FolderFirst(nodes)
      At(n)   == IF n = Root THEN Root ELSE CHOOSE i \in DOMAIN written : written[i] = n
  IN [i \in DOMAIN written |->
        [parent |-> At(nodes[written[i]].parent), name |-> nodes[written[i]].name]]

\* The outlines in outline i, each with the node that it goes into
Enter(file, i, node) ==
  LET inside == InOrder(Below(file, i), <)
  IN [k \in DOMAIN inside |-> <<inside[k], node>>]

-----------------------------------------------------------------------------
(* Threads, and what they do to the rest                                     *)

Idle == [stage |-> "idle"]

\* file: what is imported; existing: existing_nodes, and those still to delete in
\* the stage "delete"; todo: outlines to import, with the node each goes into;
\* nodes: the tree to be shown; wrote: it has changed the tree; late: the tree
\* has changed since nodes was fetched.
Begun(file, overwrite) ==
  [stage |-> "fetch", file |-> file, overwrite |-> overwrite, existing |-> <<>>,
   todo |-> <<>>, nodes |-> <<>>, wrote |-> FALSE, late |-> FALSE]

Stages == {"fetch", "delete", "create", "load"}

Writing(t) == thread[t].stage \in {"delete", "create"}

\* The tree has changed: threads about to show what they have fetched are late.
Overtaken ==
  [u \in Threads |-> IF thread[u].stage = "load" THEN [thread[u] EXCEPT !.late = TRUE]
                     ELSE thread[u]]

Spend(what) == budget[what] > 0 /\ budget' = [budget EXCEPT ![what] = @ - 1]

With(nodes, id, node) ==
  [n \in DOMAIN nodes \cup {id} |-> IF n = id THEN node ELSE nodes[n]]

Create(node) == [call |-> "create", node |-> node]
Delete(n)    == [call |-> "delete", id |-> n]

\* What the backend makes of a call, if it accepts it
Accepted(call) ==
  IF call.call = "create" THEN call.node.parent \in DOMAIN tree \cup {Root}
  ELSE call.id \in DOMAIN tree

TreeAfter(call) ==
  IF call.call = "create" THEN With(tree, lastId + 1, call.node)
  ELSE Restrict(tree, DOMAIN tree \ {call.id})

Commits(call) ==
  /\ Accepted(call)
  /\ tree' = TreeAfter(call)
  /\ lastId' = IF call.call = "create" THEN lastId + 1 ELSE lastId

\* As in BagsExt, by the operators of Bags.
BagAdd(bag, x)    == bag (+) SetToBag({x})
BagRemove(bag, x) == bag (-) SetToBag({x})

\* Thread t is told that a call failed: it gives up.
Ends(t, threads) ==
  /\ thread' = [threads EXCEPT ![t] = Idle]
  /\ unseen' = (unseen \/ thread[t].wrote \/ tree' # tree)

\* A call times out, or goes with its connection: it has been committed, or it is
\* astray, in a queue of the device's or at a session that is no longer its own.
CallFails(t, call) ==
  /\ Spend("faults")
  /\ \/ Commits(call) /\ Ends(t, Overtaken) /\ UNCHANGED <<astray, cut>>
     \/ /\ UNCHANGED <<tree, lastId>> /\ Ends(t, thread)
        /\ astray' = BagAdd(astray, call) /\ cut' = cut \cup {call}

CallRefused(t, call) ==
  /\ ~Accepted(call)
  /\ UNCHANGED <<tree, lastId, astray, budget, cut>>
  /\ Ends(t, thread)

\* Thread t has its answer, and goes on as next.
CallAnswered(t, call, next) ==
  /\ Commits(call)
  /\ thread' = [Overtaken EXCEPT ![t] = [next EXCEPT !.wrote = TRUE]]
  /\ UNCHANGED <<astray, budget, unseen, cut>>

Call(t, call, next) ==
  /\ CallAnswered(t, call, next) \/ CallFails(t, call) \/ CallRefused(t, call)
  /\ UNCHANGED <<files, shown, series>>

-----------------------------------------------------------------------------
(* Importing                                                                 *)

\* The user picks a file, and whether it is merged or overwrites.
ImportFeeds(t) ==
  /\ thread[t] = Idle /\ Spend("imports")
  /\ Cardinality({u \in Threads : thread[u] # Idle}) < budget.atOnce
  /\ \E f \in files, overwrite \in BOOLEAN :
       thread' = [thread EXCEPT ![t] = Begun(f, overwrite)]
  /\ UNCHANGED <<tree, lastId, files, astray, shown, unseen, series, cut>>

\* History: an import that fetches the tree continues the series it is in, or
\* begins one with the tree it found; two that write at once are in none.
Serial(t) ==
  IF \E u \in Threads \ {t} : Writing(u) THEN NoSeries
  ELSE [file |-> thread[t].file, overwrite |-> thread[t].overwrite, done |-> FALSE,
        base |-> IF series # NoSeries /\ series.file = thread[t].file
                    /\ series.overwrite = thread[t].overwrite
                 THEN series.base ELSE tree]

FetchTree(t) ==
  /\ thread[t].stage = "fetch"
  /\ thread' = [thread EXCEPT ![t].existing = tree,
                              ![t].stage = IF thread[t].overwrite THEN "delete" ELSE "create",
                              ![t].todo = Enter(thread[t].file.file, Root, Root)]
  /\ series' = Serial(t) /\ cut' = {}
  /\ UNCHANGED <<tree, lastId, files, astray, shown, budget, unseen>>

DeleteNode(t) ==
  /\ thread[t].stage = "delete"
  /\ \E n \in NextToDelete(thread[t].existing) :
       Call(t, Delete(n), [thread[t] EXCEPT !.existing = Restrict(@, DOMAIN @ \ {n})])

Deleted(t) ==
  /\ thread[t].stage = "delete" /\ DOMAIN thread[t].existing = {}
  /\ thread' = [thread EXCEPT ![t].stage = "create"]
  /\ UNCHANGED <<tree, lastId, files, astray, shown, budget, unseen, series, cut>>

\* The next outline of thread t, the node it goes into, and what that node has
Outline(t)  == Head(thread[t].todo)[1]
Into(t)     == Head(thread[t].todo)[2]
Written(t)  == thread[t].file.file[Outline(t)]
Twins(t)    == {n \in Below(thread[t].existing, Into(t)) :
                  thread[t].existing[n].name = Written(t).name}

\* When it merges: a feed that is there, a folder that has no feed
Skips(t) ==
  /\ ~thread[t].overwrite
  /\ IF IsFeed(Written(t)) THEN Twins(t) # {}
     ELSE ~HasFeedDescendants(thread[t].file.file, Outline(t))

Importing(t) == thread[t].stage = "create" /\ thread[t].todo # <<>>

SkipOutline(t) ==
  /\ Importing(t) /\ Skips(t)
  /\ thread' = [thread EXCEPT ![t].todo = Tail(@)]
  /\ UNCHANGED <<tree, lastId, files, astray, shown, budget, unseen, series, cut>>

\* The outlines in a folder come before those after it; those in a feed are dropped.
Inside(t, node) ==
  IF IsFeed(Written(t)) THEN Tail(thread[t].todo)
  ELSE Enter(thread[t].file.file, Outline(t), node) \o Tail(thread[t].todo)

EnterFolder(t) ==
  /\ Importing(t) /\ ~Skips(t) /\ ~IsFeed(Written(t))
  /\ \E n \in Twins(t) : thread' = [thread EXCEPT ![t].todo = Inside(t, n)]
  /\ UNCHANGED <<tree, lastId, files, astray, shown, budget, unseen, series, cut>>

\* Mutation: existing_nodes is left as it was fetched.
Without(nodes, id, node) == nodes

Known(nodes, id, node) == With(nodes, id, node)

CreateNode(t) ==
  /\ Importing(t) /\ ~Skips(t) /\ (Twins(t) = {} \/ IsFeed(Written(t)))
  /\ LET id   == lastId + 1
         node == [parent |-> Into(t), name |-> Written(t).name]
     IN Call(t, Create(node),
             [thread[t] EXCEPT !.existing = Known(@, id, node), !.todo = Inside(t, id)])

Refetch(t) ==
  /\ thread[t].stage = "create" /\ thread[t].todo = <<>>
  /\ thread' = [thread EXCEPT ![t].stage = "load", ![t].nodes = tree]
  /\ series' = IF series = NoSeries THEN NoSeries ELSE [series EXCEPT !.done = TRUE]
  /\ UNCHANGED <<tree, lastId, files, astray, shown, budget, unseen, cut>>

Fetched(t) == thread[t].nodes

\* Mutation: what the import believes there is, without fetching it again.
Believed(t) == thread[t].existing

ToShow(t) == Fetched(t)

\* The unread count has come, and the posted lambda runs.
LoadNodes(t) ==
  /\ thread[t].stage = "load"
  /\ shown' = ToShow(t) /\ unseen' = thread[t].late
  /\ thread' = [thread EXCEPT ![t] = Idle]
  /\ UNCHANGED <<tree, lastId, files, astray, budget, series, cut>>

\* A call that only reads fails, or the file cannot be read.
FailReading(t) ==
  /\ \/ thread[t].stage \in {"fetch", "load"}
     \/ thread[t].stage = "create" /\ thread[t].todo = <<>>
  /\ Spend("faults")
  /\ UNCHANGED <<tree, lastId, files, astray, shown, series, cut>>
  /\ Ends(t, thread)

\* The session that a call was left at commits it, and notifies the device of what
\* it takes for its own doing. It is as if the call had been committed when it
\* failed, but not to an import that has fetched the tree since.
CommitAstray(call) ==
  /\ Commits(call)
  /\ astray' = BagRemove(astray, call) /\ cut' = cut \ {call}
  /\ thread' = Overtaken /\ unseen' = TRUE
  /\ series' = IF call \in cut THEN series ELSE NoSeries
  /\ UNCHANGED <<files, shown, budget>>

-----------------------------------------------------------------------------
(* The rest                                                                  *)

\* The file is written from one answer to fetchTree.
ExportFeeds ==
  /\ Spend("exports")
  /\ files' = files \cup {[file |-> Exported(tree), means |-> tree]}
  /\ UNCHANGED <<tree, lastId, thread, astray, shown, unseen, series, cut>>

Changed(nodes, now) ==
  /\ Spend("changes")
  /\ tree' = nodes /\ shown' = now /\ thread' = Overtaken /\ series' = NoSeries
  /\ UNCHANGED <<files, astray, unseen, cut>>

OtherCreates ==
  \E parent \in {n \in DOMAIN tree : ~IsFeed(tree[n])} \cup {Root}, name \in Names :
    LET node == [parent |-> parent, name |-> name]
    IN /\ lastId' = lastId + 1
       /\ Changed(With(tree, lastId', node), With(shown, lastId', node))

\* The backend removes the node alone, the device also what is below it.
OtherDeletes ==
  \E n \in DOMAIN tree :
    /\ Changed(Restrict(tree, DOMAIN tree \ {n}),
               Restrict(shown, DOMAIN shown \ Subtree(shown, n)))
    /\ UNCHANGED lastId

Init ==
  \E s \in Scenarios :
    /\ tree = s.tree /\ shown = s.tree
    /\ lastId = Max(DOMAIN s.tree \cup {Root})
    /\ files = {[file |-> f, means |-> f] : f \in s.files}
    /\ thread = [t \in Threads |-> Idle]
    /\ budget = [atOnce |-> s.atOnce, imports |-> s.imports, exports |-> s.exports,
                 faults |-> s.faults, changes |-> s.changes]
    /\ astray = EmptyBag
    /\ unseen = FALSE /\ series = NoSeries /\ cut = {}

Step(t) ==
  \/ ImportFeeds(t) \/ FetchTree(t) \/ DeleteNode(t) \/ Deleted(t)
  \/ SkipOutline(t) \/ EnterFolder(t) \/ CreateNode(t)
  \/ Refetch(t) \/ LoadNodes(t) \/ FailReading(t)

Next ==
  \/ \E t \in Threads : Step(t)
  \/ \E call \in BagToSet(astray) : CommitAstray(call)
  \/ ExportFeeds \/ OtherCreates \/ OtherDeletes

Spec == Init /\ [][Next]_vars

-----------------------------------------------------------------------------
(* Properties                                                                *)

IsTree(nodes) == DOMAIN nodes \subseteq 1..lastId /\ nodes \in [DOMAIN nodes -> Node]

\* What an import still has to do goes into nodes it knows of, and every node
\* known anywhere has been created, the folders that calls are astray for, too.
TypeOK ==
  /\ lastId \in Nat /\ IsTree(tree) /\ IsTree(shown)
  /\ \A f \in files : f.file \in Seq(Node)
  /\ \A t \in Threads :
       \/ thread[t] = Idle
       \/ /\ thread[t].stage \in Stages /\ thread[t].file \in files
          /\ IsTree(thread[t].existing) /\ IsTree(thread[t].nodes)
          /\ \A k \in DOMAIN thread[t].todo :
               /\ thread[t].todo[k][1] \in DOMAIN thread[t].file.file
               /\ thread[t].stage = "create" =>
                    thread[t].todo[k][2] \in DOMAIN thread[t].existing \cup {Root}
          /\ {thread[t].overwrite, thread[t].wrote, thread[t].late} \subseteq BOOLEAN
  /\ \A call \in BagToSet(astray) :
       \/ call.call = "create" /\ call.node \in Node /\ call.node.parent <= lastId
       \/ call.call = "delete" /\ call.id \in 1..lastId
  /\ \A what \in DOMAIN budget : budget[what] \in Nat
  /\ unseen \in BOOLEAN

\* The names on the way to a node or an outline, from the root or from where it is
\* cut off
Path(nodes, node) ==
  LET path[n \in DOMAIN nodes] ==
        LET p == nodes[n].parent
        IN IF p \in DOMAIN nodes THEN Append(path[p], nodes[n].name) ELSE <<nodes[n].name>>
  IN path[node]

FeedsOf(nodes)       == {n \in Grounded(nodes) : IsFeed(nodes[n])}
Paths(nodes, ns)     == {Path(nodes, n) : n \in ns}
FeedPaths(nodes)     == Paths(nodes, FeedsOf(nodes))
FolderPaths(nodes)   == Paths(nodes, Grounded(nodes) \ FeedsOf(nodes))
Around(paths)        == UNION {{SubSeq(p, 1, k) : k \in 1..Len(p) - 1} : p \in paths}
NoTwins(nodes)       == Cardinality(Paths(nodes, Grounded(nodes))) = Cardinality(Grounded(nodes))

\* What is there now is what the file stands for: each of its feeds as often as
\* it is in the file, each of its folders once, and nothing else.
Overwritten(file) ==
  /\ FeedPaths(tree) = FeedPaths(file)
  /\ Cardinality(FeedsOf(tree)) = Cardinality(FeedsOf(file))
  /\ FolderPaths(tree) = FolderPaths(file)
  /\ NoTwins(Restrict(tree, DOMAIN tree \ FeedsOf(tree)))

\* What was there is there as it was, with the feeds of the file that it did not
\* have, once each, and the folders around them.
Merged(base, file) ==
  /\ \A n \in DOMAIN base : n \in DOMAIN tree /\ tree[n] = base[n]
  /\ FeedPaths(tree) = FeedPaths(base) \cup FeedPaths(file)
  /\ FolderPaths(tree) = FolderPaths(base) \cup Around(FeedPaths(file))
  /\ NoTwins(base) => NoTwins(tree)

\* The text of the dialog: "Merge preserves existing feeds. Overwrite replaces the
\* current feed tree." Of any number of imports of one file in one mode, which no
\* other change came between, whichever of their calls failed, and whenever those
\* were committed but once a later import had fetched the tree: when one succeeds,
\* the tree is what a single one would have made of the tree before the first of
\* them; and meanwhile none has left a node that the root does not have below it.
\* With a file that was exported, overwriting restores what the root had below it.
ImportedAsWritten ==
  series # NoSeries =>
    /\ Grounded(series.base) = DOMAIN series.base => Grounded(tree) = DOMAIN tree
    /\ series.done => IF series.overwrite THEN Overwritten(series.file.means)
                      ELSE Merged(series.base, series.file.means)

\* When no import is under way the device shows what its user has, unless an
\* import failed after it had changed the tree, a call that had failed was committed
\* later, or a change overtook one that was about to show the tree, and none has
\* succeeded since.
ShownUnlessFailed ==
  (\A t \in Threads : thread[t] = Idle) /\ ~unseen =>
    Restrict(shown, Grounded(shown)) = Restrict(tree, Grounded(tree))
=============================================================================
