--------------------------- MODULE TreeRepository ---------------------------
(***************************************************************************)
(* The tree of folders and feeds in the backend                            *)
(* (backend/src/sqlite_tree_repository.cpp): the calls that read and write *)
(* table tree_nodes. mutex_ is held for the whole of a call, so one call   *)
(* runs at a time; the calls that walk the tree, up (isDescendantLocked)   *)
(* or down (the recursive queries over a folder), take one step per row.   *)
(* A call that is refused throws before it has changed anything.           *)
(***************************************************************************)
EXTENDS FiniteSets

CONSTANTS Nodes, Users, Root

ASSUME RootIsNoNode == Root \notin Nodes

VARIABLES
  tree,     \* table tree_nodes: a function on the ids that have a row
  used,     \* ids newUuid has returned
  call,     \* what the holder of mutex_ is doing
  request,  \* its user, its node and the parent that node is to have
  cursor,   \* isDescendantLocked: current
  visited,  \* history: the rows isDescendantLocked has passed
  queue,    \* recursive query: rows whose children are still to be read
  listed    \* recursive query: subtree

rows == <<tree, used>>
walk == <<request, cursor, visited>>
scan == <<queue, listed>>
vars == <<rows, call, walk, scan>>

Parents   == Nodes \cup {Root}
Requests  == [user : Users, node : Nodes, parent : Parents]
NoRequest == [user |-> "none", node |-> Root, parent |-> Root]

-----------------------------------------------------------------------------
(* Reading a row                                                             *)

\* fetchNodeLocked finds the row of user u; else it throws.
Fetched(u, n) == n \in DOMAIN tree /\ tree[n].owner = u

\* validateParentLocked. (Mutation: any node may be a parent.)
ValidParentOfAnyType(u, p) == Fetched(u, p)

ValidParent(u, p) == Fetched(u, p) /\ tree[p].type = "folder"

\* Rows of user u below m, one level. (Mutation: subfolders are not followed.)
FeedsOf(u, m) ==
  {c \in DOMAIN tree : tree[c].owner = u /\ tree[c].parent = m /\ tree[c].type = "feed"}

ChildrenOf(u, m) == {c \in DOMAIN tree : tree[c].owner = u /\ tree[c].parent = m}

-----------------------------------------------------------------------------
Init ==
  /\ tree = [n \in {} |-> Root]
  /\ used = {}
  /\ call = "none"
  /\ request = NoRequest
  /\ cursor = Root
  /\ visited = {}
  /\ queue = {}
  /\ listed = {}

\* INSERT of a row with a new id.
Create(u, type, p) ==
  /\ call = "none"
  /\ p = Root \/ ValidParent(u, p)
  /\ \E n \in Nodes \ used :
       /\ tree' = [m \in DOMAIN tree \cup {n} |->
                     IF m = n THEN [owner |-> u, type |-> type, parent |-> p] ELSE tree[m]]
       /\ used' = used \cup {n}
  /\ UNCHANGED <<call, walk, scan>>

CreateFolder(u, p) == Create(u, "folder", p)
CreateFeed(u, p)   == Create(u, "feed", p)

\* updateNode, up to the walk of validateReparentLocked.
BeginUpdate(u, n, p) ==
  /\ call = "none"
  /\ n # p
  /\ Fetched(u, n)
  /\ p = Root \/ ValidParent(u, p)
  /\ call' = IF p = Root THEN "write" ELSE "walk"
  /\ request' = [user |-> u, node |-> n, parent |-> p]
  /\ cursor' = p
  /\ visited' = {}
  /\ UNCHANGED <<rows, scan>>

\* The walk has come to the node that is to be moved. (Mutation: the node is
\* not looked for.)
NeverMeets == FALSE

MeetsNode == cursor = request.node

\* The parent_id the walk follows. (Mutation: a row that is gone passes for
\* the root.)
AboveOverGaps ==
  IF tree[cursor].parent \in DOMAIN tree THEN tree[cursor].parent ELSE Root

Above == tree[cursor].parent

\* The walk cannot go on: the row above is gone. (Mutation: nobody looks.)
NeverBroken == FALSE

PathBroken == Above # Root /\ ~Fetched(request.user, Above)

\* One round of isDescendantLocked's loop.
WalkUp ==
  /\ call = "walk"
  /\ ~MeetsNode
  /\ ~PathBroken
  /\ visited' = visited \cup {cursor}
  /\ cursor' = Above
  /\ call' = IF Above = Root THEN "write" ELSE "walk"
  /\ UNCHANGED <<rows, request, scan>>

\* "node cannot be moved into its own descendant", or "tree node not found".
RefuseUpdate ==
  /\ call = "walk"
  /\ MeetsNode \/ PathBroken
  /\ call' = "none"
  /\ request' = NoRequest
  /\ cursor' = Root
  /\ visited' = {}
  /\ UNCHANGED <<rows, scan>>

\* The UPDATE. A client names the type the node has, and a type never changes.
WriteUpdate ==
  /\ call = "write"
  /\ tree' = [tree EXCEPT ![request.node].parent = request.parent]
  /\ call' = "none"
  /\ request' = NoRequest
  /\ cursor' = Root
  /\ visited' = {}
  /\ UNCHANGED <<used, scan>>

DeleteNode(u, n) ==
  /\ call = "none"
  /\ Fetched(u, n)
  /\ tree' = [m \in DOMAIN tree \ {n} |-> tree[m]]
  /\ UNCHANGED <<used, call, walk, scan>>

\* A call that names a row the user does not have throws.
NotFound(u, n) ==
  /\ call = "none"
  /\ ~Fetched(u, n)
  /\ UNCHANGED vars

\* listArticles or markAllArticlesRead on a folder.
BeginQuery(u, n) ==
  /\ call = "none"
  /\ Fetched(u, n)
  /\ tree[n].type = "folder"
  /\ call' = "query"
  /\ request' = [user |-> u, node |-> n, parent |-> Root]
  /\ queue' = {n}
  /\ UNCHANGED <<rows, cursor, visited, listed>>

\* UNION ALL: a row is followed as often as it is found.
ExpandQuery ==
  /\ call = "query"
  /\ \E m \in queue :
       /\ listed' = listed \cup {m}
       /\ queue' = (queue \ {m}) \cup ChildrenOf(request.user, m)
  /\ UNCHANGED <<rows, call, walk>>

EndQuery ==
  /\ call = "query"
  /\ queue = {}
  /\ call' = "none"
  /\ request' = NoRequest
  /\ listed' = {}
  /\ UNCHANGED <<rows, cursor, visited, queue>>

-----------------------------------------------------------------------------
Call ==
  \E u \in Users :
    \/ \E p \in Parents : CreateFolder(u, p) \/ CreateFeed(u, p)
    \/ \E n \in Nodes : DeleteNode(u, n) \/ NotFound(u, n) \/ BeginQuery(u, n)
    \/ \E n \in Nodes, p \in Parents : BeginUpdate(u, n, p)

\* What the thread that holds mutex_ does next.
HolderStep == WalkUp \/ RefuseUpdate \/ WriteUpdate \/ ExpandQuery \/ EndQuery

Next == Call \/ HolderStep

Spec == Init /\ [][Next]_vars

\* The thread that holds mutex_ runs.
FairSpec == Spec /\ WF_vars(HolderStep)
-----------------------------------------------------------------------------
(* Properties                                                                *)

Forest == INSTANCE FeedForest

\* The variables keep their types: a row belongs to a user, has a parent that
\* was an id once, a call has the arguments it was made with, and the walk up
\* stands on a row that is there.
TypeOK ==
  /\ used \in SUBSET Nodes
  /\ DOMAIN tree \in SUBSET used
  /\ tree \in [DOMAIN tree -> Forest!Row]
  /\ call \in {"none", "walk", "write", "query"}
  /\ request \in Requests \cup {NoRequest}
  /\ (request = NoRequest) <=> (call = "none")
  /\ cursor \in Parents
  /\ call = "walk" => cursor \in DOMAIN tree
  /\ visited \in SUBSET Nodes
  /\ queue \in SUBSET Nodes
  /\ listed \in SUBSET Nodes

\* No sequence of creations, moves and deletions makes a node its own
\* ancestor, though the rows above a node may be gone.
Acyclic == Forest!Acyclic

\* A parent whose row is there is a folder of the same user, whatever rows
\* were moved and deleted before.
ParentsAreFolders == Forest!ParentsAreFolders

\* When a query over a folder ends it has listed the folder and what is below
\* it, and nothing else: exactly the rows whose way up passes the folder.
QueryExact ==
  call = "query" /\ queue = {} =>
    listed =
      {c \in DOMAIN tree :
         \A S \in SUBSET Nodes :
           c \in S /\ (\A m \in S \cap DOMAIN tree : tree[m].parent \in S \cup {Root})
             => request.node \in S}

\* Only a deletion cuts rows off from the root: a node that a client can reach
\* from the root stays reachable as long as no row is deleted.
OnlyDeletionDetaches ==
  [][DOMAIN tree \subseteq DOMAIN tree' =>
       \A n \in DOMAIN tree : Forest!Attached(n) => Forest!Attached(n)']_vars

\* Every call returns, and with it mutex_: the loops over the tree end.
EveryCallReturns == call # "none" ~> call = "none"

\* The repository implements the forest it promises.
ImplementsForest == Forest!Spec
=============================================================================
