------------------------ MODULE TreeRepositoryProofs ------------------------
(* Proofs about TreeRepository, for any set of ids and any users: every      *)
(* safety property that the run of TreeRepository checks on four ids, and    *)
(* that the repository implements FeedForest.                                *)
EXTENDS TreeRepository, TLAPS

\* An id is only written into parent_id once newUuid has returned it, so no
\* row waits for a parent that is still to be created.
ParentsUsed == \A n \in DOMAIN tree : tree[n].parent \in used \cup {Root}

\* What the walk up has found: it started at the wanted parent, has passed only
\* rows, and among them not the node that is to be moved.
WalkSound ==
  /\ call \in {"walk", "write"} => Fetched(request.user, request.node)
  /\ call = "walk" =>
       /\ ValidParent(request.user, request.parent)
       /\ visited \subseteq DOMAIN tree
       /\ request.node \notin visited
       /\ request.parent \in visited \cup {cursor}
       /\ \A m \in visited : tree[m].parent \in visited \cup {cursor}
  /\ call = "write" /\ request.parent # Root =>
       /\ ValidParent(request.user, request.parent)
       /\ visited \subseteq DOMAIN tree
       /\ request.node \notin visited
       /\ request.parent \in visited
       /\ Forest!Grounded(visited)

\* Every way up from c passes n.
Under(c, n) ==
  \A S \in SUBSET Nodes :
    c \in S /\ (\A m \in S \cap DOMAIN tree : tree[m].parent \in S \cup {Root}) => n \in S

\* What a query has found: rows of the user below the folder, and of a row
\* that it has listed the children as well.
QuerySound ==
  /\ call # "query" => queue = {} /\ listed = {}
  /\ call = "query" =>
       /\ request.node \in listed \cup queue
       /\ \A m \in listed \cup queue :
            Fetched(request.user, m) /\ Under(m, request.node)
       /\ \A m \in listed : ChildrenOf(request.user, m) \subseteq listed \cup queue

Inv ==
  /\ TypeOK
  /\ ParentsUsed
  /\ Acyclic
  /\ ParentsAreFolders
  /\ WalkSound
  /\ QuerySound

-----------------------------------------------------------------------------
(* Types                                                                     *)

LEMMA NoRequestIsNone == NoRequest \notin Requests
  BY RootIsNoNode DEF NoRequest, Requests

\* A call in progress has the arguments it was made with.
LEMMA RequestTyped ==
  ASSUME TypeOK, call # "none"
  PROVE  /\ request \in Requests
         /\ request.user \in Users
         /\ request.node \in Nodes
         /\ request.parent \in Parents
  BY DEF TypeOK, Requests

LEMMA TypeInit == Init => TypeOK
  BY NoRequestIsNone DEF Init, TypeOK, Parents, Forest!Row

\* A row that is there, with the types of its columns.
LEMMA RowTyped ==
  ASSUME TypeOK, NEW n \in DOMAIN tree
  PROVE  /\ n \in Nodes
         /\ n \in used
         /\ tree[n].owner \in Users
         /\ tree[n].type \in {"folder", "feed"}
         /\ tree[n].parent \in Parents
  BY DEF TypeOK, Forest!Row, Parents

LEMMA TypeStep == TypeOK /\ [Next]_vars => TypeOK'
<1> SUFFICES ASSUME TypeOK, [Next]_vars
             PROVE  TypeOK'
  OBVIOUS
<1> USE NoRequestIsNone, RequestTyped
<1>1. CASE UNCHANGED vars
  BY <1>1 DEF vars, rows, walk, scan, TypeOK
<1>2. ASSUME NEW u \in Users, NEW t \in {"folder", "feed"}, NEW p \in Parents, Create(u, t, p)
      PROVE  TypeOK'
  <2>1. PICK n \in Nodes \ used :
          /\ tree' = [m \in DOMAIN tree \cup {n} |->
                        IF m = n THEN [owner |-> u, type |-> t, parent |-> p] ELSE tree[m]]
          /\ used' = used \cup {n}
    BY <1>2 DEF Create
  <2>2. UNCHANGED <<call, walk, scan>> /\ call = "none"
    BY <1>2 DEF Create
  <2>3. [owner |-> u, type |-> t, parent |-> p] \in Forest!Row
    BY DEF Forest!Row, Parents
  <2>4. tree' \in [DOMAIN tree' -> Forest!Row] /\ DOMAIN tree' \subseteq used'
    BY <2>1, <2>3 DEF TypeOK
  <2> QED
    BY <2>1, <2>2, <2>4 DEF TypeOK, walk, scan
<1>3. ASSUME NEW u \in Users, NEW n \in Nodes, DeleteNode(u, n)
      PROVE  TypeOK'
  BY <1>3 DEF DeleteNode, TypeOK, walk, scan
<1>4. ASSUME NEW u \in Users, NEW n \in Nodes, NotFound(u, n)
      PROVE  TypeOK'
  BY <1>4 DEF NotFound, vars, rows, walk, scan, TypeOK
<1>5. ASSUME NEW u \in Users, NEW n \in Nodes, BeginQuery(u, n)
      PROVE  TypeOK'
  BY <1>5 DEF BeginQuery, TypeOK, rows, Requests, Parents
<1>6. ASSUME NEW u \in Users, NEW n \in Nodes, NEW p \in Parents, BeginUpdate(u, n, p)
      PROVE  TypeOK'
  BY <1>6 DEF BeginUpdate, TypeOK, rows, scan, Requests, Parents, ValidParent, Fetched
<1>7. CASE WalkUp
  <2>1. cursor \in Nodes /\ Above \in Parents
    BY <1>7, RowTyped DEF WalkUp, TypeOK, Above
  <2>2. Above # Root => Above \in DOMAIN tree
    BY <1>7 DEF WalkUp, PathBroken, Fetched
  <2> QED
    BY <1>7, <2>1, <2>2 DEF WalkUp, TypeOK, rows, scan, Parents
<1>8. CASE RefuseUpdate
  BY <1>8 DEF RefuseUpdate, TypeOK, rows, scan, Parents
<1>9. CASE WriteUpdate
  <2>1. tree' \in [DOMAIN tree' -> Forest!Row] /\ DOMAIN tree' = DOMAIN tree
    BY <1>9 DEF WriteUpdate, TypeOK, Forest!Row, Parents
  <2> QED
    BY <1>9, <2>1 DEF WriteUpdate, TypeOK, scan, Parents
<1>10. CASE ExpandQuery
  BY <1>10, RowTyped DEF ExpandQuery, TypeOK, rows, walk, ChildrenOf
<1>11. CASE EndQuery
  BY <1>11 DEF EndQuery, TypeOK, rows
<1> QED
  BY <1>1, <1>2, <1>3, <1>4, <1>5, <1>6, <1>7, <1>8, <1>9, <1>10, <1>11
     DEF Next, Call, HolderStep, CreateFolder, CreateFeed

-----------------------------------------------------------------------------
(* The tree                                                                  *)

\* A row that is inserted has an id that no row names as its parent.
LEMMA CreateKeepsTree ==
  ASSUME Inv, NEW u \in Users, NEW t \in {"folder", "feed"}, NEW p \in Parents,
         Create(u, t, p)
  PROVE  ParentsUsed' /\ Acyclic' /\ ParentsAreFolders' /\ WalkSound' /\ QuerySound'
<1>1. PICK n \in Nodes \ used :
        /\ tree' = [m \in DOMAIN tree \cup {n} |->
                      IF m = n THEN [owner |-> u, type |-> t, parent |-> p] ELSE tree[m]]
        /\ used' = used \cup {n}
  BY DEF Create
<1>2. /\ call = "none" /\ call' = "none"
      /\ p = Root \/ ValidParent(u, p)
      /\ UNCHANGED <<queue, listed>>
  BY DEF Create, walk, scan
<1>3. DOMAIN tree' = DOMAIN tree \cup {n} /\ n \notin DOMAIN tree /\ n # Root
  BY <1>1, RowTyped, RootIsNoNode DEF Inv
<1>4. \A m \in DOMAIN tree : tree'[m] = tree[m] /\ tree[m].parent # n
  BY <1>1, <1>3 DEF Inv, ParentsUsed
<1>5. /\ tree'[n].owner = u /\ tree'[n].type = t /\ tree'[n].parent = p
      /\ p \in used \cup {Root} /\ p # n
  BY <1>1, <1>2, <1>3, RowTyped DEF Inv, ValidParent, Fetched
<1>6. ParentsUsed'
  BY <1>1, <1>3, <1>4, <1>5 DEF Inv, ParentsUsed
<1>7. Acyclic'
  <2> SUFFICES ASSUME NEW S \in SUBSET DOMAIN tree', S # {}
               PROVE  \E m \in S : tree'[m].parent \notin S
    BY DEF Acyclic, Forest!Acyclic
  <2>1. CASE S \subseteq {n}
    BY <2>1, <1>3, <1>5
  <2>2. CASE ~(S \subseteq {n})
    <3>1. PICK m \in S \ {n} : tree[m].parent \notin S \ {n}
      BY <2>2, <1>3 DEF Inv, Acyclic, Forest!Acyclic
    <3> QED
      BY <3>1, <1>3, <1>4
  <2> QED
    BY <2>1, <2>2
<1>8. ParentsAreFolders'
  <2> SUFFICES ASSUME NEW m \in DOMAIN tree', tree'[m].parent \in DOMAIN tree'
               PROVE  /\ tree'[tree'[m].parent].owner = tree'[m].owner
                      /\ tree'[tree'[m].parent].type = "folder"
    BY DEF ParentsAreFolders, Forest!ParentsAreFolders, Forest!HoldsFolder, Forest!Holds
  <2>1. CASE m = n
    <3>1. p \in DOMAIN tree /\ tree[p].owner = u /\ tree[p].type = "folder"
      BY <2>1, <1>2, <1>3, <1>5, RowTyped, RootIsNoNode DEF Inv, ValidParent, Fetched
    <3> QED
      BY <2>1, <3>1, <1>4, <1>5
  <2>2. CASE m # n
    <3>1. m \in DOMAIN tree /\ tree[m].parent \in DOMAIN tree
      BY <2>2, <1>3, <1>4
    <3> QED
      BY <3>1, <1>4
         DEF Inv, ParentsAreFolders, Forest!ParentsAreFolders, Forest!HoldsFolder, Forest!Holds
  <2> QED
    BY <2>1, <2>2
<1> QED
  BY <1>2, <1>6, <1>7, <1>8 DEF Inv, WalkSound, QuerySound

\* Deleting a row only takes parents away.
LEMMA DeleteKeepsTree ==
  ASSUME Inv, NEW u \in Users, NEW n \in Nodes, DeleteNode(u, n)
  PROVE  ParentsUsed' /\ Acyclic' /\ ParentsAreFolders' /\ WalkSound' /\ QuerySound'
<1>1. /\ DOMAIN tree' = DOMAIN tree \ {n}
      /\ \A m \in DOMAIN tree' : tree'[m] = tree[m]
      /\ call = "none" /\ call' = "none"
      /\ UNCHANGED <<used, queue, listed>>
  BY DEF DeleteNode, walk, scan
<1>2. ParentsUsed'
  BY <1>1 DEF Inv, ParentsUsed
<1>3. Acyclic'
  BY <1>1 DEF Inv, Acyclic, Forest!Acyclic
<1>4. ParentsAreFolders'
  BY <1>1 DEF Inv, ParentsAreFolders, Forest!ParentsAreFolders, Forest!HoldsFolder, Forest!Holds
<1> QED
  BY <1>1, <1>2, <1>3, <1>4 DEF Inv, WalkSound, QuerySound

\* The UPDATE of a move makes no cycle: a set that is closed under the new
\* parents has a part in visited that is closed under the old ones.
LEMMA WriteKeepsTree ==
  ASSUME Inv, WriteUpdate
  PROVE  ParentsUsed' /\ Acyclic' /\ ParentsAreFolders' /\ WalkSound' /\ QuerySound'
<1> DEFINE n == request.node
           p == request.parent
<1>1. /\ call = "write" /\ call' = "none"
      /\ UNCHANGED <<used, queue, listed>>
      /\ tree' = [tree EXCEPT ![n].parent = p]
  BY DEF WriteUpdate, scan
<1>2. /\ n \in DOMAIN tree /\ tree[n].owner = request.user
      /\ p \in Parents
  BY <1>1, RequestTyped DEF Inv, WalkSound, Fetched
<1>3. /\ DOMAIN tree' = DOMAIN tree
      /\ \A m \in DOMAIN tree : /\ tree'[m].owner = tree[m].owner
                                /\ tree'[m].type = tree[m].type
                                /\ m # n => tree'[m].parent = tree[m].parent
      /\ tree'[n].parent = p
  BY <1>1, <1>2 DEF Inv, TypeOK, Forest!Row
<1>4. \/ p = Root
      \/ /\ p \in DOMAIN tree /\ tree[p].owner = request.user /\ tree[p].type = "folder"
         /\ visited \subseteq DOMAIN tree /\ n \notin visited /\ p \in visited
         /\ \A m \in visited : tree[m].parent \in visited \cup {Root}
  BY <1>1 DEF Inv, WalkSound, ValidParent, Fetched, Forest!Grounded
<1> HIDE DEF n, p
<1>5. ParentsUsed'
  BY <1>1, <1>3, <1>4, RowTyped DEF Inv, ParentsUsed
<1>6. Acyclic'
  <2> SUFFICES ASSUME NEW S \in SUBSET DOMAIN tree, S # {}
               PROVE  \E m \in S : tree'[m].parent \notin S
    BY <1>3 DEF Acyclic, Forest!Acyclic
  <2>1. \A T \in SUBSET DOMAIN tree : T # {} => \E m \in T : tree[m].parent \notin T
    BY DEF Inv, Acyclic, Forest!Acyclic
  <2>2. Root \notin S
    BY RowTyped, RootIsNoNode DEF Inv
  <2>3. CASE n \notin S
    BY <2>1, <2>3, <1>3
  <2>4. CASE n \in S /\ p \notin S
    BY <2>4, <1>3
  <2>5. CASE n \in S /\ p \in S
    <3>1. PICK m \in S \cap visited : tree[m].parent \notin S \cap visited
      BY <2>1, <2>2, <2>5, <1>4
    <3>2. tree[m].parent \notin S
      BY <3>1, <2>2, <2>5, <1>4
    <3>3. m # n /\ m \in DOMAIN tree
      BY <3>1, <2>2, <2>5, <1>4
    <3> QED
      BY <3>1, <3>2, <3>3, <1>3
  <2> QED
    BY <2>3, <2>4, <2>5
<1>7. ParentsAreFolders'
  <2> SUFFICES ASSUME NEW m \in DOMAIN tree, tree'[m].parent \in DOMAIN tree
               PROVE  /\ tree[tree'[m].parent].owner = tree[m].owner
                      /\ tree[tree'[m].parent].type = "folder"
    BY <1>3 DEF ParentsAreFolders, Forest!ParentsAreFolders, Forest!HoldsFolder, Forest!Holds
  <2>1. CASE m = n
    BY <2>1, <1>2, <1>3, <1>4, RowTyped, RootIsNoNode DEF Inv
  <2>2. CASE m # n
    BY <2>2, <1>3
       DEF Inv, ParentsAreFolders, Forest!ParentsAreFolders, Forest!HoldsFolder, Forest!Holds
  <2> QED
    BY <2>1, <2>2
<1> QED
  BY <1>1, <1>5, <1>6, <1>7 DEF Inv, WalkSound, QuerySound

-----------------------------------------------------------------------------
(* The walks                                                                 *)

\* What is said of the tree alone stays when the rows stay.
LEMMA RowsKept ==
  ASSUME Inv, UNCHANGED rows
  PROVE  ParentsUsed' /\ Acyclic' /\ ParentsAreFolders'
BY DEF Inv, rows, ParentsUsed, Acyclic, Forest!Acyclic, ParentsAreFolders,
       Forest!ParentsAreFolders, Forest!HoldsFolder, Forest!Holds

LEMMA BeginUpdateSound ==
  ASSUME Inv, NEW u \in Users, NEW n \in Nodes, NEW p \in Parents, BeginUpdate(u, n, p)
  PROVE  WalkSound' /\ QuerySound'
<1>1. /\ call = "none" /\ call' = IF p = Root THEN "write" ELSE "walk"
      /\ Fetched(u, n) /\ (p = Root \/ ValidParent(u, p))
      /\ request' = [user |-> u, node |-> n, parent |-> p]
      /\ cursor' = p /\ visited' = {}
      /\ UNCHANGED <<tree, used, queue, listed>>
  BY DEF BeginUpdate, rows, scan
<1>2. Fetched(u, n)' /\ (p = Root \/ ValidParent(u, p)')
  BY <1>1 DEF Fetched, ValidParent
<1> QED
  BY <1>1, <1>2 DEF Inv, WalkSound, QuerySound, Fetched, ValidParent

LEMMA WalkUpSound ==
  ASSUME Inv, WalkUp
  PROVE  WalkSound' /\ QuerySound'
<1>1. /\ call = "walk" /\ cursor # request.node
      /\ visited' = visited \cup {cursor}
      /\ cursor' = tree[cursor].parent
      /\ call' = IF tree[cursor].parent = Root THEN "write" ELSE "walk"
      /\ UNCHANGED <<tree, used, request, queue, listed>>
  BY DEF WalkUp, MeetsNode, Above, rows, scan
<1>2. cursor \in DOMAIN tree
  BY <1>1 DEF Inv, TypeOK
<1>3. \A m \in visited' : tree'[m].parent \in visited' \cup {cursor'}
  BY <1>1 DEF Inv, WalkSound
<1>4. call' = "write" => Forest!Grounded(visited)'
  BY <1>1, <1>3 DEF Forest!Grounded
<1> QED
  BY <1>1, <1>2, <1>3, <1>4 DEF Inv, WalkSound, QuerySound, Fetched, ValidParent

LEMMA BeginQuerySound ==
  ASSUME Inv, NEW u \in Users, NEW n \in Nodes, BeginQuery(u, n)
  PROVE  WalkSound' /\ QuerySound'
<1>1. /\ call = "none" /\ call' = "query"
      /\ Fetched(u, n)
      /\ request' = [user |-> u, node |-> n, parent |-> Root]
      /\ queue' = {n}
      /\ UNCHANGED <<tree, used, listed>>
  BY DEF BeginQuery, rows
<1>2. listed' = {}
  BY <1>1 DEF Inv, QuerySound
<1>3. Under(n, n)'
  BY DEF Under
<1> QED
  BY <1>1, <1>2, <1>3 DEF WalkSound, QuerySound, Fetched

LEMMA ExpandQuerySound ==
  ASSUME Inv, ExpandQuery
  PROVE  WalkSound' /\ QuerySound'
<1> DEFINE u == request.user
           n == request.node
<1>1. PICK m \in queue : /\ listed' = listed \cup {m}
                         /\ queue' = (queue \ {m}) \cup ChildrenOf(u, m)
  BY DEF ExpandQuery
<1>2. call = "query" /\ call' = "query" /\ UNCHANGED <<tree, used, request, cursor, visited>>
  BY DEF ExpandQuery, rows, walk
<1>3. Fetched(u, m) /\ Under(m, n)
  BY <1>1, <1>2 DEF Inv, QuerySound
<1>4. \A c \in ChildrenOf(u, m) : Fetched(u, c) /\ Under(c, n)
  <2> SUFFICES ASSUME NEW c \in ChildrenOf(u, m)
               PROVE  Fetched(u, c) /\ Under(c, n)
    OBVIOUS
  <2>1. c \in DOMAIN tree /\ tree[c].owner = u /\ tree[c].parent = m
    BY DEF ChildrenOf
  <2>2. m # Root
    BY <1>3, RowTyped, RootIsNoNode DEF Inv, Fetched
  <2> QED
    BY <1>3, <2>1, <2>2 DEF Under, Fetched
<1>5. n \in listed' \cup queue'
  BY <1>1, <1>2 DEF Inv, QuerySound
<1>6. \A c \in listed' \cup queue' : Fetched(u, c) /\ Under(c, n)
  BY <1>1, <1>2, <1>3, <1>4 DEF Inv, QuerySound
<1>7. \A c \in listed' : ChildrenOf(u, c) \subseteq listed' \cup queue'
  BY <1>1, <1>2 DEF Inv, QuerySound
<1>8. WalkSound'
  BY <1>2 DEF WalkSound
<1> QED
  BY <1>2, <1>5, <1>6, <1>7, <1>8 DEF QuerySound, Fetched, Under, ChildrenOf

-----------------------------------------------------------------------------
(* The invariant                                                             *)

LEMMA InvInit == Init => Inv
<1> SUFFICES ASSUME Init
             PROVE  Inv
  OBVIOUS
<1>1. TypeOK
  BY TypeInit
<1>2. DOMAIN tree = {} /\ call = "none" /\ queue = {} /\ listed = {}
  BY DEF Init
<1> QED
  BY <1>1, <1>2
     DEF Inv, ParentsUsed, Acyclic, Forest!Acyclic, ParentsAreFolders,
         Forest!ParentsAreFolders, WalkSound, QuerySound

LEMMA InvStep == Inv /\ [Next]_vars => Inv'
<1> SUFFICES ASSUME Inv, [Next]_vars
             PROVE  Inv'
  OBVIOUS
<1>0. TypeOK'
  BY TypeStep DEF Inv
<1>1. ASSUME UNCHANGED vars
      PROVE  Inv'
  <2>1. UNCHANGED <<tree, used, call, request, cursor, visited, queue, listed>>
    BY <1>1 DEF vars, rows, walk, scan
  <2>2. WalkSound' /\ QuerySound'
    BY <2>1 DEF Inv, WalkSound, QuerySound, Fetched, ValidParent, Under, ChildrenOf,
                Forest!Grounded
  <2> QED
    BY <1>0, <2>1, <2>2, RowsKept DEF Inv, rows
<1>2. ASSUME NEW u \in Users, NEW t \in {"folder", "feed"}, NEW p \in Parents, Create(u, t, p)
      PROVE  Inv'
  BY <1>0, <1>2, CreateKeepsTree DEF Inv
<1>3. ASSUME NEW u \in Users, NEW n \in Nodes, DeleteNode(u, n)
      PROVE  Inv'
  BY <1>0, <1>3, DeleteKeepsTree DEF Inv
<1>4. ASSUME NEW u \in Users, NEW n \in Nodes, NotFound(u, n)
      PROVE  Inv'
  BY <1>1, <1>4 DEF NotFound
<1>5. ASSUME NEW u \in Users, NEW n \in Nodes, BeginQuery(u, n)
      PROVE  Inv'
  BY <1>0, <1>5, BeginQuerySound, RowsKept DEF Inv, BeginQuery
<1>6. ASSUME NEW u \in Users, NEW n \in Nodes, NEW p \in Parents, BeginUpdate(u, n, p)
      PROVE  Inv'
  BY <1>0, <1>6, BeginUpdateSound, RowsKept DEF Inv, BeginUpdate
<1>7. CASE WalkUp
  BY <1>0, <1>7, WalkUpSound, RowsKept DEF Inv, WalkUp
<1>8. CASE RefuseUpdate
  <2>1. WalkSound' /\ QuerySound'
    BY <1>8 DEF Inv, RefuseUpdate, scan, WalkSound, QuerySound
  <2> QED
    BY <1>0, <1>8, <2>1, RowsKept DEF Inv, RefuseUpdate
<1>9. CASE WriteUpdate
  BY <1>0, <1>9, WriteKeepsTree DEF Inv
<1>10. CASE ExpandQuery
  BY <1>0, <1>10, ExpandQuerySound, RowsKept DEF Inv, ExpandQuery
<1>11. CASE EndQuery
  <2>1. WalkSound' /\ QuerySound'
    BY <1>11 DEF EndQuery, WalkSound, QuerySound
  <2> QED
    BY <1>0, <1>11, <2>1, RowsKept DEF Inv, EndQuery
<1> QED
  BY <1>1, <1>2, <1>3, <1>4, <1>5, <1>6, <1>7, <1>8, <1>9, <1>10, <1>11
     DEF Next, Call, HolderStep, CreateFolder, CreateFeed

LEMMA InvHolds == Spec => []Inv
  BY InvInit, InvStep, PTL DEF Spec

-----------------------------------------------------------------------------
(* The theorems                                                              *)

\* Types: the columns of a row, the arguments of a call in progress, and that
\* the walk up always stands on a row.
THEOREM TypeCorrect == Spec => []TypeOK
  BY InvHolds, PTL DEF Inv

\* createFolder, createFeed, updateNode and deleteNode never make a node its
\* own ancestor, in whatever order they are called and whatever was deleted.
THEOREM NeverCyclic == Spec => []Acyclic
  BY InvHolds, PTL DEF Inv

\* A parent_id never leads to a feed or to another user's folder.
THEOREM ParentsStayFolders == Spec => []ParentsAreFolders
  BY InvHolds, PTL DEF Inv

\* The recursive query of listArticles and markAllArticlesRead returns the
\* folder and the rows below it, no other rows, and misses none.
THEOREM QueriesAreExact == Spec => []QueryExact
<1>1. Inv => QueryExact
  <2> SUFFICES ASSUME Inv, call = "query", queue = {}
               PROVE  listed = {c \in DOMAIN tree : Under(c, request.node)}
    BY DEF QueryExact, Under
  <2>1. \A c \in listed : c \in DOMAIN tree /\ Under(c, request.node)
    BY DEF Inv, QuerySound, Fetched
  <2>2. ASSUME NEW c \in DOMAIN tree, Under(c, request.node), c \notin listed
        PROVE  FALSE
    <3> DEFINE S == Nodes \ listed
    <3>1. ASSUME NEW m \in S \cap DOMAIN tree
          PROVE  tree[m].parent \in S \cup {Root}
      <4> SUFFICES ASSUME tree[m].parent \in listed
                   PROVE  FALSE
        BY RowTyped DEF Inv, Parents
      <4>1. tree[m].parent \in DOMAIN tree /\ tree[tree[m].parent].owner = request.user
        BY DEF Inv, QuerySound, Fetched
      <4>2. tree[m].owner = request.user
        BY <4>1 DEF Inv, ParentsAreFolders, Forest!ParentsAreFolders, Forest!HoldsFolder, Forest!Holds
      <4>3. m \in ChildrenOf(request.user, tree[m].parent)
        BY <4>2 DEF ChildrenOf
      <4> QED
        BY <4>3 DEF Inv, QuerySound
    <3>2. c \in S
      BY <2>2, RowTyped DEF Inv
    <3>3. request.node \in S
      BY <2>2, <3>1, <3>2 DEF Under
    <3> QED
      BY <3>3 DEF Inv, QuerySound
  <2> QED
    BY <2>1, <2>2
<1> QED
  BY <1>1, InvHolds, PTL

\* The steps that change the tree, each as a change of one row.
LEMMA StepsOfForest ==
  ASSUME Inv, [Next]_vars
  PROVE  \/ UNCHANGED rows
         \/ \E u \in Users, n \in Nodes, t \in {"folder", "feed"}, p \in Parents :
              Forest!Create(u, n, t, p)
         \/ \E u \in Users, n \in Nodes, p \in Parents : Forest!Update(u, n, p)
         \/ \E u \in Users, n \in Nodes : Forest!Delete(u, n)
<1>1. ASSUME NEW u \in Users, NEW t \in {"folder", "feed"}, NEW p \in Parents, Create(u, t, p)
      PROVE  \E n \in Nodes : Forest!Create(u, n, t, p)
  BY <1>1 DEF Create, Forest!Create, ValidParent, Fetched, Forest!HoldsFolder, Forest!Holds
<1>2. ASSUME NEW u \in Users, NEW n \in Nodes, DeleteNode(u, n)
      PROVE  Forest!Delete(u, n)
  BY <1>2 DEF DeleteNode, Forest!Delete, Forest!Holds, Fetched
<1>3. ASSUME WriteUpdate
      PROVE  \E u \in Users, n \in Nodes, p \in Parents : Forest!Update(u, n, p)
  <2>1. /\ call = "write" /\ UNCHANGED used
        /\ tree' = [tree EXCEPT ![request.node].parent = request.parent]
    BY <1>3 DEF WriteUpdate
  <2>2. request.user \in Users /\ request.node \in Nodes /\ request.parent \in Parents
    BY <2>1, RequestTyped DEF Inv
  <2>3. Forest!Holds(request.user, request.node)
    BY <2>1 DEF Inv, WalkSound, Fetched, Forest!Holds
  <2>4. \/ request.parent = Root
        \/ /\ Forest!HoldsFolder(request.user, request.parent)
           /\ Forest!Apart(request.node, request.parent)
    BY <2>1 DEF Inv, WalkSound, ValidParent, Fetched, Forest!HoldsFolder, Forest!Holds,
                Forest!Apart
  <2>5. Forest!Update(request.user, request.node, request.parent)
    BY <2>1, <2>3, <2>4 DEF Forest!Update
  <2> QED
    BY <2>2, <2>5
<1> QED
  BY <1>1, <1>2, <1>3
     DEF Next, Call, HolderStep, CreateFolder, CreateFeed, NotFound, BeginQuery, BeginUpdate,
         WalkUp, RefuseUpdate, ExpandQuery, EndQuery, vars, rows

\* A row that can be reached from the root is cut off from it by a deletion
\* only: a move takes what is below the node along.
THEOREM OnlyDeletionCutsOff == Spec => OnlyDeletionDetaches
<1> DEFINE Kept == \A n \in DOMAIN tree : Forest!Attached(n) => Forest!Attached(n)'
<1>1. ASSUME Inv, [Next]_vars, DOMAIN tree \subseteq DOMAIN tree'
      PROVE  Kept
  <2>1. CASE UNCHANGED rows
    BY <2>1 DEF rows, Forest!Attached, Forest!Grounded
  <2>2. ASSUME NEW u \in Users, NEW n \in Nodes, NEW t \in {"folder", "feed"}, NEW p \in Parents,
               Forest!Create(u, n, t, p)
        PROVE  Kept
    <3>1. /\ DOMAIN tree' = DOMAIN tree \cup {n}
          /\ \A m \in DOMAIN tree : tree'[m] = tree[m]
      BY <1>1, <2>2, RowTyped DEF Inv, Forest!Create
    <3> QED
      BY <3>1 DEF Forest!Attached, Forest!Grounded
  <2>3. ASSUME NEW u \in Users, NEW n \in Nodes, NEW p \in Parents, Forest!Update(u, n, p)
        PROVE  Kept
    <3>1. /\ DOMAIN tree' = DOMAIN tree
          /\ \A m \in DOMAIN tree : m # n => tree'[m].parent = tree[m].parent
          /\ tree'[n].parent = p
      BY <1>1, <2>3 DEF Forest!Update, Forest!Holds, Inv, TypeOK, Forest!Row
    <3> SUFFICES ASSUME NEW m \in DOMAIN tree, NEW S \in SUBSET DOMAIN tree,
                        m \in S, Forest!Grounded(S)
                 PROVE  \E T \in SUBSET DOMAIN tree :
                          m \in T /\ \A k \in T : tree'[k].parent \in T \cup {Root}
      BY <3>1 DEF Forest!Attached, Forest!Grounded
    <3>2. CASE p = Root
      BY <3>1, <3>2 DEF Forest!Grounded
    <3>3. CASE p # Root
      <4>1. PICK A \in SUBSET DOMAIN tree : p \in A /\ n \notin A /\ Forest!Grounded(A)
        BY <2>3, <3>3 DEF Forest!Update, Forest!Apart
      <4>2. \A k \in S \cup A : tree'[k].parent \in S \cup A \cup {Root}
        BY <3>1, <4>1 DEF Forest!Grounded
      <4> WITNESS S \cup A \in SUBSET DOMAIN tree
      <4> QED
        BY <4>2
    <3> QED
      BY <3>2, <3>3
  <2>4. ASSUME NEW u \in Users, NEW n \in Nodes, Forest!Delete(u, n)
        PROVE  Kept
    BY <1>1, <2>4 DEF Forest!Delete, Forest!Holds
  <2> QED
    BY <1>1, <2>1, <2>2, <2>3, <2>4, StepsOfForest
<1>2. Inv /\ [Next]_vars =>
        [DOMAIN tree \subseteq DOMAIN tree' => Kept]_vars
  BY <1>1
<1> QED
  BY <1>2, InvHolds, PTL DEF Spec, OnlyDeletionDetaches

\* The repository, whose calls walk the tree step by step, implements the
\* forest whose calls take effect at once.
THEOREM RepositoryImplementsForest == Spec => ImplementsForest
<1>1. Init => Forest!Init
  BY DEF Init, Forest!Init
<1>2. Inv /\ [Next]_vars => [Forest!Next]_<<tree, used>>
  <2> SUFFICES ASSUME Inv, [Next]_vars
               PROVE  Forest!Next \/ UNCHANGED <<tree, used>>
    OBVIOUS
  <2> QED
    BY StepsOfForest DEF Forest!Next, rows, Parents
<1> QED
  BY <1>1, <1>2, InvHolds, PTL DEF Spec, ImplementsForest, Forest!Spec
=============================================================================
