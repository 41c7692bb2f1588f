----------------------------- MODULE FeedForest -----------------------------
(***************************************************************************)
(* What the tree repository promises its callers                           *)
(* (backend/src/tree_repository.h): the folders and feeds of each user form *)
(* a forest, and every call takes effect at one instant, as one change of   *)
(* one row. Deleting a folder deletes its row only: the rows below it stay, *)
(* cut off from the root. The other columns of a row are not told apart.    *)
(***************************************************************************)
CONSTANTS
  Nodes,  \* the ids newUuid may return
  Users,
  Root    \* the empty parent_id, which is no node

VARIABLES
  tree,   \* table tree_nodes: a function on the ids that have a row
  used    \* ids newUuid has returned; it never returns one twice

Row == [owner : Users, type : {"folder", "feed"}, parent : Nodes \cup {Root}]

Holds(u, n) == n \in DOMAIN tree /\ tree[n].owner = u

HoldsFolder(u, n) == Holds(u, n) /\ tree[n].type = "folder"

\* S leads to the root: with a node it holds the parent, all the way up.
Grounded(S) == \A m \in S : tree[m].parent \in S \cup {Root}

\* The way from p up to the root does not pass n.
Apart(n, p) ==
  \E S \in SUBSET DOMAIN tree : p \in S /\ n \notin S /\ Grounded(S)

Create(u, n, t, p) ==
  /\ n \notin used
  /\ p = Root \/ HoldsFolder(u, p)
  /\ tree' = [m \in DOMAIN tree \cup {n} |->
                IF m = n THEN [owner |-> u, type |-> t, parent |-> p] ELSE tree[m]]
  /\ used' = used \cup {n}

\* Any change of a row; a change that is not a move names the parent it has.
Update(u, n, p) ==
  /\ Holds(u, n)
  /\ p = Root \/ (HoldsFolder(u, p) /\ Apart(n, p))
  /\ tree' = [tree EXCEPT ![n].parent = p]
  /\ UNCHANGED used

Delete(u, n) ==
  /\ Holds(u, n)
  /\ tree' = [m \in DOMAIN tree \ {n} |-> tree[m]]
  /\ UNCHANGED used

Init ==
  /\ tree = [n \in {} |-> Root]
  /\ used = {}

Next ==
  \E u \in Users, n \in Nodes :
    \/ \E t \in {"folder", "feed"}, p \in Nodes \cup {Root} : Create(u, n, t, p)
    \/ \E p \in Nodes \cup {Root} : Update(u, n, p)
    \/ Delete(u, n)

Spec == Init /\ [][Next]_<<tree, used>>
-----------------------------------------------------------------------------
\* No node is its own ancestor: no set of nodes is closed under parent without
\* reaching the root or a missing row. Every walk up (isDescendantLocked) and
\* every walk down (the recursive queries over a folder) ends because of it.
Acyclic ==
  \A S \in SUBSET DOMAIN tree : S # {} => \E n \in S : tree[n].parent \notin S

\* A parent, while its row is there, is a folder of the same user.
ParentsAreFolders ==
  \A n \in DOMAIN tree :
    tree[n].parent \in DOMAIN tree => HoldsFolder(tree[n].owner, tree[n].parent)

Attached(n) == \E S \in SUBSET DOMAIN tree : n \in S /\ Grounded(S)
=============================================================================
