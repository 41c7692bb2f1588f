--------------------------- MODULE FeedImportProofs ---------------------------
(* Proofs about FeedImport, for any names, threads and scenarios.            *)
EXTENDS FeedImport, WellFoundedInduction, FiniteSetTheorems, SequenceTheorems, TLAPS

-----------------------------------------------------------------------------
(* Induction over nodes                                                      *)

LEMMA LeastNat ==
  \A T \in SUBSET Nat : T # {} => \E n \in T : \A m \in T : n <= m
<1>1. IsWellFoundedOn(OpToRel(<,Nat), Nat)
  BY NatLessThanWellFounded
<1>2. TAKE T \in SUBSET Nat
<1>3. HAVE T # {}
<1>4. \E x \in T : \A y \in T : ~ (<<y, x>> \in OpToRel(<,Nat))
  BY <1>1, <1>3, WFMin
<1>5. \A x, y \in Nat : <<y, x>> \notin OpToRel(<,Nat) => x <= y
  BY DEF OpToRel
<1>. QED
  BY <1>4, <1>5

\* What holds of a node if it holds of its parent holds of all nodes.
LEMMA Upward ==
  ASSUME NEW D \in SUBSET Nat, NEW T,
         \A n \in D : (\A m \in D : m < n => m \in T) => n \in T
  PROVE  D \subseteq T
<1>1. SUFFICES ASSUME D \ T # {} PROVE FALSE
  OBVIOUS
<1>2. PICK n \in D \ T : \A m \in D \ T : n <= m
  BY <1>1, LeastNat
<1>3. \A m \in D : m < n => m \in T
  BY <1>2
<1>. QED
  BY <1>2, <1>3

LEMMA Downward ==
  ASSUME NEW n \in Nat, NEW T,
         \A k \in 1..n : (\A m \in 1..n : k < m => m \in T) => k \in T
  PROVE  1..n \subseteq T
<1>1. SUFFICES ASSUME (1..n) \ T # {} PROVE FALSE
  OBVIOUS
<1>. DEFINE gaps == {n - k : k \in (1..n) \ T}
<1>2. gaps \in SUBSET Nat /\ gaps # {}
  <2>1. \A k \in 1..n : n - k \in Nat
    OBVIOUS
  <2>. QED
    BY <1>1, <2>1
<1>3. PICK g \in gaps : \A h \in gaps : g <= h
  BY <1>2, LeastNat
<1>4. PICK k \in (1..n) \ T : g = n - k
  BY <1>3
<1>5. \A m \in 1..n : k < m => m \in T
  BY <1>3, <1>4
<1>. QED
  BY <1>4, <1>5

\* A parent has a smaller number than what is in it.
Grown(nodes) ==
  /\ \E b \in Nat : DOMAIN nodes \subseteq 1..b
  /\ \A n \in DOMAIN nodes : nodes[n].parent \in Nat /\ nodes[n].parent < n

LEMMA Parents ==
  ASSUME NEW nodes, Grown(nodes), NEW T,
         \A n \in DOMAIN nodes :
           (nodes[n].parent \in DOMAIN nodes => nodes[n].parent \in T) => n \in T
  PROVE  DOMAIN nodes \subseteq T
<1>1. DOMAIN nodes \in SUBSET Nat
  BY DEF Grown
<1>2. \A n \in DOMAIN nodes : (\A m \in DOMAIN nodes : m < n => m \in T) => n \in T
  BY DEF Grown
<1>. QED
  BY <1>1, <1>2, Upward

\* What is defined for a node from what it is for its parent is defined for all.
Defines(nodes, first, next, g) ==
  \A n \in DOMAIN g :
    g[n] = LET p == nodes[n].parent
           IN IF p \in DOMAIN nodes THEN next[<<g[p], n>>] ELSE first[n]

LEMMA Recursion ==
  ASSUME NEW nodes, Grown(nodes), NEW V, NEW first \in [DOMAIN nodes -> V], NEW next \in [V \X (DOMAIN nodes) -> V]
  PROVE  \E g \in [DOMAIN nodes -> V] : Defines(nodes, first, next, g)
<1>. DEFINE D    == DOMAIN nodes
            T(k) == \E g \in [D \cap 0..k -> V] : Defines(nodes, first, next, g)
<1>. PICK b \in Nat : D \subseteq 1..b
  BY DEF Grown
<1>1. ASSUME NEW k \in 0..b, \A j \in 0..b : j < k => T(j)
      PROVE  T(k)
  <2>1. \E g \in [D \cap 0..k - 1 -> V] : Defines(nodes, first, next, g)
    <3>1. CASE k = 0
      <4>. DEFINE g == [n \in {} |-> n]
      <4>1. D \cap 0..k - 1 = {} /\ DOMAIN g = {}
        BY <3>1
      <4>2. Defines(nodes, first, next, g)
        BY <4>1 DEF Defines
      <4>3. g \in [{} -> V]
        OBVIOUS
      <4>. QED
        BY <4>1, <4>2, <4>3
    <3>2. CASE k # 0
      <4>1. k - 1 \in 0..b /\ k - 1 < k
        BY <3>2
      <4>2. T(k - 1)
        BY <1>1, <4>1
      <4>. QED
        BY <4>2
    <3>. QED
      BY <3>1, <3>2
  <2>2. PICK g \in [D \cap 0..k - 1 -> V] : Defines(nodes, first, next, g)
    BY <2>1
  <2>. DEFINE v(n) == IF nodes[n].parent \in D THEN next[<<g[nodes[n].parent], n>>] ELSE first[n]
              h    == [n \in D \cap 0..k |-> IF n = k THEN v(n) ELSE g[n]]
  <2>3. \A n \in D \cap 0..k : n # k => n \in D \cap 0..k - 1
    OBVIOUS
  <2>4. \A n \in D \cap 0..k : nodes[n].parent \in D => nodes[n].parent \in D \cap 0..k - 1
    BY DEF Grown
  <2>5. \A n \in D \cap 0..k : v(n) \in V
    BY <2>4
  <2>6. h \in [D \cap 0..k -> V]
    BY <2>3, <2>5
  <2>7. \A n \in D \cap 0..k : h[n] = v(n)
    <3>1. \A n \in D \cap 0..k - 1 : g[n] = v(n)
      BY <2>2 DEF Defines
    <3>. QED
      BY <2>3, <3>1
  <2>8. \A n \in D \cap 0..k - 1 : h[n] = g[n]
    OBVIOUS
  <2>9. Defines(nodes, first, next, h)
    <3>1. DOMAIN h = D \cap 0..k
      OBVIOUS
    <3>. HIDE DEF h
    <3>. QED
      BY <2>4, <2>7, <2>8, <3>1 DEF Defines
  <2>. QED
    BY <2>6, <2>9
<1>. DEFINE All == {k \in 0..b : T(k)}
<1>2. 0..b \subseteq All
  <2>1. \A k \in 0..b : (\A m \in 0..b : m < k => m \in All) => k \in All
    BY <1>1
  <2>2. 0..b \in SUBSET Nat
    OBVIOUS
  <2>. HIDE DEF All
  <2>. QED
    BY <2>1, <2>2, Upward
<1>. HIDE DEF T
<1>3. T(b)
  <2>1. b \in All
    BY <1>2
  <2>. QED
    BY <2>1
<1>4. D \cap 0..b = D
  OBVIOUS
<1>. QED
  BY <1>3, <1>4 DEF T

\* A folder or feed is below the root if it is in the root or in such a folder.
Reaches(nodes, g) ==
  g = [n \in DOMAIN nodes |->
         LET p == nodes[n].parent IN p = Root \/ (p \in DOMAIN nodes /\ g[p])]

LEMMA GroundedIs ==
  ASSUME NEW nodes, Grown(nodes)
  PROVE  /\ Grounded(nodes) \subseteq DOMAIN nodes
         /\ \A n \in DOMAIN nodes :
              n \in Grounded(nodes) <=>
                nodes[n].parent = Root \/ nodes[n].parent \in Grounded(nodes)
<1>. DEFINE D     == DOMAIN nodes
            first == [n \in D |-> nodes[n].parent = Root]
            next  == [x \in BOOLEAN \X D |-> nodes[x[2]].parent = Root \/ x[1]]
<1>1. PICK g \in [D -> BOOLEAN] : Defines(nodes, first, next, g)
  <2>1. first \in [D -> BOOLEAN] /\ next \in [BOOLEAN \X D -> BOOLEAN]
    OBVIOUS
  <2>. HIDE DEF first, next
  <2>. QED
    BY <2>1, Recursion
<1>2. Reaches(nodes, g)
  <2>1. \A n \in D : g[n] = LET p == nodes[n].parent IN p = Root \/ (p \in D /\ g[p])
    BY <1>1 DEF Defines
  <2>. QED
    BY <2>1 DEF Reaches
<1>3. PICK h : Reaches(nodes, h) /\ Grounded(nodes) = {n \in D : h[n]}
  <2>1. Grounded(nodes) = {n \in D : (CHOOSE h : Reaches(nodes, h))[n]}
    BY DEF Grounded, Reaches
  <2>. QED
    BY <1>2, <2>1
<1>4. Root \notin D
  BY DEF Grown, Root
<1>. QED
  BY <1>3, <1>4 DEF Reaches

\* It is the only set of nodes that has this property.
LEMMA GroundedOnly ==
  ASSUME NEW nodes, Grown(nodes), NEW G \in SUBSET DOMAIN nodes,
         \A n \in DOMAIN nodes : n \in G <=> nodes[n].parent = Root \/ nodes[n].parent \in G
  PROVE  Grounded(nodes) = G
<1>. DEFINE T == {n \in DOMAIN nodes : n \in G <=> n \in Grounded(nodes)}
<1>1. \A n \in DOMAIN nodes :
        (nodes[n].parent \in DOMAIN nodes => nodes[n].parent \in T) => n \in T
  BY GroundedIs
<1>. HIDE DEF T
<1>2. DOMAIN nodes \subseteq T
  BY <1>1, Parents
<1>. QED
  BY <1>2, GroundedIs DEF T

Descends(nodes, n, g) ==
  g = [m \in DOMAIN nodes |->
         LET p == nodes[m].parent IN m = n \/ (p \in DOMAIN nodes /\ g[p])]

LEMMA SubtreeIs ==
  ASSUME NEW nodes, Grown(nodes), NEW n
  PROVE  /\ Subtree(nodes, n) \subseteq DOMAIN nodes
         /\ \A m \in DOMAIN nodes :
              m \in Subtree(nodes, n) <=> m = n \/ nodes[m].parent \in Subtree(nodes, n)
<1>. DEFINE D     == DOMAIN nodes
            first == [m \in D |-> m = n]
            next  == [x \in BOOLEAN \X D |-> x[2] = n \/ x[1]]
<1>1. PICK g \in [D -> BOOLEAN] : Defines(nodes, first, next, g)
  <2>1. first \in [D -> BOOLEAN] /\ next \in [BOOLEAN \X D -> BOOLEAN]
    OBVIOUS
  <2>. HIDE DEF first, next
  <2>. QED
    BY <2>1, Recursion
<1>2. Descends(nodes, n, g)
  <2>1. \A m \in D : g[m] = LET p == nodes[m].parent IN m = n \/ (p \in D /\ g[p])
    BY <1>1 DEF Defines
  <2>. QED
    BY <2>1 DEF Descends
<1>3. PICK h : Descends(nodes, n, h) /\ Subtree(nodes, n) = {m \in D : h[m]}
  <2>1. Subtree(nodes, n) = {m \in D : (CHOOSE h : Descends(nodes, n, h))[m]}
    BY DEF Subtree, Descends
  <2>. QED
    BY <1>2, <2>1
<1>. QED
  BY <1>3 DEF Descends

\* Below a node are only later ones.
LEMMA SubtreeOrder ==
  ASSUME NEW nodes, Grown(nodes), NEW n \in DOMAIN nodes
  PROVE  n \in Subtree(nodes, n) /\ \A m \in Subtree(nodes, n) : n <= m
<1>1. n \in Subtree(nodes, n)
  BY SubtreeIs
<1>. DEFINE T == {m \in DOMAIN nodes : m \in Subtree(nodes, n) => n <= m}
<1>2. \A m \in DOMAIN nodes :
        (nodes[m].parent \in DOMAIN nodes => nodes[m].parent \in T) => m \in T
  BY SubtreeIs DEF Grown
<1>. HIDE DEF T
<1>3. DOMAIN nodes \subseteq T
  BY <1>2, Parents
<1>. QED
  BY <1>1, <1>3, SubtreeIs DEF T

\* What is below a node, or below the root, is in one of the nodes there, and in
\* one only.
LEMMA ThroughChildren ==
  ASSUME NEW nodes, Grown(nodes), NEW n
  PROVE  /\ \A c \in Below(nodes, n) :
              c \in DOMAIN nodes /\ n \notin Subtree(nodes, c)
         /\ n \in DOMAIN nodes =>
              Subtree(nodes, n) = {n} \cup UNION {Subtree(nodes, c) : c \in Below(nodes, n)}
         /\ n = Root =>
              Grounded(nodes) = UNION {Subtree(nodes, c) : c \in Below(nodes, n)}
         /\ \A c, d \in Below(nodes, n) :
              c # d => Subtree(nodes, c) \cap Subtree(nodes, d) = {}
<1>. DEFINE U == UNION {Subtree(nodes, c) : c \in Below(nodes, n)}
<1>1. ASSUME NEW c \in Below(nodes, n)
      PROVE  c \in DOMAIN nodes /\ nodes[c].parent = n /\ n \notin Subtree(nodes, c)
  <2>1. c \in DOMAIN nodes /\ nodes[c].parent = n /\ n < c
    BY DEF Below, Grown
  <2>2. n \in Nat /\ c \in Nat
    BY <2>1 DEF Grown
  <2>. QED
    BY <2>1, <2>2, SubtreeOrder
<1>2. \A m \in U : \E c \in Below(nodes, n) : m \in Subtree(nodes, c)
  OBVIOUS
<1>3. U \subseteq DOMAIN nodes
  BY <1>2, SubtreeIs
<1>4. ASSUME NEW m \in DOMAIN nodes
      PROVE  m \in U <=> nodes[m].parent = n \/ nodes[m].parent \in U
  <2>1. ASSUME m \in U PROVE nodes[m].parent = n \/ nodes[m].parent \in U
    <3>1. PICK c \in Below(nodes, n) : m \in Subtree(nodes, c)
      BY <2>1, <1>2
    <3>2. m = c \/ nodes[m].parent \in Subtree(nodes, c)
      BY <3>1, SubtreeIs
    <3>. QED
      BY <1>1, <3>1, <3>2
  <2>2. ASSUME nodes[m].parent = n PROVE m \in U
    <3>1. m \in Below(nodes, n)
      BY <2>2 DEF Below
    <3>. QED
      BY <3>1, SubtreeOrder
  <2>3. ASSUME nodes[m].parent \in U PROVE m \in U
    <3>1. PICK c \in Below(nodes, n) : nodes[m].parent \in Subtree(nodes, c)
      BY <2>3, <1>2
    <3>2. m \in Subtree(nodes, c)
      BY <3>1, SubtreeIs
    <3>. QED
      BY <3>2
  <2>. QED
    BY <2>1, <2>2, <2>3
<1>. HIDE DEF U
<1>5. ASSUME n \in DOMAIN nodes PROVE Subtree(nodes, n) = {n} \cup U
  <2>. DEFINE T == {m \in DOMAIN nodes : m \in Subtree(nodes, n) <=> m \in {n} \cup U}
  <2>1. \A m \in DOMAIN nodes :
          (nodes[m].parent \in DOMAIN nodes => nodes[m].parent \in T) => m \in T
    BY <1>3, <1>4, <1>5, SubtreeIs
  <2>. HIDE DEF T
  <2>2. DOMAIN nodes \subseteq T
    BY <2>1, Parents
  <2>. QED
    BY <2>2, <1>3, <1>5, SubtreeIs DEF T
<1>6. n = Root => Grounded(nodes) = U
  BY <1>3, <1>4, GroundedOnly
<1>7. ASSUME NEW c \in Below(nodes, n), NEW d \in Below(nodes, n), c # d
      PROVE  Subtree(nodes, c) \cap Subtree(nodes, d) = {}
  <2>1. /\ nodes[c].parent = n /\ nodes[d].parent = n
        /\ n \notin Subtree(nodes, c) /\ n \notin Subtree(nodes, d)
    BY <1>1
  <2>. DEFINE T == {m \in DOMAIN nodes :
                      ~(m \in Subtree(nodes, c) /\ m \in Subtree(nodes, d))}
  <2>2. \A m \in DOMAIN nodes :
          (nodes[m].parent \in DOMAIN nodes => nodes[m].parent \in T) => m \in T
    BY <1>7, <2>1, SubtreeIs
  <2>. HIDE DEF T
  <2>3. DOMAIN nodes \subseteq T
    BY <2>2, Parents
  <2>. QED
    BY <2>3, SubtreeIs DEF T
<1>. QED
  BY <1>1, <1>5, <1>6, <1>7 DEF U

Counts(nodes, g) ==
  g = [n \in DOMAIN nodes |->
         LET p == nodes[n].parent
         IN IF p = Root THEN 0 ELSE IF p \in DOMAIN nodes THEN 1 + g[p] ELSE 1]

LEMMA DepthIs ==
  ASSUME NEW nodes, Grown(nodes), NEW n \in DOMAIN nodes
  PROVE  /\ NodeDepth(nodes, n) \in Nat
         /\ nodes[n].parent \in DOMAIN nodes =>
              NodeDepth(nodes, n) = 1 + NodeDepth(nodes, nodes[n].parent)
<1>. DEFINE D     == DOMAIN nodes
            first == [m \in D |-> IF nodes[m].parent = Root THEN 0 ELSE 1]
            next  == [x \in Nat \X D |-> 1 + x[1]]
<1>1. PICK g \in [D -> Nat] : Defines(nodes, first, next, g)
  <2>1. first \in [D -> Nat] /\ next \in [Nat \X D -> Nat]
    OBVIOUS
  <2>. HIDE DEF first, next
  <2>. QED
    BY <2>1, Recursion
<1>2. Root \notin D
  BY DEF Grown, Root
<1>3. Counts(nodes, g)
  <2>1. ASSUME NEW m \in D
        PROVE  g[m] = LET p == nodes[m].parent
                      IN IF p = Root THEN 0 ELSE IF p \in D THEN 1 + g[p] ELSE 1
    <3>1. g[m] = IF nodes[m].parent \in D THEN next[<<g[nodes[m].parent], m>>] ELSE first[m]
      BY <1>1 DEF Defines
    <3>. QED
      BY <1>1, <1>2, <3>1
  <2>. QED
    BY <2>1 DEF Counts
<1>4. PICK h : Counts(nodes, h) /\ \A m : NodeDepth(nodes, m) = h[m]
  <2>1. \A m : NodeDepth(nodes, m) = (CHOOSE h : Counts(nodes, h))[m]
    BY DEF NodeDepth, Counts
  <2>. QED
    BY <1>3, <2>1
<1>. DEFINE T == {m \in D : h[m] \in Nat}
<1>5. \A m \in D : (nodes[m].parent \in D => nodes[m].parent \in T) => m \in T
  BY <1>4 DEF Counts
<1>. HIDE DEF T
<1>6. D \subseteq T
  BY <1>5, Parents
<1>. QED
  BY <1>2, <1>4, <1>6 DEF Counts, T

\* A node that is deeper than no other has none below it.
LEMMA DeepestIsEmpty ==
  ASSUME NEW nodes, Grown(nodes), NEW n \in Deepest(nodes)
  PROVE  n \in DOMAIN nodes /\ Below(nodes, n) = {}
<1>1. n \in DOMAIN nodes /\ \A m \in DOMAIN nodes : NodeDepth(nodes, m) <= NodeDepth(nodes, n)
  BY DEF Deepest
<1>2. ASSUME NEW m \in DOMAIN nodes, nodes[m].parent = n PROVE FALSE
  <2>1. NodeDepth(nodes, m) = 1 + NodeDepth(nodes, n) /\ NodeDepth(nodes, n) \in Nat
    BY <1>1, <1>2, DepthIs
  <2>. QED
    BY <1>1, <2>1
<1>. QED
  BY <1>1, <1>2 DEF Below

FindsFeeds(file, g) ==
  g = [k \in DOMAIN file |-> IsFeed(file[k]) \/ \E c \in Below(file, k) : g[c]]

LEMMA HasFeedIs ==
  ASSUME NEW file \in Seq(Node), Grown(file), NEW i \in DOMAIN file
  PROVE  HasFeedDescendants(file, i) <=> \E j \in Subtree(file, i) : IsFeed(file[j])
<1>. DEFINE Feeds(k) == \E j \in Subtree(file, k) : IsFeed(file[j])
            g == [k \in DOMAIN file |-> Feeds(k)]
<1>1. ASSUME NEW k \in DOMAIN file
      PROVE  Feeds(k) <=> IsFeed(file[k]) \/ \E c \in Below(file, k) : Feeds(c)
  <2>1. Subtree(file, k) = {k} \cup UNION {Subtree(file, c) : c \in Below(file, k)}
    BY ThroughChildren
  <2>. QED
    BY <2>1
<1>2. \A k \in DOMAIN file : \A c \in Below(file, k) : c \in DOMAIN file /\ k < c
  BY DEF Below, Grown
<1>. HIDE DEF Feeds
<1>3. FindsFeeds(file, g)
  <2>1. \A k \in DOMAIN file : g[k] = (IsFeed(file[k]) \/ \E c \in Below(file, k) : g[c])
    BY <1>1, <1>2 DEF Feeds
  <2>. QED
    BY <2>1 DEF FindsFeeds
<1>4. PICK h : FindsFeeds(file, h) /\ HasFeedDescendants(file, i) = h[i]
  <2>1. HasFeedDescendants(file, i) = (CHOOSE h : FindsFeeds(file, h))[i]
    BY DEF HasFeedDescendants, FindsFeeds
  <2>. QED
    BY <1>3, <2>1
<1>. DEFINE T == {k \in DOMAIN file : h[k] <=> Feeds(k)}
<1>5. \A k \in DOMAIN file : (\A m \in DOMAIN file : k < m => m \in T) => k \in T
  BY <1>1, <1>2, <1>4 DEF FindsFeeds
<1>. HIDE DEF T
<1>6. Len(file) \in Nat /\ DOMAIN file = 1..Len(file)
  OBVIOUS
<1>7. DOMAIN file \subseteq T
  BY <1>5, <1>6, Downward
<1>. QED
  BY <1>4, <1>7 DEF T, Feeds

-----------------------------------------------------------------------------
(* Paths                                                                     *)

\* What trees and files are: names in folders.
Forest(nodes) ==
  /\ \E b \in Nat : DOMAIN nodes \subseteq 1..b
  /\ nodes \in [DOMAIN nodes -> Node]
  /\ InFolders(nodes)

LEMMA ForestGrows ==
  ASSUME NEW nodes, Forest(nodes)
  PROVE  /\ Grown(nodes) /\ Root \notin DOMAIN nodes /\ IsFiniteSet(DOMAIN nodes)
         /\ \A n \in DOMAIN nodes :
              /\ nodes[n].name \in Names /\ nodes[n].parent \in Nat
              /\ nodes[n].parent < n /\ n \in Nat \ {0}
              /\ nodes[n].parent \in DOMAIN nodes => ~IsFeed(nodes[nodes[n].parent])
<1>1. PICK b \in Nat : DOMAIN nodes \subseteq 1..b
  BY DEF Forest
<1>2. \A n \in DOMAIN nodes :
        /\ nodes[n].name \in Names /\ nodes[n].parent \in Nat /\ nodes[n].parent < n
        /\ nodes[n].parent \in DOMAIN nodes => nodes[nodes[n].parent].name \in Titles
  BY DEF Forest, Node, InFolders
<1>3. IsFiniteSet(DOMAIN nodes)
  <2>1. IsFiniteSet(1..b)
    BY FS_Interval
  <2>. QED
    BY <1>1, <2>1, FS_Subset
<1>. QED
  BY <1>1, <1>2, <1>3, ImportAssumption DEF Grown, Root, IsFeed

LEMMA Longer ==
  ASSUME NEW S, NEW s \in Seq(S), NEW e \in S
  PROVE  Append(s, e) \in Seq(S) \ {<<>>}
BY AppendProperties

Leads(nodes, g) ==
  g = [n \in DOMAIN nodes |->
         LET p == nodes[n].parent
         IN IF p \in DOMAIN nodes THEN Append(g[p], nodes[n].name) ELSE <<nodes[n].name>>]

LEMMA PathIs ==
  ASSUME NEW nodes, Forest(nodes), NEW n \in DOMAIN nodes
  PROVE  /\ Path(nodes, n) \in Seq(Names) \ {<<>>}
         /\ Path(nodes, n) =
              IF nodes[n].parent \in DOMAIN nodes
              THEN Append(Path(nodes, nodes[n].parent), nodes[n].name)
              ELSE <<nodes[n].name>>
<1>. DEFINE D     == DOMAIN nodes
            V     == Seq(Names) \ {<<>>}
            first == [m \in D |-> <<nodes[m].name>>]
            next  == [x \in V \X D |-> Append(x[1], nodes[x[2]].name)]
<1>1. Grown(nodes) /\ \A m \in D : nodes[m].name \in Names
  BY ForestGrows
<1>2. PICK g \in [D -> V] : Defines(nodes, first, next, g)
  <2>1. first \in [D -> V] /\ next \in [V \X D -> V]
    BY <1>1
  <2>. HIDE DEF first, next, V
  <2>. QED
    BY <1>1, <2>1, Recursion
<1>3. Leads(nodes, g)
  <2>1. ASSUME NEW m \in D
        PROVE  g[m] = LET p == nodes[m].parent
                      IN IF p \in D THEN Append(g[p], nodes[m].name) ELSE <<nodes[m].name>>
    <3>1. g[m] = IF nodes[m].parent \in D THEN next[<<g[nodes[m].parent], m>>] ELSE first[m]
      BY <1>2 DEF Defines
    <3>. HIDE DEF V
    <3>. QED
      BY <1>2, <3>1
  <2>. QED
    BY <2>1 DEF Leads
<1>4. PICK h : Leads(nodes, h) /\ \A m : Path(nodes, m) = h[m]
  <2>1. \A m : Path(nodes, m) = (CHOOSE h : Leads(nodes, h))[m]
    BY DEF Path, Leads
  <2>. QED
    BY <1>3, <2>1
<1>5. \A m \in D : h[m] = IF nodes[m].parent \in D THEN Append(h[nodes[m].parent], nodes[m].name)
                          ELSE <<nodes[m].name>>
  BY <1>4 DEF Leads
<1>. DEFINE T == {m \in D : h[m] \in V}
<1>6. ASSUME NEW m \in D, nodes[m].parent \in D => nodes[m].parent \in T
      PROVE  m \in T
  <2>1. CASE nodes[m].parent \in D
    <3>1. h[nodes[m].parent] \in Seq(Names)
      BY <1>6, <2>1
    <3>2. h[m] = Append(h[nodes[m].parent], nodes[m].name) /\ nodes[m].name \in Names
      BY <1>1, <1>5, <2>1
    <3>3. h[m] \in V
      BY <3>1, <3>2, Longer
    <3>. QED
      BY <3>3
  <2>2. CASE nodes[m].parent \notin D
    <3>1. h[m] = <<nodes[m].name>> /\ nodes[m].name \in Names
      BY <1>1, <1>5, <2>2
    <3>2. h[m] \in V
      BY <3>1
    <3>. QED
      BY <3>2
  <2>. QED
    BY <2>1, <2>2
<1>. HIDE DEF T
<1>7. D \subseteq T
  BY <1>1, <1>6, Parents
<1>8. h[n] \in V
  BY <1>7 DEF T
<1>. QED
  BY <1>4, <1>5, <1>8

Openings(p) == {SubSeq(p, 1, k) : k \in 1..Len(p) - 1}

LEMMA OpeningsOfOne ==
  ASSUME NEW x
  PROVE  Openings(<<x>>) = {}
BY DEF Openings

LEMMA OpeningsOfMore ==
  ASSUME NEW S, NEW p \in Seq(S) \ {<<>>}, NEW x \in S
  PROVE  Openings(Append(p, x)) = Openings(p) \cup {p}
<1>. DEFINE q == Append(p, x)
<1>1. Len(p) \in Nat \ {0} /\ Len(q) = Len(p) + 1 /\ q \in Seq(S)
  BY EmptySeq
<1>2. ASSUME NEW k \in 1..Len(p) PROVE SubSeq(q, 1, k) = SubSeq(p, 1, k)
  <2>1. /\ SubSeq(p, 1, k) = [i \in 1..k |-> p[i]]
        /\ SubSeq(q, 1, k) = [i \in 1..k |-> q[i]]
    <3>1. k \in 0..Len(p) /\ k \in 0..Len(q)
      BY <1>1
    <3>. HIDE DEF q
    <3>. QED
      BY <1>1, <3>1, SubSeqRestrict DEF Restrict
  <2>2. \A i \in 1..k : q[i] = p[i]
    BY <1>1
  <2>. QED
    BY <2>1, <2>2
<1>3. SubSeq(p, 1, Len(p)) = p
  BY SubSeqFull
<1>. HIDE DEF q
<1>4. \A k \in 1..Len(q) - 1 : k \in 1..Len(p) - 1 \/ k = Len(p)
  BY <1>1
<1>5. \A k \in 1..Len(p) - 1 : k \in 1..Len(q) - 1
  BY <1>1
<1>6. Len(p) \in 1..Len(q) - 1 /\ Len(p) \in 1..Len(p)
  BY <1>1
<1>7. \A k \in 1..Len(p) - 1 : k \in 1..Len(p)
  BY <1>1
<1>8. Openings(q) = Openings(p) \cup {p}
  <2>1. ASSUME NEW r \in Openings(q) PROVE r \in Openings(p) \cup {p}
    <3>1. PICK k \in 1..Len(q) - 1 : r = SubSeq(q, 1, k)
      BY <2>1 DEF Openings
    <3>. QED
      BY <1>2, <1>3, <1>4, <1>6, <1>7, <3>1 DEF Openings
  <2>2. ASSUME NEW r \in Openings(p) PROVE r \in Openings(q)
    <3>1. PICK k \in 1..Len(p) - 1 : r = SubSeq(p, 1, k)
      BY <2>2 DEF Openings
    <3>. QED
      BY <1>2, <1>5, <1>7, <3>1 DEF Openings
  <2>3. p \in Openings(q)
    BY <1>2, <1>3, <1>6 DEF Openings
  <2>. QED
    BY <2>1, <2>2, <2>3
<1>. QED
  BY <1>8 DEF q

\* What is around a node
Ancestors(nodes, n) == {m \in DOMAIN nodes : m # n /\ n \in Subtree(nodes, m)}

LEMMA AncestorsAre ==
  ASSUME NEW nodes, Forest(nodes), NEW n \in DOMAIN nodes
  PROVE  Ancestors(nodes, n) =
           IF nodes[n].parent \in DOMAIN nodes
           THEN Ancestors(nodes, nodes[n].parent) \cup {nodes[n].parent} ELSE {}
<1>. DEFINE p == nodes[n].parent
<1>1. Grown(nodes) /\ p < n /\ p \in Nat /\ n \in Nat
  BY ForestGrows
<1>2. \A m \in DOMAIN nodes : n \in Subtree(nodes, m) <=> n = m \/ p \in Subtree(nodes, m)
  BY <1>1, SubtreeIs
<1>3. \A m \in DOMAIN nodes : Subtree(nodes, m) \subseteq DOMAIN nodes
  BY <1>1, SubtreeIs
<1>4. p \in DOMAIN nodes => p \in Subtree(nodes, p)
  BY <1>1, SubtreeOrder
<1>5. \A m \in DOMAIN nodes : p \in Subtree(nodes, m) => m <= p
  BY <1>1, SubtreeOrder
<1>6. n \notin Ancestors(nodes, p)
  BY <1>1, <1>5 DEF Ancestors
<1>. HIDE DEF p
<1>7. CASE p \in DOMAIN nodes
  BY <1>1, <1>2, <1>4, <1>6, <1>7 DEF Ancestors, p
<1>8. CASE p \notin DOMAIN nodes
  BY <1>2, <1>3, <1>8 DEF Ancestors, p
<1>. QED
  BY <1>7, <1>8 DEF p

LEMMA OpeningsAre ==
  ASSUME NEW nodes, Forest(nodes), NEW n \in DOMAIN nodes
  PROVE  Openings(Path(nodes, n)) = Paths(nodes, Ancestors(nodes, n))
<1>. DEFINE T == {m \in DOMAIN nodes :
                    Openings(Path(nodes, m)) = Paths(nodes, Ancestors(nodes, m))}
<1>1. ASSUME NEW m \in DOMAIN nodes, nodes[m].parent \in DOMAIN nodes => nodes[m].parent \in T
      PROVE  m \in T
  <2>1. CASE nodes[m].parent \in DOMAIN nodes
    <3>. DEFINE p == nodes[m].parent
    <3>1. Path(nodes, m) = Append(Path(nodes, p), nodes[m].name)
      BY <2>1, PathIs
    <3>2. Path(nodes, p) \in Seq(Names) \ {<<>>} /\ nodes[m].name \in Names
      BY <2>1, PathIs, ForestGrows
    <3>3. Openings(Path(nodes, m)) = Openings(Path(nodes, p)) \cup {Path(nodes, p)}
      BY <3>1, <3>2, OpeningsOfMore
    <3>4. Openings(Path(nodes, p)) = Paths(nodes, Ancestors(nodes, p))
      BY <1>1, <2>1
    <3>5. Ancestors(nodes, m) = Ancestors(nodes, p) \cup {p}
      BY <2>1, AncestorsAre
    <3>. HIDE DEF p
    <3>6. Paths(nodes, Ancestors(nodes, m)) = Paths(nodes, Ancestors(nodes, p)) \cup {Path(nodes, p)}
      BY <3>5 DEF Paths
    <3>. QED
      BY <3>3, <3>4, <3>6
  <2>2. CASE nodes[m].parent \notin DOMAIN nodes
    <3>1. Path(nodes, m) = <<nodes[m].name>> /\ Ancestors(nodes, m) = {}
      BY <2>2, PathIs, AncestorsAre
    <3>. QED
      BY <3>1, OpeningsOfOne DEF Paths
  <2>. QED
    BY <2>1, <2>2
<1>. HIDE DEF T
<1>2. DOMAIN nodes \subseteq T
  BY <1>1, Parents, ForestGrows
<1>. QED
  BY <1>2 DEF T

LEMMA PathsCarried ==
  ASSUME NEW a, NEW b, Forest(a), Forest(b), NEW S \in SUBSET (DOMAIN a \cap DOMAIN b),
         \A n \in S : /\ a[n] = b[n]
                      /\ a[n].parent \in DOMAIN a <=> a[n].parent \in DOMAIN b
                      /\ a[n].parent \in DOMAIN a => a[n].parent \in S
  PROVE  \A n \in S : Path(a, n) = Path(b, n)
<1>. DEFINE T == {n \in DOMAIN a : n \in S => Path(a, n) = Path(b, n)}
<1>1. ASSUME NEW n \in DOMAIN a, a[n].parent \in DOMAIN a => a[n].parent \in T
      PROVE  n \in T
  <2>1. SUFFICES ASSUME n \in S PROVE Path(a, n) = Path(b, n)
    OBVIOUS
  <2>2. n \in DOMAIN b /\ a[n] = b[n] /\ (a[n].parent \in DOMAIN a <=> a[n].parent \in DOMAIN b)
    BY <2>1
  <2>3. a[n].parent \in DOMAIN a => Path(a, a[n].parent) = Path(b, b[n].parent)
    BY <1>1, <2>1, <2>2
  <2>4. Path(a, n) = IF a[n].parent \in DOMAIN a THEN Append(Path(a, a[n].parent), a[n].name)
                     ELSE <<a[n].name>>
    BY PathIs
  <2>5. Path(b, n) = IF b[n].parent \in DOMAIN b THEN Append(Path(b, b[n].parent), b[n].name)
                     ELSE <<b[n].name>>
    BY <2>2, PathIs
  <2>. QED
    BY <2>2, <2>3, <2>4, <2>5
<1>. HIDE DEF T
<1>2. DOMAIN a \subseteq T
  BY <1>1, Parents, ForestGrows
<1>. QED
  BY <1>2 DEF T

\* Something a node can be put into
Folder(nodes, n) == n = Root \/ (n \in DOMAIN nodes /\ nodes[n].name \in Titles)

PathTo(nodes, n) == IF n = Root THEN <<>> ELSE Path(nodes, n)

\* What is put into n with the number id comes after it, and not into a feed.
Takes(nodes, id, n) == n < id /\ (n \in DOMAIN nodes => nodes[n].name \in Titles)

LEMMA FolderTakes ==
  ASSUME NEW nodes, Forest(nodes), NEW id \in Nat, \A n \in DOMAIN nodes : n < id,
         NEW n, Folder(nodes, n), id # 0
  PROVE  Takes(nodes, id, n)
BY ForestGrows DEF Folder, Takes, Root

LEMMA WithIs ==
  ASSUME NEW nodes, Forest(nodes), NEW id \in Nat, \A n \in DOMAIN nodes : n < id,
         NEW node \in Node, Takes(nodes, id, node.parent), id # 0
  PROVE  /\ Forest(With(nodes, id, node))
         /\ id \notin DOMAIN nodes /\ DOMAIN With(nodes, id, node) = DOMAIN nodes \cup {id}
         /\ With(nodes, id, node)[id] = node
         /\ \A n \in DOMAIN nodes : With(nodes, id, node)[n] = nodes[n]
<1>. DEFINE W == With(nodes, id, node)
<1>1. id \notin DOMAIN nodes
  BY ForestGrows
<1>2. DOMAIN W = DOMAIN nodes \cup {id} /\ W = [n \in DOMAIN W |-> W[n]]
  BY DEF With
<1>3. W[id] = node /\ \A n \in DOMAIN nodes : W[n] = nodes[n]
  BY <1>1 DEF With
<1>4. \A n \in DOMAIN nodes :
        /\ nodes[n].parent \in Nat /\ nodes[n].parent < n /\ n \in Nat
        /\ nodes[n].parent \in DOMAIN nodes => nodes[nodes[n].parent].name \in Titles
  BY ForestGrows DEF Forest, InFolders
<1>5. node.parent \in Nat /\ node.parent < id
  BY DEF Node, Takes
<1>. HIDE DEF W
<1>6. W \in [DOMAIN W -> Node]
  BY <1>2, <1>3 DEF Forest
<1>7. \E b \in Nat : DOMAIN W \subseteq 1..b
  <2>1. DOMAIN W \subseteq 1..id
    BY <1>2, ForestGrows
  <2>. QED
    BY <2>1
<1>8. InFolders(W)
  <2>1. ASSUME NEW n \in DOMAIN nodes
        PROVE  W[n].parent < n /\ (W[n].parent \in DOMAIN W => W[W[n].parent].name \in Titles)
    <3>1. W[n].parent = nodes[n].parent /\ nodes[n].parent # id
      BY <1>3, <1>4
    <3>. QED
      BY <1>2, <1>3, <1>4, <3>1
  <2>2. W[id].parent < id /\ (W[id].parent \in DOMAIN W => W[W[id].parent].name \in Titles)
    BY <1>2, <1>3, <1>5, ForestGrows DEF Takes
  <2>. QED
    BY <1>2, <2>1, <2>2 DEF InFolders
<1>. QED
  BY <1>1, <1>2, <1>3, <1>6, <1>7, <1>8 DEF Forest, W

LEMMA WithGrounded ==
  ASSUME NEW nodes, Forest(nodes), NEW id \in Nat, \A n \in DOMAIN nodes : n < id,
         NEW node \in Node, Takes(nodes, id, node.parent), id # 0
  PROVE  Grounded(With(nodes, id, node)) =
           IF node.parent \in Grounded(nodes) \cup {Root} THEN Grounded(nodes) \cup {id}
           ELSE Grounded(nodes)
<1>. DEFINE W == With(nodes, id, node)
            G == IF node.parent \in Grounded(nodes) \cup {Root} THEN Grounded(nodes) \cup {id}
                 ELSE Grounded(nodes)
<1>1. /\ Forest(W) /\ DOMAIN W = DOMAIN nodes \cup {id} /\ id \notin DOMAIN nodes
      /\ W[id] = node /\ \A n \in DOMAIN nodes : W[n] = nodes[n]
  BY WithIs
<1>2. /\ Grounded(nodes) \subseteq DOMAIN nodes
      /\ \A n \in DOMAIN nodes :
           n \in Grounded(nodes) <=> nodes[n].parent = Root \/ nodes[n].parent \in Grounded(nodes)
  BY GroundedIs, ForestGrows
<1>3. \A n \in DOMAIN nodes : nodes[n].parent # id
  BY ForestGrows
<1>4. node.parent # id
  BY DEF Takes, Node
<1>. HIDE DEF W
<1>5. ASSUME NEW n \in DOMAIN W
      PROVE  n \in G <=> W[n].parent = Root \/ W[n].parent \in G
  BY <1>1, <1>2, <1>3, <1>4
<1>6. G \in SUBSET DOMAIN W
  BY <1>1, <1>2
<1>. HIDE DEF G
<1>7. Grounded(W) = G
  BY <1>1, <1>5, <1>6, GroundedOnly, ForestGrows
<1>. QED
  BY <1>7 DEF W, G

LEMMA WithPaths ==
  ASSUME NEW nodes, Forest(nodes), NEW id \in Nat, \A n \in DOMAIN nodes : n < id,
         NEW node \in Node, Folder(nodes, node.parent), id # 0
  PROVE  /\ \A n \in DOMAIN nodes : Path(With(nodes, id, node), n) = Path(nodes, n)
         /\ Path(With(nodes, id, node), id) = Append(PathTo(nodes, node.parent), node.name)
<1>. DEFINE W == With(nodes, id, node)
<1>1. /\ Forest(W) /\ DOMAIN W = DOMAIN nodes \cup {id} /\ id \notin DOMAIN nodes
      /\ W[id] = node /\ \A n \in DOMAIN nodes : W[n] = nodes[n]
  BY WithIs, FolderTakes
<1>. HIDE DEF W
<1>2. \A n \in DOMAIN nodes : Path(W, n) = Path(nodes, n)
  <2>1. \A n \in DOMAIN nodes : nodes[n].parent # id
    BY ForestGrows
  <2>2. \A n \in DOMAIN nodes :
          /\ nodes[n] = W[n]
          /\ nodes[n].parent \in DOMAIN nodes <=> nodes[n].parent \in DOMAIN W
    BY <1>1, <2>1
  <2>3. DOMAIN nodes \in SUBSET (DOMAIN nodes \cap DOMAIN W)
    BY <1>1
  <2>. QED
    BY <1>1, <2>2, <2>3, PathsCarried
<1>3. Path(W, id) = Append(PathTo(nodes, node.parent), node.name)
  <2>1. Path(W, id) = IF node.parent \in DOMAIN W
                      THEN Append(Path(W, node.parent), node.name) ELSE <<node.name>>
    BY <1>1, PathIs
  <2>2. CASE node.parent = Root
    <3>1. node.parent \notin DOMAIN W
      BY <1>1, <2>2, ForestGrows
    <3>2. Append(<<>>, node.name) = <<node.name>>
      OBVIOUS
    <3>. QED
      BY <2>1, <2>2, <3>1, <3>2 DEF PathTo
  <2>3. CASE node.parent # Root
    BY <1>1, <1>2, <2>1, <2>3 DEF PathTo, Folder
  <2>. QED
    BY <2>2, <2>3
<1>. QED
  BY <1>2, <1>3 DEF W

LEMMA RestrictIs ==
  ASSUME NEW nodes, Forest(nodes), NEW S \in SUBSET DOMAIN nodes
  PROVE  /\ Forest(Restrict(nodes, S)) /\ DOMAIN Restrict(nodes, S) = S
         /\ \A n \in S : Restrict(nodes, S)[n] = nodes[n]
<1>. DEFINE R == Restrict(nodes, S)
<1>1. DOMAIN R = S /\ R = [n \in S |-> nodes[n]] /\ \A n \in S : R[n] = nodes[n]
  BY DEF Restrict
<1>. HIDE DEF R
<1>2. R \in [S -> Node] /\ InFolders(R)
  <2>1. \A n \in S : R[n].parent < n /\ (R[n].parent \in S => R[R[n].parent].name \in Titles)
    BY <1>1 DEF Forest, InFolders
  <2>. QED
    BY <1>1, <2>1 DEF Forest, InFolders
<1>. QED
  BY <1>1, <1>2 DEF Forest, R

\* NoTwins, without counting
LEMMA NoTwinsIs ==
  ASSUME NEW nodes, Forest(nodes)
  PROVE  NoTwins(nodes) <=>
           \A m, n \in Grounded(nodes) : Path(nodes, m) = Path(nodes, n) => m = n
<1>. DEFINE G == Grounded(nodes)
            P == Paths(nodes, G)
            f == [n \in G |-> Path(nodes, n)]
<1>1. IsFiniteSet(G)
  BY GroundedIs, ForestGrows, FS_Subset
<1>2. f \in Surjection(G, P) /\ DOMAIN f = G
  BY DEF Surjection, Paths
<1>3. \A n \in G : f[n] = Path(nodes, n)
  OBVIOUS
<1>. HIDE DEF f
<1>4. Cardinality(P) = Cardinality(G) <=> f \in Injection(G, P)
  BY <1>1, <1>2, FS_Surjection
<1>5. f \in Injection(G, P) <=> \A m, n \in G : f[m] = f[n] => m = n
  BY <1>2 DEF Surjection, Injection, IsInjective
<1>. QED
  BY <1>3, <1>4, <1>5 DEF NoTwins

LEMMA FoldersAlone ==
  ASSUME NEW nodes, Forest(nodes)
  PROVE  NoTwins(Restrict(nodes, DOMAIN nodes \ FeedsOf(nodes))) <=>
           \A m, n \in Grounded(nodes) \ FeedsOf(nodes) : Path(nodes, m) = Path(nodes, n) => m = n
<1>. DEFINE S == DOMAIN nodes \ FeedsOf(nodes)
            R == Restrict(nodes, S)
            G == Grounded(nodes) \ FeedsOf(nodes)
<1>1. Forest(R) /\ DOMAIN R = S /\ \A n \in S : R[n] = nodes[n]
  BY RestrictIs
<1>2. /\ Grounded(nodes) \subseteq DOMAIN nodes
      /\ \A n \in DOMAIN nodes :
           n \in Grounded(nodes) <=> nodes[n].parent = Root \/ nodes[n].parent \in Grounded(nodes)
  BY GroundedIs, ForestGrows
<1>3. \A n \in DOMAIN nodes :
        nodes[n].parent \in DOMAIN nodes => nodes[n].parent \notin FeedsOf(nodes)
  BY ForestGrows DEF FeedsOf
<1>. HIDE DEF R
<1>4. G \in SUBSET DOMAIN R /\ \A n \in DOMAIN R :
        n \in G <=> R[n].parent = Root \/ R[n].parent \in G
  BY <1>1, <1>2, <1>3
<1>. HIDE DEF G
<1>5. Grounded(R) = G
  BY <1>1, <1>4, GroundedOnly, ForestGrows
<1>6. \A n \in S : Path(R, n) = Path(nodes, n)
  <2>1. S \in SUBSET (DOMAIN R \cap DOMAIN nodes)
    BY <1>1
  <2>2. \A n \in S : /\ R[n] = nodes[n]
                     /\ R[n].parent \in DOMAIN R <=> R[n].parent \in DOMAIN nodes
    BY <1>1, <1>3
  <2>. HIDE DEF S
  <2>. QED
    BY <1>1, <2>1, <2>2, PathsCarried
<1>7. NoTwins(R) <=> \A m, n \in G : Path(R, m) = Path(R, n) => m = n
  BY <1>1, <1>5, NoTwinsIs
<1>8. \A n \in G : Path(R, n) = Path(nodes, n)
  BY <1>4, <1>1, <1>6
<1>9. NoTwins(R) <=> \A m, n \in G : Path(nodes, m) = Path(nodes, n) => m = n
  BY <1>7, <1>8
<1>. QED
  BY <1>9 DEF R, G

-----------------------------------------------------------------------------
(* Nodes in order                                                            *)

Ahead(S, R, x) == {y \in S : <<y, x>> \in R}

\* In a finite set with a strict total order each number of members before is that
\* of one member.
LEMMA Ranked ==
  ASSUME NEW S, IsFiniteSet(S), NEW R,
         \A x \in S : <<x, x>> \notin R,
         \A x, y \in S : x # y => <<x, y>> \in R \/ <<y, x>> \in R,
         \A x, y, z \in S : <<x, y>> \in R /\ <<y, z>> \in R => <<x, z>> \in R
  PROVE  /\ Cardinality(S) \in Nat
         /\ \A x \in S : Cardinality(Ahead(S, R, x)) \in 0..Cardinality(S) - 1
         /\ \A x, y \in S :
              <<x, y>> \in R => Cardinality(Ahead(S, R, x)) < Cardinality(Ahead(S, R, y))
         /\ \A i \in 1..Cardinality(S) : \E x \in S : Cardinality(Ahead(S, R, x)) = i - 1
<1>. DEFINE n == Cardinality(S)
            r(x) == Cardinality(Ahead(S, R, x))
<1>1. n \in Nat
  BY FS_CardinalityType
<1>2. ASSUME NEW x \in S
      PROVE  r(x) \in 0..n - 1 /\ IsFiniteSet(Ahead(S, R, x))
  <2>1. IsFiniteSet(S \ {x}) /\ Cardinality(S \ {x}) = n - 1
    BY FS_RemoveElement
  <2>2. Ahead(S, R, x) \in SUBSET (S \ {x})
    BY DEF Ahead
  <2>3. IsFiniteSet(Ahead(S, R, x)) /\ Cardinality(Ahead(S, R, x)) <= n - 1
    BY <2>1, <2>2, FS_Subset
  <2>4. Cardinality(Ahead(S, R, x)) \in Nat
    BY <2>3, FS_CardinalityType
  <2>. QED
    BY <1>1, <2>3, <2>4
<1>3. ASSUME NEW x \in S, NEW y \in S, <<x, y>> \in R
      PROVE  r(x) < r(y)
  <2>1. Ahead(S, R, x) \in SUBSET Ahead(S, R, y)
    BY <1>3 DEF Ahead
  <2>2. x \in Ahead(S, R, y) /\ x \notin Ahead(S, R, x)
    BY <1>3 DEF Ahead
  <2>3. r(x) <= r(y) /\ r(x) # r(y)
    BY <1>2, <2>1, <2>2, FS_Subset
  <2>. QED
    BY <1>2, <2>3
<1>. HIDE DEF n
<1>. DEFINE g == [x \in S |-> r(x) + 1]
<1>4. g \in Surjection(S, 1..n)
  <2>1. g \in [S -> 1..n] /\ DOMAIN g = S
    BY <1>1, <1>2
  <2>2. ASSUME NEW x \in S, NEW y \in S, g[x] = g[y] PROVE x = y
    <3>1. r(x) = r(y) /\ r(x) \in Int
      BY <2>2, <1>2
    <3>2. <<x, y>> \notin R /\ <<y, x>> \notin R
      BY <1>2, <1>3, <3>1
    <3>. QED
      BY <3>2
  <2>. HIDE DEF g
  <2>3. g \in Injection(S, 1..n)
    BY <2>1, <2>2 DEF Injection, IsInjective
  <2>4. IsFiniteSet(1..n) /\ Cardinality(1..n) = Cardinality(S)
    BY <1>1, FS_Interval DEF n
  <2>. QED
    BY <2>3, <2>4, FS_Injection
<1>5. ASSUME NEW i \in 1..n PROVE \E x \in S : r(x) = i - 1
  <2>1. PICK x \in S : g[x] = i
    BY <1>4 DEF Surjection
  <2>2. r(x) + 1 = i /\ r(x) \in Nat
    BY <1>2, <2>1
  <2>. QED
    BY <2>2
<1>. QED
  BY <1>1, <1>2, <1>3, <1>5 DEF n

\* s is the members of S, each once.
Lists(s, S) ==
  /\ s \in Seq(S)
  /\ \A x \in S : \E i \in DOMAIN s : s[i] = x
  /\ \A i, j \in DOMAIN s : s[i] = s[j] => i = j

InRank(S, R) ==
  [i \in 1..Cardinality(S) |-> CHOOSE x \in S : Cardinality(Ahead(S, R, x)) = i - 1]

\* A sequence that has at each place the member with as many before it is the
\* members in order.
LEMMA ListedInOrder ==
  ASSUME NEW S, IsFiniteSet(S), NEW R,
         \A x \in S : <<x, x>> \notin R,
         \A x, y \in S : x # y => <<x, y>> \in R \/ <<y, x>> \in R,
         \A x, y, z \in S : <<x, y>> \in R /\ <<y, z>> \in R => <<x, z>> \in R
  PROVE  Lists(InRank(S, R), S) /\ \A i, j \in DOMAIN InRank(S, R) :
           <<InRank(S, R)[i], InRank(S, R)[j]>> \in R => i < j
<1>1. /\ Cardinality(S) \in Nat
      /\ \A x \in S : Cardinality(Ahead(S, R, x)) \in 0..Cardinality(S) - 1
      /\ \A x, y \in S :
           <<x, y>> \in R => Cardinality(Ahead(S, R, x)) < Cardinality(Ahead(S, R, y))
      /\ \A i \in 1..Cardinality(S) : \E x \in S : Cardinality(Ahead(S, R, x)) = i - 1
  BY Ranked
<1>. DEFINE s == InRank(S, R)
            n == Cardinality(S)
            r(x) == Cardinality(Ahead(S, R, x))
<1>2. n \in Nat /\ \A x \in S : r(x) \in 0..n - 1
  BY <1>1
<1>3. \A x, y \in S : <<x, y>> \in R => r(x) < r(y)
  BY <1>1
<1>4. \A i \in 1..n : s[i] \in S /\ r(s[i]) = i - 1
  BY <1>1 DEF InRank
<1>5. DOMAIN s = 1..n /\ s = [i \in 1..n |-> s[i]]
  BY DEF InRank
<1>. HIDE DEF s, n, r
<1>6. s \in Seq(S)
  BY <1>2, <1>4, <1>5
<1>7. ASSUME NEW x \in S PROVE \E i \in DOMAIN s : s[i] = x
  <2>. DEFINE i == r(x) + 1
  <2>1. i \in 1..n /\ r(x) = i - 1
    BY <1>2
  <2>. HIDE DEF i
  <2>2. s[i] \in S /\ r(s[i]) = r(x) /\ r(x) \in Int
    BY <1>2, <1>4, <2>1
  <2>3. <<s[i], x>> \notin R /\ <<x, s[i]>> \notin R
    BY <1>3, <2>2
  <2>4. s[i] = x
    BY <2>2, <2>3
  <2>. QED
    BY <1>5, <2>1, <2>4
<1>8. ASSUME NEW i \in DOMAIN s, NEW j \in DOMAIN s
      PROVE  (s[i] = s[j] => i = j) /\ (<<s[i], s[j]>> \in R => i < j)
  <2>1. i \in 1..n /\ j \in 1..n /\ r(s[i]) = i - 1 /\ r(s[j]) = j - 1
    BY <1>4, <1>5
  <2>2. <<s[i], s[j]>> \in R => r(s[i]) < r(s[j])
    BY <1>3, <1>4, <1>5
  <2>. QED
    BY <2>1, <2>2
<1>. QED
  BY <1>6, <1>7, <1>8 DEF Lists, s

LEMMA BelowInOrder ==
  ASSUME NEW S \in SUBSET Nat, IsFiniteSet(S)
  PROVE  Lists(InOrder(S, <), S)
<1>. DEFINE R == {x \in S \X S : x[1] < x[2]}
            s == InOrder(S, <)
<1>1. \A x, y \in S : <<x, y>> \in R <=> x < y
  OBVIOUS
<1>2. ASSUME NEW x \in S PROVE {y \in S : y < x} = Ahead(S, R, x)
  BY <1>1 DEF Ahead
<1>3. s = [i \in 1..Cardinality(S) |-> CHOOSE x \in S : Cardinality({y \in S : y < x}) = i - 1]
  BY DEF InOrder
<1>. HIDE DEF R, s
<1>. DEFINE a(i) == CHOOSE x \in S : Cardinality({y \in S : y < x}) = i - 1
            b(i) == CHOOSE x \in S : Cardinality(Ahead(S, R, x)) = i - 1
<1>4. \A i : a(i) = b(i)
  BY <1>2
<1>5. s = InRank(S, R)
  <2>1. s = [i \in 1..Cardinality(S) |-> a(i)] /\ InRank(S, R) = [i \in 1..Cardinality(S) |-> b(i)]
    BY <1>3 DEF InRank
  <2>. HIDE DEF a, b
  <2>. QED
    BY <1>4, <2>1
<1>6. /\ \A x \in S : <<x, x>> \notin R
      /\ \A x, y \in S : x # y => <<x, y>> \in R \/ <<y, x>> \in R
      /\ \A x, y, z \in S : <<x, y>> \in R /\ <<y, z>> \in R => <<x, z>> \in R
  BY <1>1 DEF R
<1>7. Lists(s, S)
  BY <1>5, <1>6, ListedInOrder
<1>. QED
  BY <1>7 DEF s

\* The outlines in an outline, each once, with the node they go into
Entries(file, i, node, e) ==
  /\ e \in Seq((DOMAIN file) \X {node})
  /\ \A k \in DOMAIN e : e[k][1] \in Below(file, i)
  /\ \A c \in Below(file, i) : \E k \in DOMAIN e : e[k][1] = c
  /\ \A k, l \in DOMAIN e : e[k][1] = e[l][1] => k = l

LEMMA EnterIs ==
  ASSUME NEW file \in Seq(Node), Forest(file), NEW i, NEW node
  PROVE  Entries(file, i, node, Enter(file, i, node))
<1>. DEFINE S == Below(file, i)
            s == InOrder(S, <)
            e == Enter(file, i, node)
<1>1. S \in SUBSET Nat /\ S \in SUBSET DOMAIN file /\ IsFiniteSet(S)
  BY ForestGrows, FS_Subset DEF Below
<1>2. Lists(s, S)
  BY <1>1, BelowInOrder
<1>3. e = [k \in DOMAIN s |-> <<s[k], node>>]
  BY DEF Enter
<1>. HIDE DEF S, s, e
<1>4. DOMAIN s = 1..Len(s) /\ Len(s) \in Nat /\ \A k \in DOMAIN s : s[k] \in S
  BY <1>2 DEF Lists
<1>5. DOMAIN e = DOMAIN s /\ \A k \in DOMAIN s : e[k] = <<s[k], node>> /\ e[k][1] = s[k]
  BY <1>3
<1>6. e \in Seq((DOMAIN file) \X {node})
  <2>1. \A k \in 1..Len(s) : s[k] \in DOMAIN file /\ e[k] = <<s[k], node>>
    BY <1>1, <1>4, <1>5
  <2>2. ASSUME NEW k \in 1..Len(s) PROVE e[k] \in (DOMAIN file) \X {node}
    <3>1. <<s[k], node>> \in (DOMAIN file) \X {node}
      BY <2>1
    <3>. QED
      BY <2>1, <3>1
  <2>3. e = [k \in 1..Len(s) |-> e[k]]
    BY <1>3, <1>4
  <2>. HIDE DEF e
  <2>. QED
    BY <1>4, <2>2, <2>3, IsASeq
<1>7. /\ \A k \in DOMAIN e : e[k][1] \in S
      /\ \A c \in S : \E k \in DOMAIN e : e[k][1] = c
      /\ \A k, l \in DOMAIN e : e[k][1] = e[l][1] => k = l
  BY <1>2, <1>4, <1>5 DEF Lists
<1>. QED
  BY <1>6, <1>7 DEF S, e, Entries

\* A file has all its outlines below the root.
LEMMA FileIs ==
  ASSUME NEW file \in Seq(Node), InFolders(file)
  PROVE  Forest(file) /\ Grounded(file) = DOMAIN file
<1>1. DOMAIN file = 1..Len(file) /\ Len(file) \in Nat /\ file \in [DOMAIN file -> Node]
  OBVIOUS
<1>2. Forest(file)
  BY <1>1 DEF Forest
<1>3. \A i \in DOMAIN file : file[i].parent = Root \/ file[i].parent \in DOMAIN file
  BY <1>1, <1>2, ForestGrows DEF Root
<1>4. Grounded(file) = DOMAIN file
  BY <1>2, <1>3, GroundedOnly, ForestGrows
<1>. QED
  BY <1>2, <1>4

LEMMA FolderFirstIs ==
  ASSUME NEW nodes, Forest(nodes)
  PROVE  /\ Lists(FolderFirst(nodes), Grounded(nodes))
         /\ \A i, j \in DOMAIN FolderFirst(nodes) :
              nodes[FolderFirst(nodes)[j]].parent = FolderFirst(nodes)[i] => i < j
<1>. DEFINE S == Grounded(nodes)
            B(m, n) == IF IsFeed(nodes[m]) = IsFeed(nodes[n]) THEN m < n ELSE IsFeed(nodes[n])
            R == {x \in S \X S : B(x[1], x[2])}
            w == FolderFirst(nodes)
<1>1. S \in SUBSET DOMAIN nodes /\ IsFiniteSet(S) /\ \A n \in S : n \in Nat
  BY GroundedIs, ForestGrows, FS_Subset
<1>2. \A m, n \in S : <<m, n>> \in R <=> B(m, n)
  OBVIOUS
<1>3. w = [i \in 1..Cardinality(S) |-> CHOOSE x \in S : Cardinality({y \in S : B(y, x)}) = i - 1]
  BY DEF FolderFirst, InOrder
<1>4. /\ \A x \in S : <<x, x>> \notin R
      /\ \A x, y \in S : x # y => <<x, y>> \in R \/ <<y, x>> \in R
      /\ \A x, y, z \in S : <<x, y>> \in R /\ <<y, z>> \in R => <<x, z>> \in R
  <2>1. /\ \A x \in S : ~B(x, x)
        /\ \A x, y \in S : x # y => B(x, y) \/ B(y, x)
        /\ \A x, y, z \in S : B(x, y) /\ B(y, z) => B(x, z)
    <3>. HIDE DEF S
    <3>1. \A x \in S : IsFeed(nodes[x]) \in BOOLEAN
      BY DEF IsFeed
    <3>. QED
      BY <1>1, <3>1
  <2>. QED
    BY <1>2, <2>1
<1>5. ASSUME NEW m \in S, NEW n \in S, nodes[n].parent = m PROVE <<m, n>> \in R
  <2>1. m < n /\ ~IsFeed(nodes[m])
    BY <1>1, <1>5, ForestGrows
  <2>2. B(m, n)
    BY <2>1 DEF IsFeed
  <2>. QED
    BY <1>2, <2>2
<1>. HIDE DEF R, w, B, S
<1>6. \A x \in S : {y \in S : B(y, x)} = Ahead(S, R, x)
  BY <1>2 DEF Ahead
<1>. DEFINE a(i) == CHOOSE x \in S : Cardinality({y \in S : B(y, x)}) = i - 1
            b(i) == CHOOSE x \in S : Cardinality(Ahead(S, R, x)) = i - 1
<1>7. \A i : a(i) = b(i)
  BY <1>6
<1>8. w = InRank(S, R)
  <2>1. w = [i \in 1..Cardinality(S) |-> a(i)] /\ InRank(S, R) = [i \in 1..Cardinality(S) |-> b(i)]
    BY <1>3 DEF InRank
  <2>. HIDE DEF a, b
  <2>. QED
    BY <1>7, <2>1
<1>9. Lists(w, S) /\ \A i, j \in DOMAIN w : <<w[i], w[j]>> \in R => i < j
  BY <1>1, <1>4, <1>8, ListedInOrder
<1>10. \A i \in DOMAIN w : w[i] \in S
  BY <1>9 DEF Lists
<1>11. \A i, j \in DOMAIN w : nodes[w[j]].parent = w[i] => i < j
  BY <1>5, <1>9, <1>10
<1>. QED
  BY <1>9, <1>11 DEF w, S

\* What is in the file is what is in the tree: the same feeds and folders.
Stands(file, means) ==
  /\ FeedPaths(file) = FeedPaths(means) /\ FolderPaths(file) = FolderPaths(means)
  /\ Cardinality(FeedsOf(file)) = Cardinality(FeedsOf(means))

LEMMA ExportedIs ==
  ASSUME NEW nodes, Forest(nodes)
  PROVE  /\ Exported(nodes) \in Seq(Node) /\ InFolders(Exported(nodes))
         /\ Stands(Exported(nodes), nodes)
<1>. DEFINE w == FolderFirst(nodes)
            G == Grounded(nodes)
            F == Exported(nodes)
            At(n) == IF n = Root THEN Root ELSE CHOOSE i \in DOMAIN w : w[i] = n
<1>1. Lists(w, G) /\ \A i, j \in DOMAIN w : nodes[w[j]].parent = w[i] => i < j
  BY FolderFirstIs
<1>2. F = [i \in DOMAIN w |-> [parent |-> At(nodes[w[i]].parent), name |-> nodes[w[i]].name]]
  BY DEF Exported
<1>3. /\ G \subseteq DOMAIN nodes /\ Root \notin DOMAIN nodes
      /\ \A n \in DOMAIN nodes : n \in G <=> nodes[n].parent = Root \/ nodes[n].parent \in G
  BY GroundedIs, ForestGrows
<1>. HIDE DEF w, F, G
<1>4. DOMAIN w = 1..Len(w) /\ Len(w) \in Nat /\ \A i \in DOMAIN w : w[i] \in G /\ i # Root
  BY <1>1 DEF Lists, Root
<1>5. \A n \in G : At(n) \in DOMAIN w /\ w[At(n)] = n
  BY <1>1, <1>3 DEF Lists
<1>. HIDE DEF At
<1>6. DOMAIN F = DOMAIN w /\ \A i \in DOMAIN w :
        F[i].parent = At(nodes[w[i]].parent) /\ F[i].name = nodes[w[i]].name
  BY <1>2
<1>7. ASSUME NEW i \in DOMAIN w
      PROVE  /\ nodes[w[i]].parent = Root => F[i].parent = Root
             /\ nodes[w[i]].parent # Root =>
                  /\ F[i].parent \in DOMAIN w /\ w[F[i].parent] = nodes[w[i]].parent
                  /\ F[i].parent < i /\ nodes[w[i]].parent \in DOMAIN nodes
             /\ F[i].parent \in DOMAIN w => nodes[w[i]].parent # Root
  <2>1. w[i] \in G
    BY <1>4
  <2>2. nodes[w[i]].parent = Root => F[i].parent = Root
    BY <1>6 DEF At
  <2>3. ASSUME nodes[w[i]].parent # Root
        PROVE  /\ F[i].parent \in DOMAIN w /\ w[F[i].parent] = nodes[w[i]].parent
               /\ F[i].parent < i /\ nodes[w[i]].parent \in DOMAIN nodes
    <3>1. nodes[w[i]].parent \in G
      BY <1>3, <2>1, <2>3
    <3>. QED
      BY <1>1, <1>3, <1>5, <1>6, <3>1
  <2>. QED
    BY <1>4, <2>2, <2>3
<1>8. \A i \in DOMAIN w : w[i] \in DOMAIN nodes /\ nodes[w[i]].name \in Names
  BY <1>3, <1>4, ForestGrows
<1>9. F \in Seq(Node)
  <2>1. ASSUME NEW i \in 1..Len(w) PROVE F[i] \in Node
    <3>1. F[i] = [parent |-> F[i].parent, name |-> F[i].name]
      BY <1>2, <1>4
    <3>2. F[i].parent \in Nat
      BY <1>4, <1>7 DEF Root
    <3>3. F[i].name \in Names
      BY <1>4, <1>6, <1>8
    <3>. QED
      BY <3>1, <3>2, <3>3 DEF Node
  <2>2. F = [i \in 1..Len(w) |-> F[i]]
    BY <1>2, <1>4
  <2>. QED
    BY <1>4, <2>1, <2>2
<1>10. InFolders(F)
  <2>1. ASSUME NEW i \in DOMAIN F
        PROVE  F[i].parent < i /\ (F[i].parent \in DOMAIN F => F[F[i].parent].name \in Titles)
    <3>1. i \in DOMAIN w /\ i \in 1..Len(w)
      BY <1>4, <1>6
    <3>2. CASE nodes[w[i]].parent = Root
      BY <1>4, <1>6, <1>7, <3>1, <3>2 DEF Root
    <3>3. CASE nodes[w[i]].parent # Root
      <4>1. /\ F[i].parent \in DOMAIN w /\ w[F[i].parent] = nodes[w[i]].parent
            /\ F[i].parent < i /\ nodes[w[i]].parent \in DOMAIN nodes
        BY <1>7, <3>1, <3>3
      <4>2. nodes[nodes[w[i]].parent].name \in Titles
        BY <1>8, <3>1, <4>1 DEF Forest, InFolders
      <4>. QED
        BY <1>6, <4>1, <4>2
    <3>. QED
      BY <3>2, <3>3
  <2>. QED
    BY <2>1 DEF InFolders
<1>11. Forest(F) /\ Grounded(F) = DOMAIN F
  BY <1>9, <1>10, FileIs
<1>12. \A i \in DOMAIN F : Path(F, i) = Path(nodes, w[i])
  <2>. DEFINE T == {i \in DOMAIN F : Path(F, i) = Path(nodes, w[i])}
  <2>1. ASSUME NEW i \in DOMAIN F, F[i].parent \in DOMAIN F => F[i].parent \in T
        PROVE  i \in T
    <3>1. Path(F, i) = IF F[i].parent \in DOMAIN F THEN Append(Path(F, F[i].parent), F[i].name)
                       ELSE <<F[i].name>>
      BY <1>11, PathIs
    <3>2. Path(nodes, w[i]) =
            IF nodes[w[i]].parent \in DOMAIN nodes
            THEN Append(Path(nodes, nodes[w[i]].parent), nodes[w[i]].name)
            ELSE <<nodes[w[i]].name>>
      BY <1>6, <1>8, PathIs
    <3>3. CASE nodes[w[i]].parent = Root
      BY <1>3, <1>6, <1>7, <3>1, <3>2, <3>3
    <3>4. CASE nodes[w[i]].parent # Root
      BY <1>6, <1>7, <2>1, <3>1, <3>2, <3>4
    <3>. QED
      BY <3>3, <3>4
  <2>. HIDE DEF T
  <2>2. DOMAIN F \subseteq T
    BY <1>11, <2>1, Parents, ForestGrows
  <2>. QED
    BY <2>2 DEF T
<1>13. \A i \in DOMAIN F : i \in FeedsOf(F) <=> w[i] \in FeedsOf(nodes)
  BY <1>4, <1>6, <1>11 DEF FeedsOf, IsFeed, G
<1>14. \A n \in G : \E i \in DOMAIN F : w[i] = n
  BY <1>1, <1>6 DEF Lists
<1>15. \A i \in DOMAIN F : w[i] \in G
  BY <1>4, <1>6
<1>16. FeedsOf(F) \subseteq DOMAIN F /\ FeedsOf(nodes) \subseteq G
  BY <1>11 DEF FeedsOf, G
<1>17. FeedPaths(F) = FeedPaths(nodes)
  <2>1. \A i \in FeedsOf(F) : \E n \in FeedsOf(nodes) : Path(F, i) = Path(nodes, n)
    BY <1>12, <1>13, <1>16
  <2>2. \A n \in FeedsOf(nodes) : \E i \in FeedsOf(F) : Path(F, i) = Path(nodes, n)
    BY <1>12, <1>13, <1>14, <1>16
  <2>. QED
    BY <2>1, <2>2 DEF FeedPaths, Paths
<1>18. FolderPaths(F) = FolderPaths(nodes)
  <2>1. \A i \in Grounded(F) \ FeedsOf(F) :
          \E n \in Grounded(nodes) \ FeedsOf(nodes) : Path(F, i) = Path(nodes, n)
    BY <1>11, <1>12, <1>13, <1>15 DEF G
  <2>2. \A n \in Grounded(nodes) \ FeedsOf(nodes) :
          \E i \in Grounded(F) \ FeedsOf(F) : Path(F, i) = Path(nodes, n)
    BY <1>11, <1>12, <1>13, <1>14 DEF G
  <2>. QED
    BY <2>1, <2>2 DEF FolderPaths, Paths
<1>19. Cardinality(FeedsOf(F)) = Cardinality(FeedsOf(nodes))
  <2>. DEFINE h == [i \in FeedsOf(F) |-> w[i]]
  <2>1. h \in [FeedsOf(F) -> FeedsOf(nodes)] /\ DOMAIN h = FeedsOf(F)
    BY <1>13, <1>16
  <2>2. \A i, j \in FeedsOf(F) : h[i] = h[j] => i = j
    BY <1>1, <1>6, <1>16 DEF Lists
  <2>3. \A n \in FeedsOf(nodes) : \E i \in FeedsOf(F) : h[i] = n
    BY <1>13, <1>14, <1>16
  <2>. HIDE DEF h
  <2>4. h \in Bijection(FeedsOf(F), FeedsOf(nodes))
    BY <2>1, <2>2, <2>3 DEF Bijection, Injection, Surjection, IsInjective
  <2>5. IsFiniteSet(FeedsOf(F))
    BY <1>11, <1>16, ForestGrows, FS_Subset
  <2>. QED
    BY <2>4, <2>5, FS_Bijection DEF ExistsBijection
<1>. QED
  BY <1>9, <1>10, <1>17, <1>18, <1>19 DEF Stands, F

-----------------------------------------------------------------------------
(* Types                                                                     *)

NodeSets == UNION {[S -> Node] : S \in SUBSET Nat}

\* A thread that imports one of the files fs
Importer(fs) ==
  [stage : Stages, file : fs, overwrite : BOOLEAN, existing : NodeSets,
   todo : Seq(Nat \X Nat), nodes : NodeSets, wrote : BOOLEAN, late : BOOLEAN]

\* nodes have been created, with ids up to id.
Issued(nodes, id) ==
  DOMAIN nodes \subseteq 1..id /\ nodes \in [DOMAIN nodes -> Node] /\ InFolders(nodes)

\* No node of a is another in b.
Agrees(a, b) == \A n \in DOMAIN a \cap DOMAIN b : a[n] = b[n]

\* With the tree nodes and ids up to id, what r knows has been created, and what
\* it has still to do goes into folders it knows, which are what they were.
Sensible(r, nodes, id) ==
  /\ Issued(r.existing, id) /\ Issued(r.nodes, id)
  /\ Agrees(r.existing, nodes) /\ Agrees(r.nodes, nodes)
  /\ \A k \in DOMAIN r.todo :
       /\ r.todo[k][1] \in DOMAIN r.file.file
       /\ r.stage = "create" => Folder(r.existing, r.todo[k][2])
       /\ r.stage = "delete" => r.todo[k][2] = Root

FilesSound(fs) ==
  \A f \in fs : f.file \in Seq(Node) /\ InFolders(f.file) /\ Stands(f.file, f.means)

ThreadsTyped ==
  /\ thread \in [Threads -> {Idle} \cup Importer(files)]
  /\ \A t \in Threads : thread[t] # Idle => Sensible(thread[t], tree, lastId)

SeriesTyped ==
  series # NoSeries =>
    /\ series \in [file : files, overwrite : BOOLEAN, done : BOOLEAN, base : NodeSets]
    /\ Issued(series.base, lastId)

\* A call goes to a node that has been created, and creates nothing in a feed.
Sent(call, nodes, id) ==
  \/ call.call = "create" /\ call.node \in Node /\ Takes(nodes, id + 1, call.node.parent)
  \/ call.call = "delete" /\ call.id \in 1..id

AstrayTyped == \A call \in BagToSet(astray) : Sent(call, tree, lastId)

Typed ==
  /\ lastId \in Nat /\ Issued(tree, lastId) /\ Issued(shown, lastId) /\ Agrees(shown, tree)
  /\ FilesSound(files) /\ ThreadsTyped /\ SeriesTyped /\ AstrayTyped
  /\ \A what \in DOMAIN budget : budget[what] \in Nat
  /\ unseen \in BOOLEAN

\* The tree has changed, but no id is used twice and no node is another.
Grows(nodes, id, now, next) ==
  /\ id <= next
  /\ \A n \in DOMAIN now : n <= id => n \in DOMAIN nodes /\ now[n] = nodes[n]

LEMMA IssuedIs ==
  ASSUME NEW id \in Nat, NEW nodes, Issued(nodes, id)
  PROVE  /\ Forest(nodes) /\ nodes \in NodeSets /\ \A n \in DOMAIN nodes : n < id + 1
         /\ \A next \in Nat : id <= next => Issued(nodes, next)
         /\ Grows(nodes, id, nodes, id)
<1>1. Forest(nodes)
  BY DEF Issued, Forest
<1>2. nodes \in NodeSets
  <2>1. DOMAIN nodes \in SUBSET Nat
    BY DEF Issued
  <2>. QED
    BY <2>1 DEF Issued, NodeSets
<1>3. \A n \in DOMAIN nodes : n < id + 1
  BY DEF Issued
<1>. QED
  BY <1>1, <1>2, <1>3 DEF Issued, Grows

LEMMA EmptyIssued ==
  ASSUME NEW id \in Nat
  PROVE  Issued(<<>>, id) /\ <<>> \in NodeSets
<1>1. DOMAIN <<>> = {} /\ <<>> \in [{} -> Node]
  OBVIOUS
<1>2. Issued(<<>>, id)
  BY <1>1 DEF Issued, InFolders
<1>. QED
  BY <1>2, IssuedIs

LEMMA WithIssued ==
  ASSUME NEW id \in Nat, NEW nodes, Issued(nodes, id), NEW next \in Nat, id < next,
         NEW node \in Node, Takes(nodes, next, node.parent)
  PROVE  /\ Issued(With(nodes, next, node), next)
         /\ Grows(nodes, id, With(nodes, next, node), next)
<1>. DEFINE W == With(nodes, next, node)
<1>1. Forest(nodes) /\ (\A n \in DOMAIN nodes : n < next) /\ next # 0
  BY IssuedIs
<1>2. id <= next /\ (\A n \in DOMAIN nodes : n \in 1..next) /\ ~(next <= id) /\ next \in 1..next
  BY DEF Issued
<1>3. /\ Forest(W) /\ DOMAIN W = DOMAIN nodes \cup {next}
      /\ \A n \in DOMAIN nodes : W[n] = nodes[n]
  <2>1. Forest(W)
    BY <1>1, WithIs
  <2>2. DOMAIN W = DOMAIN nodes \cup {next}
    BY <1>1, WithIs
  <2>3. ASSUME NEW n \in DOMAIN nodes PROVE W[n] = nodes[n]
    BY <1>1 DEF With
  <2>. QED
    BY <2>1, <2>2, <2>3
<1>. HIDE DEF W
<1>4. Issued(W, next)
  BY <1>2, <1>3 DEF Issued, Forest
<1>5. Grows(nodes, id, W, next)
  BY <1>2, <1>3 DEF Grows
<1>. QED
  BY <1>4, <1>5 DEF W

LEMMA RestrictIssued ==
  ASSUME NEW id \in Nat, NEW nodes, Issued(nodes, id), NEW S \in SUBSET DOMAIN nodes
  PROVE  /\ Issued(Restrict(nodes, S), id) /\ DOMAIN Restrict(nodes, S) = S
         /\ \A n \in S : Restrict(nodes, S)[n] = nodes[n]
         /\ Grows(nodes, id, Restrict(nodes, S), id)
<1>. DEFINE R == Restrict(nodes, S)
<1>1. Forest(R) /\ DOMAIN R = S /\ \A n \in S : R[n] = nodes[n]
  BY IssuedIs, RestrictIs
<1>. HIDE DEF R
<1>2. Issued(R, id) /\ Grows(nodes, id, R, id)
  BY <1>1 DEF Issued, Forest, Grows
<1>. QED
  BY <1>1, <1>2 DEF R

LEMMA AgreesStill ==
  ASSUME NEW id \in Nat, NEW next \in Nat, NEW nodes, NEW now, Grows(nodes, id, now, next),
         NEW a, Issued(a, id), Agrees(a, nodes)
  PROVE  Agrees(a, now)
<1>1. \A n \in DOMAIN a : n <= id
  BY DEF Issued
<1>. QED
  BY <1>1 DEF Grows, Agrees

LEMMA SensibleStays ==
  ASSUME NEW id \in Nat, NEW next \in Nat, NEW nodes, NEW now, Grows(nodes, id, now, next),
         NEW r, Sensible(r, nodes, id)
  PROVE  Sensible(r, now, next)
<1>1. id <= next
  BY DEF Grows
<1>2. Issued(r.existing, next) /\ Issued(r.nodes, next)
  BY <1>1, IssuedIs DEF Sensible
<1>3. Agrees(r.existing, now) /\ Agrees(r.nodes, now)
  BY AgreesStill DEF Sensible
<1>. QED
  BY <1>2, <1>3 DEF Sensible

LEMMA SensibleCopy ==
  ASSUME NEW r, NEW s, NEW nodes, NEW id, Sensible(r, nodes, id),
         s.existing = r.existing, s.nodes = r.nodes, s.todo = r.todo, s.file = r.file,
         s.stage = r.stage
  PROVE  Sensible(s, nodes, id)
BY DEF Sensible

LEMMA ImporterIs ==
  ASSUME NEW fs, NEW r \in Importer(fs)
  PROVE  /\ r.stage \in Stages /\ r.file \in fs /\ r.overwrite \in BOOLEAN
         /\ r.existing \in NodeSets /\ r.todo \in Seq(Nat \X Nat) /\ r.nodes \in NodeSets
         /\ r.wrote \in BOOLEAN /\ r.late \in BOOLEAN /\ r # Idle
BY DEF Importer, Idle, Stages

LEMMA MoreFiles ==
  ASSUME NEW fs, NEW gs, fs \subseteq gs
  PROVE  Importer(fs) \subseteq Importer(gs)
BY DEF Importer

LEMMA StageTells ==
  ASSUME Typed, NEW t \in Threads, thread[t].stage \in Stages
  PROVE  thread[t] \in Importer(files) /\ Sensible(thread[t], tree, lastId)
BY DEF Typed, ThreadsTyped, Idle, Stages

\* Being overtaken is all that happens to a thread when the tree changes.
LEMMA OvertakenIs ==
  ASSUME Typed
  PROVE  /\ DOMAIN Overtaken = Threads
         /\ \A u \in Threads :
              /\ Overtaken[u] = Idle <=> thread[u] = Idle
              /\ thread[u].stage # "load" => Overtaken[u] = thread[u]
              /\ thread[u] # Idle =>
                   /\ Overtaken[u] \in Importer(files) /\ Sensible(Overtaken[u], tree, lastId)
                   /\ Overtaken[u].stage = thread[u].stage /\ Overtaken[u].wrote = thread[u].wrote
                   /\ Overtaken[u].existing = thread[u].existing
                   /\ Overtaken[u].todo = thread[u].todo
                   /\ Overtaken[u].file = thread[u].file
                   /\ Overtaken[u].overwrite = thread[u].overwrite
                   /\ thread[u].stage = "load" => Overtaken[u].late
<1>1. DOMAIN Overtaken = Threads /\ \A u \in Threads :
        Overtaken[u] = IF thread[u].stage = "load" THEN [thread[u] EXCEPT !.late = TRUE]
                       ELSE thread[u]
  BY DEF Overtaken
<1>2. ASSUME NEW u \in Threads, thread[u].stage = "load"
      PROVE  /\ thread[u] \in Importer(files) /\ Sensible(thread[u], tree, lastId)
             /\ Overtaken[u] = [thread[u] EXCEPT !.late = TRUE]
  BY <1>1, <1>2, StageTells DEF Stages
<1>3. ASSUME NEW u \in Threads, thread[u].stage = "load"
      PROVE  /\ Overtaken[u] \in Importer(files) /\ Overtaken[u].late
             /\ Overtaken[u].stage = thread[u].stage /\ Overtaken[u].wrote = thread[u].wrote
             /\ Overtaken[u].existing = thread[u].existing
             /\ Overtaken[u].todo = thread[u].todo
             /\ Overtaken[u].nodes = thread[u].nodes
             /\ Overtaken[u].file = thread[u].file
             /\ Overtaken[u].overwrite = thread[u].overwrite
  BY <1>2, <1>3 DEF Importer
<1>4. ASSUME NEW u \in Threads, thread[u].stage = "load"
      PROVE  Sensible(Overtaken[u], tree, lastId)
  BY <1>2, <1>3, <1>4, SensibleCopy
<1>5. \A u \in Threads : thread[u].stage = "load" => thread[u] # Idle /\ Overtaken[u] # Idle
  BY <1>2, <1>3, ImporterIs
<1>6. \A u \in Threads : thread[u].stage # "load" => Overtaken[u] = thread[u]
  BY <1>1
<1>7. \A u \in Threads :
        thread[u] # Idle => thread[u] \in Importer(files) /\ Sensible(thread[u], tree, lastId)
  BY DEF Typed, ThreadsTyped
<1>. QED
  BY <1>1, <1>3, <1>4, <1>5, <1>6, <1>7

LEMMA ThreadStep ==
  ASSUME Typed, lastId' \in Nat, Grows(tree, lastId, tree', lastId'), files \subseteq files',
         NEW t \in Threads, NEW r,
         r = Idle \/ (r \in Importer(files') /\ Sensible(r, tree', lastId')),
         thread' = [thread EXCEPT ![t] = r] \/ thread' = [Overtaken EXCEPT ![t] = r]
  PROVE  ThreadsTyped'
<1>1. Importer(files) \subseteq Importer(files')
  BY MoreFiles
<1>2. lastId \in Nat /\ DOMAIN thread = Threads /\ DOMAIN Overtaken = Threads
  BY OvertakenIs DEF Typed, ThreadsTyped
<1>3. ASSUME NEW u \in Threads, u # t
      PROVE  /\ thread'[u] \in {Idle} \cup Importer(files')
             /\ thread'[u] # Idle => Sensible(thread'[u], tree', lastId')
  <2>1. thread'[u] = thread[u] \/ thread'[u] = Overtaken[u]
    BY <1>2, <1>3
  <2>2. thread'[u] = Idle \/ (thread'[u] \in Importer(files) /\ Sensible(thread'[u], tree, lastId))
    BY <2>1, OvertakenIs DEF Typed, ThreadsTyped
  <2>. QED
    BY <1>1, <1>2, <2>2, SensibleStays
<1>4. thread'[t] = r /\ DOMAIN thread' = Threads
  BY <1>2
<1>5. thread' \in [Threads -> {Idle} \cup Importer(files')]
  <2>1. thread' = [u \in Threads |-> thread'[u]]
    BY <1>2
  <2>2. \A u \in Threads : thread'[u] \in {Idle} \cup Importer(files')
    BY <1>3, <1>4
  <2>. QED
    BY <2>1, <2>2
<1>. QED
  BY <1>3, <1>4, <1>5 DEF ThreadsTyped

LEMMA ThreadsOvertaken ==
  ASSUME Typed, lastId' \in Nat, Grows(tree, lastId, tree', lastId'), files \subseteq files',
         thread' = thread \/ thread' = Overtaken
  PROVE  ThreadsTyped'
<1>1. Importer(files) \subseteq Importer(files')
  BY MoreFiles
<1>2. /\ lastId \in Nat /\ DOMAIN thread = Threads /\ DOMAIN Overtaken = Threads
      /\ thread = [u \in Threads |-> thread[u]] /\ Overtaken = [u \in Threads |-> Overtaken[u]]
  BY OvertakenIs DEF Typed, ThreadsTyped, Overtaken
<1>3. ASSUME NEW u \in Threads
      PROVE  /\ thread'[u] \in {Idle} \cup Importer(files')
             /\ thread'[u] # Idle => Sensible(thread'[u], tree', lastId')
  <2>1. thread'[u] = thread[u] \/ thread'[u] = Overtaken[u]
    BY <1>2, <1>3
  <2>2. thread'[u] = Idle \/ (thread'[u] \in Importer(files) /\ Sensible(thread'[u], tree, lastId))
    BY <2>1, OvertakenIs DEF Typed, ThreadsTyped
  <2>. QED
    BY <1>1, <1>2, <2>2, SensibleStays
<1>4. thread' = [u \in Threads |-> thread'[u]]
  BY <1>2
<1>5. thread' \in [Threads -> {Idle} \cup Importer(files')]
  BY <1>3, <1>4
<1>. QED
  BY <1>3, <1>5 DEF ThreadsTyped

LEMMA SeriesStays ==
  ASSUME Typed, lastId' \in Nat, lastId <= lastId', files \subseteq files',
         series' = NoSeries \/ series' = series
  PROVE  SeriesTyped'
<1>1. SUFFICES ASSUME series' # NoSeries
      PROVE  /\ series' \in [file : files', overwrite : BOOLEAN, done : BOOLEAN, base : NodeSets]
             /\ Issued(series'.base, lastId')
  BY DEF SeriesTyped
<1>2. /\ series \in [file : files, overwrite : BOOLEAN, done : BOOLEAN, base : NodeSets]
      /\ Issued(series.base, lastId) /\ series' = series /\ lastId \in Nat
  BY <1>1 DEF Typed, SeriesTyped
<1>3. Issued(series.base, lastId')
  BY <1>2, IssuedIs
<1>4. series.file \in files'
  BY <1>2
<1>5. series \in [file : files', overwrite : BOOLEAN, done : BOOLEAN, base : NodeSets]
  BY <1>2, <1>4
<1>. QED
  BY <1>2, <1>3, <1>5

LEMMA AstrayIs ==
  ASSUME NEW call
  PROVE  /\ BagToSet(BagAdd(astray, call)) = BagToSet(astray) \cup {call}
         /\ BagToSet(BagRemove(astray, call)) \subseteq BagToSet(astray)
<1>1. BagToSet(BagAdd(astray, call)) = BagToSet(astray) \cup {call}
  BY DEF BagAdd, BagToSet, (+), SetToBag
<1>2. BagToSet(BagRemove(astray, call)) \subseteq BagToSet(astray)
  BY DEF BagRemove, BagToSet, (-)
<1>. QED
  BY <1>1, <1>2

LEMMA AstrayStays ==
  ASSUME Typed, lastId' \in Nat, Grows(tree, lastId, tree', lastId'),
         \A call \in BagToSet(astray') : call \in BagToSet(astray) \/ Sent(call, tree, lastId)
  PROVE  AstrayTyped'
<1>1. lastId \in Nat /\ lastId <= lastId'
  BY DEF Typed, Grows
<1>2. ASSUME NEW call, Sent(call, tree, lastId) PROVE Sent(call, tree', lastId')
  <2>1. CASE call.call = "create" /\ call.node \in Node /\ Takes(tree, lastId + 1, call.node.parent)
    <3>1. call.node.parent \in Nat
      BY <2>1 DEF Node
    <3>. QED
      BY <1>1, <2>1, <3>1 DEF Takes, Grows, Sent
  <2>2. CASE call.call = "delete" /\ call.id \in 1..lastId
    BY <1>1, <2>2 DEF Sent
  <2>. QED
    BY <1>2, <2>1, <2>2 DEF Sent
<1>3. \A call \in BagToSet(astray') : Sent(call, tree, lastId)
  BY DEF Typed, AstrayTyped
<1>. QED
  BY <1>2, <1>3 DEF AstrayTyped

\* The last id that has been given when a call is committed
IdAfter(call) == IF call.call = "create" THEN lastId + 1 ELSE lastId

LEMMA CommitsIs ==
  ASSUME NEW call, Commits(call)
  PROVE  Accepted(call) /\ tree' = TreeAfter(call) /\ lastId' = IdAfter(call)
BY DEF Commits, IdAfter

LEMMA DeleteIs ==
  ASSUME NEW n
  PROVE  /\ Accepted(Delete(n)) <=> n \in DOMAIN tree
         /\ TreeAfter(Delete(n)) = Restrict(tree, DOMAIN tree \ {n}) /\ IdAfter(Delete(n)) = lastId
         /\ Delete(n).call = "delete" /\ Delete(n).id = n
BY DEF Accepted, TreeAfter, IdAfter, Delete

LEMMA CreateIs ==
  ASSUME NEW node
  PROVE  /\ Accepted(Create(node)) <=> node.parent \in DOMAIN tree \cup {Root}
         /\ TreeAfter(Create(node)) = With(tree, lastId + 1, node)
         /\ IdAfter(Create(node)) = lastId + 1
         /\ Create(node).call = "create" /\ Create(node).node = node
BY DEF Accepted, TreeAfter, IdAfter, Create

LEMMA CommittedIs ==
  ASSUME Typed, NEW call, Sent(call, tree, lastId)
  PROVE  /\ IdAfter(call) \in Nat /\ lastId <= IdAfter(call)
         /\ Issued(TreeAfter(call), IdAfter(call))
         /\ Grows(tree, lastId, TreeAfter(call), IdAfter(call))
<1>1. lastId \in Nat /\ Issued(tree, lastId)
  BY DEF Typed
<1>2. CASE call.call = "create" /\ call.node \in Node /\ Takes(tree, lastId + 1, call.node.parent)
  <2>1. TreeAfter(call) = With(tree, lastId + 1, call.node) /\ IdAfter(call) = lastId + 1
    BY <1>2 DEF TreeAfter, IdAfter
  <2>2. lastId + 1 \in Nat /\ lastId < lastId + 1 /\ lastId <= lastId + 1
    BY <1>1
  <2>. QED
    BY <1>1, <1>2, <2>1, <2>2, WithIssued
<1>3. CASE call.call = "delete"
  <2>1. TreeAfter(call) = Restrict(tree, DOMAIN tree \ {call.id}) /\ IdAfter(call) = lastId
    BY <1>3 DEF TreeAfter, IdAfter
  <2>. QED
    BY <1>1, <2>1, RestrictIssued
<1>. QED
  BY <1>2, <1>3 DEF Sent

LEMMA SpendIs ==
  ASSUME Typed, NEW what, Spend(what)
  PROVE  \A w \in DOMAIN budget' : budget'[w] \in Nat
BY DEF Spend, Typed

\* What a call is asked to do is sound.
LEMMA TypedByCall ==
  ASSUME Typed, NEW t \in Threads, NEW call, NEW next, Call(t, call, next),
         Sent(call, tree, lastId),
         Accepted(call) => /\ next \in Importer(files)
                           /\ Sensible(next, TreeAfter(call), IdAfter(call))
  PROVE  Typed'
<1>1. /\ UNCHANGED <<files, shown, series>>
      /\ CallAnswered(t, call, next) \/ CallFails(t, call) \/ CallRefused(t, call)
  BY DEF Call
<1>2. lastId \in Nat /\ Issued(tree, lastId) /\ Grows(tree, lastId, tree, lastId)
  BY IssuedIs DEF Typed
<1>3. Commits(call) \/ UNCHANGED <<tree, lastId>>
  BY <1>1 DEF CallAnswered, CallFails, CallRefused
<1>4. /\ lastId' \in Nat /\ Issued(tree', lastId') /\ Grows(tree, lastId, tree', lastId')
  <2>1. CASE Commits(call)
    BY <2>1, CommitsIs, CommittedIs
  <2>2. CASE UNCHANGED <<tree, lastId>>
    BY <1>2, <2>2
  <2>. QED
    BY <1>3, <2>1, <2>2
<1>5. lastId <= lastId'
  BY <1>4 DEF Grows
<1>6. Issued(shown', lastId') /\ Agrees(shown', tree') /\ SeriesTyped' /\ FilesSound(files')
  <2>1. /\ Issued(shown, lastId) /\ Agrees(shown, tree) /\ FilesSound(files)
        /\ shown' = shown /\ files' = files
    BY <1>1 DEF Typed
  <2>2. Agrees(shown, tree')
    BY <1>2, <1>4, <2>1, AgreesStill
  <2>. QED
    BY <1>1, <1>2, <1>4, <1>5, <2>1, <2>2, IssuedIs, SeriesStays
<1>7. /\ \A w \in DOMAIN budget' : budget'[w] \in Nat
      /\ unseen' \in BOOLEAN
  <2>1. CASE CallAnswered(t, call, next)
    BY <2>1 DEF CallAnswered, Typed
  <2>2. CASE CallFails(t, call)
    BY <2>2, SpendIs DEF CallFails, Ends, Typed
  <2>3. CASE CallRefused(t, call)
    BY <2>3 DEF CallRefused, Ends, Typed
  <2>. QED
    BY <1>1, <2>1, <2>2, <2>3
<1>8. AstrayTyped'
  <2>1. astray' = astray \/ astray' = BagAdd(astray, call)
    BY <1>1 DEF CallAnswered, CallFails, CallRefused
  <2>2. \A c \in BagToSet(astray') : c \in BagToSet(astray) \/ Sent(c, tree, lastId)
    BY <2>1, AstrayIs
  <2>. QED
    BY <1>4, <2>2, AstrayStays
<1>9. ThreadsTyped'
  <2>. DEFINE r == [next EXCEPT !.wrote = TRUE]
  <2>1. CASE CallAnswered(t, call, next)
    <3>1. /\ next \in Importer(files) /\ Sensible(next, tree', lastId')
          /\ thread' = [Overtaken EXCEPT ![t] = r] /\ files' = files
      BY <1>1, <2>1, CommitsIs DEF CallAnswered
    <3>2. r \in Importer(files) /\ Sensible(r, tree', lastId')
      <4>1. /\ r \in Importer(files) /\ r.existing = next.existing /\ r.nodes = next.nodes
            /\ r.todo = next.todo /\ r.file = next.file /\ r.stage = next.stage
        BY <3>1 DEF Importer
      <4>. HIDE DEF r
      <4>. QED
        BY <3>1, <4>1, SensibleCopy
    <3>. HIDE DEF r
    <3>. QED
      BY <1>4, <3>1, <3>2, ThreadStep
  <2>2. CASE CallFails(t, call) \/ CallRefused(t, call)
    <3>1. \/ thread' = [thread EXCEPT ![t] = Idle]
          \/ thread' = [Overtaken EXCEPT ![t] = Idle]
      BY <2>2 DEF CallFails, CallRefused, Ends
    <3>. QED
      BY <1>1, <1>4, <3>1, ThreadStep
  <2>. QED
    BY <1>1, <2>1, <2>2
<1>. QED
  BY <1>4, <1>6, <1>7, <1>8, <1>9 DEF Typed

LEMMA TypedByAstray ==
  ASSUME Typed, NEW call \in BagToSet(astray), CommitAstray(call)
  PROVE  Typed'
<1>1. /\ Commits(call) /\ astray' = BagRemove(astray, call) /\ thread' = Overtaken /\ unseen'
      /\ series' = NoSeries \/ series' = series
      /\ UNCHANGED <<files, shown, budget>>
  BY DEF CommitAstray
<1>2. Sent(call, tree, lastId) /\ lastId \in Nat /\ Issued(shown, lastId) /\ Agrees(shown, tree)
  BY DEF Typed, AstrayTyped
<1>3. /\ lastId' \in Nat /\ lastId <= lastId' /\ Issued(tree', lastId')
      /\ Grows(tree, lastId, tree', lastId')
  BY <1>1, <1>2, CommitsIs, CommittedIs
<1>4. ThreadsTyped' /\ SeriesTyped'
  BY <1>1, <1>3, ThreadsOvertaken, SeriesStays
<1>5. AstrayTyped'
  <2>1. \A c \in BagToSet(astray') : c \in BagToSet(astray)
    BY <1>1, AstrayIs
  <2>. QED
    BY <1>3, <2>1, AstrayStays
<1>6. Issued(shown', lastId') /\ Agrees(shown', tree')
  BY <1>1, <1>2, <1>3, AgreesStill, IssuedIs
<1>. QED
  BY <1>1, <1>3, <1>4, <1>5, <1>6 DEF Typed

LEMMA TypedByThread ==
  ASSUME Typed, NEW t \in Threads, NEW r,
         r = Idle \/ (r \in Importer(files) /\ Sensible(r, tree, lastId)),
         thread' = [thread EXCEPT ![t] = r], UNCHANGED <<tree, lastId, files, astray>>,
         Issued(shown', lastId), Agrees(shown', tree), SeriesTyped', unseen' \in BOOLEAN,
         \A w \in DOMAIN budget' : budget'[w] \in Nat
  PROVE  Typed'
<1>1. lastId \in Nat /\ Issued(tree, lastId) /\ Grows(tree, lastId, tree, lastId) /\ FilesSound(files)
  BY IssuedIs DEF Typed
<1>2. ThreadsTyped'
  BY <1>1, ThreadStep
<1>3. AstrayTyped'
  BY DEF Typed, AstrayTyped
<1>. QED
  BY <1>1, <1>2, <1>3 DEF Typed

LEMMA TailIs ==
  ASSUME NEW S, NEW s \in Seq(S), s # <<>>
  PROVE  /\ 1 \in DOMAIN s /\ Head(s) = s[1] /\ Tail(s) \in Seq(S)
         /\ \A k \in DOMAIN Tail(s) : k + 1 \in DOMAIN s /\ Tail(s)[k] = s[k + 1]
         /\ \A k \in DOMAIN s : k = 1 \/ (k - 1 \in DOMAIN Tail(s) /\ Tail(s)[k - 1] = s[k])
<1>1. Len(s) \in Nat \ {0} /\ DOMAIN s = 1..Len(s)
  BY EmptySeq
<1>2. Tail(s) \in Seq(S) /\ Len(Tail(s)) = Len(s) - 1 /\ \A i \in 1..Len(Tail(s)) : Tail(s)[i] = s[i + 1]
  BY HeadTailProperties
<1>3. DOMAIN Tail(s) = 1..Len(s) - 1
  BY <1>2
<1>4. \A k \in 1..Len(s) - 1 : k + 1 \in 1..Len(s) /\ k \in 1..Len(Tail(s))
  BY <1>1, <1>2
<1>5. \A k \in 1..Len(s) : k # 1 => k - 1 \in 1..Len(s) - 1 /\ k - 1 + 1 = k
  BY <1>1
<1>. QED
  BY <1>1, <1>2, <1>3, <1>4, <1>5

LEMMA ConcatIs ==
  ASSUME NEW S, NEW s \in Seq(S), NEW u \in Seq(S)
  PROVE  /\ s \o u \in Seq(S)
         /\ \A k \in DOMAIN s : k \in DOMAIN (s \o u) /\ (s \o u)[k] = s[k]
         /\ \A k \in DOMAIN u : Len(s) + k \in DOMAIN (s \o u) /\ (s \o u)[Len(s) + k] = u[k]
         /\ \A k \in DOMAIN (s \o u) :
              k \in DOMAIN s \/ (k - Len(s) \in DOMAIN u /\ (s \o u)[k] = u[k - Len(s)])
<1>1. Len(s) \in Nat /\ Len(u) \in Nat /\ DOMAIN s = 1..Len(s) /\ DOMAIN u = 1..Len(u)
  OBVIOUS
<1>2. s \o u \in Seq(S) /\ Len(s \o u) = Len(s) + Len(u)
      /\ \A k \in 1..Len(s) + Len(u) :
           (s \o u)[k] = IF k <= Len(s) THEN s[k] ELSE u[k - Len(s)]
  BY ConcatProperties
<1>3. DOMAIN (s \o u) = 1..Len(s) + Len(u)
  BY <1>2
<1>4. \A k \in 1..Len(s) : k \in 1..Len(s) + Len(u) /\ k <= Len(s)
  BY <1>1
<1>5. \A k \in 1..Len(u) : /\ Len(s) + k \in 1..Len(s) + Len(u) /\ ~(Len(s) + k <= Len(s))
                           /\ Len(s) + k - Len(s) = k
  BY <1>1
<1>6. \A k \in 1..Len(s) + Len(u) : k \in 1..Len(s) \/ (~(k <= Len(s)) /\ k - Len(s) \in 1..Len(u))
  BY <1>1
<1>. QED
  BY <1>1, <1>2, <1>3, <1>4, <1>5, <1>6

\* The outline a thread is at
LEMMA OutlineIs ==
  ASSUME Typed, NEW t \in Threads, Importing(t)
  PROVE  /\ thread[t] \in Importer(files) /\ Sensible(thread[t], tree, lastId)
         /\ thread[t].stage = "create" /\ thread[t].file \in files
         /\ thread[t].file.file \in Seq(Node) /\ InFolders(thread[t].file.file)
         /\ Forest(thread[t].existing) /\ Issued(thread[t].existing, lastId)
         /\ thread[t].todo \in Seq(Nat \X Nat) /\ thread[t].todo # <<>>
         /\ Outline(t) = thread[t].todo[1][1] /\ Into(t) = thread[t].todo[1][2]
         /\ Outline(t) \in DOMAIN thread[t].file.file
         /\ Written(t) \in Node /\ Written(t) = thread[t].file.file[Outline(t)]
         /\ Folder(thread[t].existing, Into(t)) /\ Into(t) \in Nat
         /\ IsFeed(Written(t)) <=> Written(t).name \notin Titles
<1>1. thread[t].stage = "create" /\ thread[t].todo # <<>>
  BY DEF Importing
<1>2. thread[t] \in Importer(files) /\ Sensible(thread[t], tree, lastId)
  BY <1>1, StageTells DEF Stages
<1>3. thread[t].file \in files /\ thread[t].todo \in Seq(Nat \X Nat)
  BY <1>2, ImporterIs
<1>4. thread[t].file.file \in Seq(Node) /\ InFolders(thread[t].file.file)
  BY <1>3 DEF Typed, FilesSound
<1>5. Forest(thread[t].existing) /\ Issued(thread[t].existing, lastId)
  BY <1>2, IssuedIs DEF Sensible, Typed
<1>6. 1 \in DOMAIN thread[t].todo /\ Head(thread[t].todo) = thread[t].todo[1]
  BY <1>1, <1>3, TailIs
<1>7. Outline(t) = thread[t].todo[1][1] /\ Into(t) = thread[t].todo[1][2]
  BY <1>6 DEF Outline, Into
<1>8. Outline(t) \in DOMAIN thread[t].file.file /\ Folder(thread[t].existing, Into(t))
  BY <1>1, <1>2, <1>6, <1>7 DEF Sensible
<1>9. Written(t) \in Node /\ Written(t) = thread[t].file.file[Outline(t)]
  <2>. DEFINE f == thread[t].file.file
  <2>1. f \in Seq(Node) /\ Outline(t) \in DOMAIN f
    BY <1>4, <1>8
  <2>. HIDE DEF f
  <2>2. f[Outline(t)] \in Node
    BY <2>1
  <2>. QED
    BY <2>2 DEF Written, f
<1>10. Into(t) \in Nat
  BY <1>5, <1>8, ForestGrows DEF Folder, Root
<1>11. IsFeed(Written(t)) <=> Written(t).name \notin Titles
  BY <1>9, ImportAssumption DEF Node, Names, IsFeed
<1>. QED
  BY <1>1, <1>2, <1>3, <1>4, <1>5, <1>7, <1>8, <1>9, <1>10, <1>11

\* What is still to do after an outline
LEMMA InsideIs ==
  ASSUME Typed, NEW t \in Threads, Importing(t), NEW node \in Nat
  PROVE  /\ Tail(thread[t].todo) \in Seq(Nat \X Nat)
         /\ \A k \in DOMAIN Tail(thread[t].todo) :
              \E l \in DOMAIN thread[t].todo : Tail(thread[t].todo)[k] = thread[t].todo[l]
         /\ Inside(t, node) \in Seq(Nat \X Nat)
         /\ \A k \in DOMAIN Inside(t, node) :
              \/ \E l \in DOMAIN thread[t].todo : Inside(t, node)[k] = thread[t].todo[l]
              \/ /\ ~IsFeed(Written(t)) /\ Inside(t, node)[k][2] = node
                 /\ Inside(t, node)[k][1] \in DOMAIN thread[t].file.file
<1>. DEFINE todo == thread[t].todo
            file == thread[t].file.file
            e    == Enter(file, Outline(t), node)
            all  == Inside(t, node)
<1>1. todo \in Seq(Nat \X Nat) /\ todo # <<>> /\ file \in Seq(Node) /\ InFolders(file)
  BY OutlineIs
<1>2. Forest(file) /\ \A i \in DOMAIN file : i \in Nat
  BY <1>1, FileIs, ForestGrows
<1>3. all = IF IsFeed(Written(t)) THEN Tail(todo) ELSE e \o Tail(todo)
  BY DEF Inside
<1>. HIDE DEF todo, file, all
<1>4. Tail(todo) \in Seq(Nat \X Nat) /\ \A k \in DOMAIN Tail(todo) :
        k + 1 \in DOMAIN todo /\ Tail(todo)[k] = todo[k + 1]
  BY <1>1, TailIs
<1>5. /\ e \in Seq((DOMAIN file) \X {node})
      /\ \A k \in DOMAIN e : e[k][1] \in Below(file, Outline(t))
  BY <1>1, <1>2, EnterIs DEF Entries
<1>. HIDE DEF e
<1>6. \A k \in DOMAIN e : e[k] \in (DOMAIN file) \X {node}
  BY <1>5, ElementOfSeq
<1>7. \A k \in DOMAIN e : e[k][1] \in DOMAIN file /\ e[k][2] = node /\ e[k] \in Nat \X Nat
  BY <1>2, <1>6
<1>8. e \in Seq(Nat \X Nat)
  <2>1. e = [k \in 1..Len(e) |-> e[k]] /\ Len(e) \in Nat /\ DOMAIN e = 1..Len(e)
    BY <1>5
  <2>. QED
    BY <1>7, <2>1
<1>9. CASE IsFeed(Written(t))
  BY <1>3, <1>4, <1>9 DEF todo, all, file
<1>10. CASE ~IsFeed(Written(t))
  <2>1. all = e \o Tail(todo)
    BY <1>3, <1>10
  <2>2. all \in Seq(Nat \X Nat) /\ \A k \in DOMAIN all :
          \/ k \in DOMAIN e /\ all[k] = e[k]
          \/ k - Len(e) \in DOMAIN Tail(todo) /\ all[k] = Tail(todo)[k - Len(e)]
    <3>. DEFINE rest == Tail(todo)
    <3>1. rest \in Seq(Nat \X Nat)
      BY <1>4
    <3>. HIDE DEF rest
    <3>2. /\ e \o rest \in Seq(Nat \X Nat)
          /\ \A k \in DOMAIN (e \o rest) :
               k \in DOMAIN e \/ (k - Len(e) \in DOMAIN rest /\ (e \o rest)[k] = rest[k - Len(e)])
          /\ \A k \in DOMAIN e : (e \o rest)[k] = e[k]
      BY <1>8, <3>1, ConcatIs
    <3>3. all = e \o rest
      BY <2>1 DEF rest
    <3>. QED
      BY <3>2, <3>3 DEF rest
  <2>3. \A k \in DOMAIN all :
          \/ \E l \in DOMAIN todo : all[k] = todo[l]
          \/ all[k][1] \in DOMAIN file /\ all[k][2] = node
    BY <1>4, <1>7, <2>2
  <2>. QED
    BY <1>4, <1>10, <2>2, <2>3 DEF todo, all, file
<1>. QED
  BY <1>9, <1>10

\* Steps that change no more than a thread, and the series
LEMMA TypedByFetching ==
  ASSUME Typed, NEW t \in Threads, ImportFeeds(t) \/ FetchTree(t) \/ Deleted(t) \/ Refetch(t)
  PROVE  Typed'
<1>1. /\ lastId \in Nat /\ Issued(tree, lastId) /\ tree \in NodeSets /\ Issued(shown, lastId)
      /\ Agrees(shown, tree) /\ unseen \in BOOLEAN /\ \A w \in DOMAIN budget : budget[w] \in Nat
      /\ DOMAIN thread = Threads
  BY IssuedIs DEF Typed, ThreadsTyped
<1>2. CASE ImportFeeds(t)
  <2>1. PICK f \in files, o \in BOOLEAN : thread' = [thread EXCEPT ![t] = Begun(f, o)]
    BY <1>2 DEF ImportFeeds
  <2>2. Begun(f, o) \in Importer(files) /\ Sensible(Begun(f, o), tree, lastId)
    <3>1. Begun(f, o) \in Importer(files)
      BY <1>1, EmptyIssued DEF Begun, Importer, Stages
    <3>2. /\ Begun(f, o).existing = <<>> /\ Begun(f, o).nodes = <<>> /\ Begun(f, o).todo = <<>>
      BY DEF Begun
    <3>3. DOMAIN <<>> = {}
      OBVIOUS
    <3>. QED
      BY <1>1, <3>1, <3>2, <3>3, EmptyIssued DEF Sensible, Agrees
  <2>3. /\ UNCHANGED <<tree, lastId, files, astray, shown, unseen, series>>
        /\ \A w \in DOMAIN budget' : budget'[w] \in Nat
    BY <1>2, SpendIs DEF ImportFeeds
  <2>4. SeriesTyped'
    BY <1>1, <2>3, SeriesStays
  <2>. QED
    BY <1>1, <2>1, <2>2, <2>3, <2>4, TypedByThread
<1>3. CASE FetchTree(t)
  <2>. DEFINE file == thread[t].file.file
              todo == Enter(file, Root, Root)
              stage == IF thread[t].overwrite THEN "delete" ELSE "create"
              r == [thread[t] EXCEPT !.existing = tree, !.stage = stage, !.todo = todo]
  <2>1. /\ thread' = [thread EXCEPT ![t] = r] /\ series' = Serial(t)
        /\ UNCHANGED <<tree, lastId, files, astray, shown, budget, unseen>>
    BY <1>1, <1>3 DEF FetchTree
  <2>2. thread[t] \in Importer(files) /\ Sensible(thread[t], tree, lastId)
    BY <1>3, StageTells DEF FetchTree, Stages
  <2>. HIDE DEF file, todo, stage
  <2>4. /\ thread[t].file \in files /\ thread[t].overwrite \in BOOLEAN
        /\ thread[t].nodes \in NodeSets /\ thread[t].wrote \in BOOLEAN
        /\ thread[t].late \in BOOLEAN
    BY <2>2, ImporterIs
  <2>5. file \in Seq(Node) /\ InFolders(file) /\ Forest(file) /\ \A i \in DOMAIN file : i \in Nat
    BY <2>4, FileIs, ForestGrows DEF Typed, FilesSound, file
  <2>6. /\ todo \in Seq(Nat \X Nat)
        /\ \A k \in DOMAIN todo : todo[k][1] \in DOMAIN file /\ todo[k][2] = Root
    <3>1. todo \in Seq((DOMAIN file) \X {Root})
      BY <2>5, EnterIs DEF todo, Entries
    <3>2. \A k \in DOMAIN todo : todo[k] \in (DOMAIN file) \X {Root}
      BY <3>1, ElementOfSeq
    <3>3. \A k \in DOMAIN todo :
            todo[k][1] \in DOMAIN file /\ todo[k][2] = Root /\ todo[k] \in Nat \X Nat
      BY <2>5, <3>2 DEF Root
    <3>4. todo = [k \in 1..Len(todo) |-> todo[k]] /\ Len(todo) \in Nat /\ DOMAIN todo = 1..Len(todo)
      BY <3>1
    <3>. QED
      BY <3>3, <3>4
  <2>7. r \in Importer(files) /\ r.file = thread[t].file /\ r.existing = tree
        /\ r.nodes = thread[t].nodes /\ r.todo = todo /\ r.stage = stage
    <3>1. stage \in Stages
      BY DEF stage, Stages
    <3>. QED
      BY <1>1, <2>2, <2>6, <3>1 DEF Importer
  <2>. HIDE DEF r
  <2>8. Sensible(r, tree, lastId)
    BY <1>1, <2>2, <2>6, <2>7 DEF Sensible, Folder, Agrees, file
  <2>9. SeriesTyped'
    <3>1. SUFFICES ASSUME series' # NoSeries
          PROVE  /\ series' \in [file : files, overwrite : BOOLEAN, done : BOOLEAN, base : NodeSets]
                 /\ Issued(series'.base, lastId)
      BY <2>1 DEF SeriesTyped
    <3>. DEFINE base == IF series # NoSeries /\ series.file = thread[t].file
                           /\ series.overwrite = thread[t].overwrite
                        THEN series.base ELSE tree
    <3>2. series' = [file |-> thread[t].file, overwrite |-> thread[t].overwrite, done |-> FALSE,
                     base |-> base]
      BY <2>1, <3>1 DEF Serial
    <3>3. base \in NodeSets /\ Issued(base, lastId)
      BY <1>1 DEF Typed, SeriesTyped
    <3>. HIDE DEF base
    <3>. QED
      BY <2>4, <3>2, <3>3
  <2>. QED
    BY <1>1, <2>1, <2>7, <2>8, <2>9, TypedByThread
<1>4. CASE Deleted(t)
  <2>. DEFINE r == [thread[t] EXCEPT !.stage = "create"]
  <2>1. /\ thread' = [thread EXCEPT ![t] = r] /\ thread[t].stage = "delete"
        /\ UNCHANGED <<tree, lastId, files, astray, shown, budget, unseen, series>>
    BY <1>1, <1>4 DEF Deleted
  <2>2. thread[t] \in Importer(files) /\ Sensible(thread[t], tree, lastId)
    BY <2>1, StageTells DEF Stages
  <2>3. /\ r \in Importer(files) /\ r.stage = "create" /\ r.file = thread[t].file
        /\ r.existing = thread[t].existing /\ r.nodes = thread[t].nodes /\ r.todo = thread[t].todo
    BY <2>2 DEF Importer, Stages
  <2>. HIDE DEF r
  <2>4. Sensible(r, tree, lastId)
    BY <2>1, <2>2, <2>3 DEF Sensible, Folder
  <2>5. SeriesTyped'
    BY <1>1, <2>1, SeriesStays
  <2>. QED
    BY <1>1, <2>1, <2>3, <2>4, <2>5, TypedByThread
<1>5. CASE Refetch(t)
  <2>. DEFINE r == [thread[t] EXCEPT !.stage = "load", !.nodes = tree]
  <2>1. /\ thread' = [thread EXCEPT ![t] = r] /\ thread[t].stage = "create" /\ thread[t].todo = <<>>
        /\ series' = IF series = NoSeries THEN NoSeries ELSE [series EXCEPT !.done = TRUE]
        /\ UNCHANGED <<tree, lastId, files, astray, shown, budget, unseen>>
    BY <1>1, <1>5 DEF Refetch
  <2>2. thread[t] \in Importer(files) /\ Sensible(thread[t], tree, lastId)
    BY <2>1, StageTells DEF Stages
  <2>3. /\ r \in Importer(files) /\ r.stage = "load" /\ r.file = thread[t].file
        /\ r.existing = thread[t].existing /\ r.nodes = tree /\ r.todo = <<>>
    BY <1>1, <2>1, <2>2 DEF Importer, Stages
  <2>. HIDE DEF r
  <2>4. Sensible(r, tree, lastId)
    <3>1. DOMAIN <<>> = {}
      OBVIOUS
    <3>. QED
      BY <1>1, <2>2, <2>3, <3>1 DEF Sensible, Agrees
  <2>5. SeriesTyped'
    <3>1. SUFFICES ASSUME series' # NoSeries
          PROVE  /\ series' \in [file : files, overwrite : BOOLEAN, done : BOOLEAN, base : NodeSets]
                 /\ Issued(series'.base, lastId)
      BY <2>1 DEF SeriesTyped
    <3>2. /\ series \in [file : files, overwrite : BOOLEAN, done : BOOLEAN, base : NodeSets]
          /\ Issued(series.base, lastId) /\ series' = [series EXCEPT !.done = TRUE]
      BY <2>1, <3>1 DEF Typed, SeriesTyped
    <3>. QED
      BY <3>2
  <2>. QED
    BY <1>1, <2>1, <2>3, <2>4, <2>5, TypedByThread
<1>. QED
  BY <1>2, <1>3, <1>4, <1>5

LEMMA TypedByOutline ==
  ASSUME Typed, NEW t \in Threads, SkipOutline(t) \/ EnterFolder(t)
  PROVE  Typed'
<1>1. /\ lastId \in Nat /\ Issued(shown, lastId) /\ DOMAIN thread = Threads
      /\ Agrees(shown, tree) /\ unseen \in BOOLEAN /\ \A w \in DOMAIN budget : budget[w] \in Nat
  BY DEF Typed, ThreadsTyped
<1>2. /\ Importing(t) /\ UNCHANGED <<tree, lastId, files, astray, shown, budget, unseen, series>>
  BY DEF SkipOutline, EnterFolder
<1>3. SeriesTyped'
  BY <1>1, <1>2, SeriesStays
<1>4. /\ thread[t] \in Importer(files) /\ Sensible(thread[t], tree, lastId)
      /\ thread[t].stage = "create" /\ Forest(thread[t].existing)
      /\ IsFeed(Written(t)) <=> Written(t).name \notin Titles
  BY <1>2, OutlineIs
<1>5. \E todo \in Seq(Nat \X Nat) :
        /\ thread' = [thread EXCEPT ![t] = [thread[t] EXCEPT !.todo = todo]]
        /\ \A k \in DOMAIN todo : /\ todo[k][1] \in DOMAIN thread[t].file.file
                                  /\ Folder(thread[t].existing, todo[k][2])
  <2>1. \A l \in DOMAIN thread[t].todo :
          /\ thread[t].todo[l][1] \in DOMAIN thread[t].file.file
          /\ Folder(thread[t].existing, thread[t].todo[l][2])
    BY <1>4 DEF Sensible
  <2>2. CASE SkipOutline(t)
    <3>. DEFINE todo == Tail(thread[t].todo)
    <3>1. thread' = [thread EXCEPT ![t] = [thread[t] EXCEPT !.todo = todo]]
      BY <1>1, <2>2 DEF SkipOutline
    <3>2. todo \in Seq(Nat \X Nat) /\ \A k \in DOMAIN todo :
            \E l \in DOMAIN thread[t].todo : todo[k] = thread[t].todo[l]
      BY <1>2, InsideIs, 0 \in Nat
    <3>. HIDE DEF todo
    <3>. QED
      BY <2>1, <3>1, <3>2
  <2>3. CASE EnterFolder(t)
    <3>1. PICK n \in Twins(t) : thread' = [thread EXCEPT ![t].todo = Inside(t, n)]
      BY <2>3 DEF EnterFolder
    <3>2. /\ n \in DOMAIN thread[t].existing /\ thread[t].existing[n].name = Written(t).name
          /\ ~IsFeed(Written(t))
      BY <2>3 DEF Twins, Below, EnterFolder
    <3>3. n \in Nat /\ Folder(thread[t].existing, n)
      BY <1>4, <3>2, ForestGrows DEF Folder
    <3>. DEFINE todo == Inside(t, n)
    <3>4. thread' = [thread EXCEPT ![t] = [thread[t] EXCEPT !.todo = todo]]
      BY <1>1, <3>1
    <3>5. todo \in Seq(Nat \X Nat) /\ \A k \in DOMAIN todo :
            \/ \E l \in DOMAIN thread[t].todo : todo[k] = thread[t].todo[l]
            \/ todo[k][2] = n /\ todo[k][1] \in DOMAIN thread[t].file.file
      BY <1>2, <3>3, InsideIs
    <3>. HIDE DEF todo
    <3>. QED
      BY <2>1, <3>3, <3>4, <3>5
  <2>. QED
    BY <2>2, <2>3
<1>6. PICK todo \in Seq(Nat \X Nat) :
        /\ thread' = [thread EXCEPT ![t] = [thread[t] EXCEPT !.todo = todo]]
        /\ \A k \in DOMAIN todo : /\ todo[k][1] \in DOMAIN thread[t].file.file
                                  /\ Folder(thread[t].existing, todo[k][2])
  BY <1>5
<1>. DEFINE r == [thread[t] EXCEPT !.todo = todo]
<1>7. /\ r \in Importer(files) /\ r.stage = "create" /\ r.file = thread[t].file
      /\ r.existing = thread[t].existing /\ r.nodes = thread[t].nodes /\ r.todo = todo
  BY <1>4 DEF Importer
<1>8. thread' = [thread EXCEPT ![t] = r]
  BY <1>6
<1>. HIDE DEF r
<1>9. Sensible(r, tree, lastId)
  BY <1>4, <1>6, <1>7 DEF Sensible
<1>. QED
  BY <1>1, <1>2, <1>3, <1>7, <1>8, <1>9, TypedByThread

\* The number of the next node, and where it goes
LEMMA NodeIs ==
  ASSUME Typed, NEW t \in Threads, Importing(t), NEW id, id = lastId + 1,
         NEW node, node = [parent |-> Into(t), name |-> Written(t).name]
  PROVE  /\ id \in Nat /\ lastId < id /\ lastId <= id /\ node \in Node
         /\ node.parent = Into(t) /\ node.name = Written(t).name
         /\ Takes(thread[t].existing, id, Into(t))
         /\ Into(t) \in DOMAIN tree \cup {Root} => Folder(tree, Into(t)) /\ Takes(tree, id, Into(t))
<1>1. /\ Written(t) \in Node /\ Into(t) \in Nat /\ Folder(thread[t].existing, Into(t))
      /\ Issued(thread[t].existing, lastId) /\ Sensible(thread[t], tree, lastId)
  BY OutlineIs
<1>2. id \in Nat /\ lastId < id /\ lastId <= id /\ id # 0 /\ Issued(tree, lastId)
  BY DEF Typed
<1>3. node \in Node /\ node.parent = Into(t) /\ node.name = Written(t).name
  BY <1>1 DEF Node
<1>4. Forest(thread[t].existing) /\ Forest(tree) /\ lastId \in Nat
  BY <1>1, IssuedIs DEF Typed
<1>5. /\ \A n \in DOMAIN thread[t].existing : n < id
      /\ \A n \in DOMAIN tree : n < id
  BY <1>1, <1>2, <1>4 DEF Issued
<1>6. Takes(thread[t].existing, id, Into(t))
  BY <1>1, <1>2, <1>4, <1>5, FolderTakes
<1>7. ASSUME Into(t) \in DOMAIN tree \cup {Root} PROVE Folder(tree, Into(t))
  BY <1>1, <1>7 DEF Folder, Sensible, Agrees
<1>8. ASSUME Folder(tree, Into(t)) PROVE Takes(tree, id, Into(t))
  BY <1>2, <1>4, <1>5, <1>8, FolderTakes
<1>. QED
  BY <1>2, <1>3, <1>6, <1>7, <1>8

LEMMA TypedByDelete ==
  ASSUME Typed, NEW t \in Threads, DeleteNode(t)
  PROVE  Typed'
<1>1. PICK n \in NextToDelete(thread[t].existing) :
        Call(t, Delete(n), [thread[t] EXCEPT !.existing = Restrict(@, DOMAIN @ \ {n})])
  BY DEF DeleteNode
<1>2. thread[t].stage = "delete" /\ thread[t] \in Importer(files) /\ Sensible(thread[t], tree, lastId)
  BY StageTells DEF DeleteNode, Stages
<1>. DEFINE T == Restrict(tree, DOMAIN tree \ {n})
            E == Restrict(thread[t].existing, DOMAIN thread[t].existing \ {n})
            r == [thread[t] EXCEPT !.existing = E]
<1>3. Call(t, Delete(n), r) /\ TreeAfter(Delete(n)) = T /\ IdAfter(Delete(n)) = lastId
  BY <1>1, DeleteIs
<1>4. /\ lastId \in Nat /\ Issued(tree, lastId) /\ Issued(thread[t].existing, lastId)
      /\ Issued(thread[t].nodes, lastId)
      /\ Agrees(thread[t].existing, tree) /\ Agrees(thread[t].nodes, tree)
  BY <1>2 DEF Typed, Sensible
<1>5. /\ Issued(T, lastId) /\ DOMAIN T = DOMAIN tree \ {n} /\ Grows(tree, lastId, T, lastId)
      /\ \A m \in DOMAIN tree \ {n} : T[m] = tree[m]
  BY <1>4, RestrictIssued
<1>6. /\ Issued(E, lastId) /\ DOMAIN E = DOMAIN thread[t].existing \ {n}
      /\ \A m \in DOMAIN thread[t].existing \ {n} : E[m] = thread[t].existing[m]
  BY <1>4, RestrictIssued
<1>. HIDE DEF T, E
<1>7. E \in NodeSets
  BY <1>4, <1>6, IssuedIs
<1>8. /\ r \in Importer(files) /\ r.stage = "delete" /\ r.file = thread[t].file
      /\ r.existing = E /\ r.nodes = thread[t].nodes /\ r.todo = thread[t].todo
  BY <1>2, <1>7 DEF Importer
<1>. HIDE DEF r
<1>9. Agrees(E, T) /\ Agrees(thread[t].nodes, T)
  BY <1>4, <1>5, <1>6 DEF Agrees
<1>10. Sensible(r, T, lastId)
  BY <1>2, <1>4, <1>6, <1>8, <1>9 DEF Sensible
<1>11. Sent(Delete(n), tree, lastId)
  <2>1. n \in DOMAIN thread[t].existing
    BY <1>1 DEF NextToDelete, Deepest
  <2>. QED
    BY <1>4, <2>1, DeleteIs DEF Sent, Issued
<1>. QED
  BY <1>3, <1>8, <1>10, <1>11, TypedByCall

LEMMA TypedByCreate ==
  ASSUME Typed, NEW t \in Threads, CreateNode(t)
  PROVE  Typed'
<1>. DEFINE id   == lastId + 1
            node == [parent |-> Into(t), name |-> Written(t).name]
            T    == With(tree, id, node)
            E    == With(thread[t].existing, id, node)
            todo == Inside(t, id)
            r    == [thread[t] EXCEPT !.existing = E, !.todo = todo]
<1>1. /\ Importing(t) /\ Call(t, Create(node), r)
      /\ TreeAfter(Create(node)) = T /\ IdAfter(Create(node)) = id
      /\ Accepted(Create(node)) <=> node.parent \in DOMAIN tree \cup {Root}
      /\ Create(node).call = "create" /\ Create(node).node = node
  BY CreateIs DEF CreateNode, Known
<1>2. /\ id \in Nat /\ lastId < id /\ lastId <= id /\ node \in Node /\ node.parent = Into(t)
      /\ node.name = Written(t).name /\ Takes(thread[t].existing, id, Into(t))
      /\ Into(t) \in DOMAIN tree \cup {Root} => Takes(tree, id, Into(t))
  BY <1>1, NodeIs
<1>3. /\ thread[t] \in Importer(files) /\ Sensible(thread[t], tree, lastId)
      /\ thread[t].stage = "create" /\ lastId \in Nat /\ Issued(tree, lastId)
      /\ IsFeed(Written(t)) <=> Written(t).name \notin Titles
  BY <1>1, OutlineIs DEF Typed
<1>4. /\ todo \in Seq(Nat \X Nat)
      /\ \A k \in DOMAIN todo :
           \/ \E l \in DOMAIN thread[t].todo : todo[k] = thread[t].todo[l]
           \/ /\ ~IsFeed(Written(t)) /\ todo[k][2] = id
              /\ todo[k][1] \in DOMAIN thread[t].file.file
  BY <1>1, <1>2, InsideIs
<1>5. /\ Issued(thread[t].existing, lastId) /\ Issued(thread[t].nodes, lastId)
      /\ Agrees(thread[t].existing, tree) /\ Agrees(thread[t].nodes, tree)
  BY <1>3 DEF Sensible
<1>. HIDE DEF id, node, todo
<1>6. Issued(E, id) /\ Issued(thread[t].nodes, id)
  BY <1>2, <1>3, <1>5, WithIssued, IssuedIs
<1>7. ASSUME Into(t) \in DOMAIN tree \cup {Root}
      PROVE  Issued(T, id) /\ Grows(tree, lastId, T, id)
  BY <1>2, <1>3, <1>7, WithIssued
<1>8. /\ DOMAIN E = DOMAIN thread[t].existing \cup {id} /\ E[id] = node
      /\ \A n \in DOMAIN thread[t].existing : n # id /\ E[n] = thread[t].existing[n]
  BY <1>2, <1>3, <1>5 DEF With, Issued
<1>9. /\ DOMAIN T = DOMAIN tree \cup {id} /\ T[id] = node
      /\ \A n \in DOMAIN tree : n # id /\ T[n] = tree[n]
  BY <1>2, <1>3, <1>5 DEF With, Issued
<1>10. id \notin DOMAIN thread[t].nodes
  BY <1>2, <1>3, <1>5 DEF Issued
<1>. HIDE DEF E, T
<1>11. Agrees(E, T) /\ Agrees(thread[t].nodes, T)
  BY <1>5, <1>8, <1>9, <1>10 DEF Agrees
<1>12. E \in NodeSets
  BY <1>2, <1>6, IssuedIs
<1>13. /\ r \in Importer(files) /\ r.stage = "create" /\ r.file = thread[t].file
       /\ r.existing = E /\ r.nodes = thread[t].nodes /\ r.todo = todo
  BY <1>3, <1>4, <1>12 DEF Importer
<1>. HIDE DEF r
<1>14. ASSUME NEW k \in DOMAIN todo
       PROVE  todo[k][1] \in DOMAIN thread[t].file.file /\ Folder(E, todo[k][2])
  <2>1. ASSUME NEW l \in DOMAIN thread[t].todo, todo[k] = thread[t].todo[l]
        PROVE  todo[k][1] \in DOMAIN thread[t].file.file /\ Folder(E, todo[k][2])
    BY <1>3, <1>8, <2>1 DEF Sensible, Folder
  <2>2. ASSUME ~IsFeed(Written(t)), todo[k][2] = id PROVE Folder(E, todo[k][2])
    BY <1>2, <1>3, <1>8, <2>2 DEF Folder
  <2>. QED
    BY <1>4, <2>1, <2>2
<1>15. Sensible(r, T, id)
  BY <1>3, <1>6, <1>11, <1>13, <1>14 DEF Sensible
<1>16. Sent(Create(node), tree, lastId)
  <2>1. Takes(tree, id, node.parent)
    <3>1. node.parent \in DOMAIN tree => Takes(tree, id, node.parent)
      BY <1>2
    <3>. QED
      BY <1>2, <3>1 DEF Takes
  <2>. QED
    BY <1>1, <1>2, <2>1 DEF Sent, id
<1>. QED
  BY <1>1, <1>13, <1>15, <1>16, TypedByCall

LEMMA TypedByLoad ==
  ASSUME Typed, NEW t \in Threads, LoadNodes(t)
  PROVE  Typed'
<1>1. /\ thread[t] \in Importer(files) /\ Sensible(thread[t], tree, lastId)
      /\ shown' = thread[t].nodes /\ unseen' = thread[t].late
      /\ thread' = [thread EXCEPT ![t] = Idle]
      /\ UNCHANGED <<tree, lastId, files, astray, budget, series>>
  BY StageTells DEF LoadNodes, ToShow, Fetched, Stages
<1>2. Issued(shown', lastId) /\ Agrees(shown', tree) /\ unseen' \in BOOLEAN
  BY <1>1, ImporterIs DEF Sensible
<1>3. SeriesTyped' /\ \A w \in DOMAIN budget' : budget'[w] \in Nat
  BY <1>1, SeriesStays DEF Typed
<1>. QED
  BY <1>1, <1>2, <1>3, TypedByThread

LEMMA TypedByFailing ==
  ASSUME Typed, NEW t \in Threads, FailReading(t)
  PROVE  Typed'
<1>1. /\ thread' = [thread EXCEPT ![t] = Idle] /\ unseen' \in BOOLEAN
      /\ UNCHANGED <<tree, lastId, files, astray, shown, series>>
      /\ \A w \in DOMAIN budget' : budget'[w] \in Nat
  BY SpendIs DEF FailReading, Ends, Typed
<1>2. lastId \in Nat /\ Issued(shown, lastId) /\ Agrees(shown, tree)
  BY DEF Typed
<1>3. SeriesTyped'
  BY <1>1, <1>2, SeriesStays
<1>. QED
  BY <1>1, <1>2, <1>3, TypedByThread

LEMMA TypedByExport ==
  ASSUME Typed, ExportFeeds
  PROVE  Typed'
<1>1. /\ files' = files \cup {[file |-> Exported(tree), means |-> tree]}
      /\ UNCHANGED <<tree, lastId, thread, astray, shown, unseen, series>>
      /\ \A w \in DOMAIN budget' : budget'[w] \in Nat
  BY SpendIs DEF ExportFeeds
<1>2. lastId \in Nat /\ Issued(tree, lastId) /\ Grows(tree, lastId, tree, lastId) /\ Forest(tree)
  BY IssuedIs DEF Typed
<1>3. FilesSound(files')
  BY <1>1, <1>2, ExportedIs DEF FilesSound, Typed
<1>4. ThreadsTyped' /\ SeriesTyped'
  BY <1>1, <1>2, ThreadsOvertaken, SeriesStays
<1>5. AstrayTyped'
  BY <1>1 DEF Typed, AstrayTyped
<1>. QED
  BY <1>1, <1>3, <1>4, <1>5 DEF Typed

LEMMA TypedByChange ==
  ASSUME Typed, NEW nodes, NEW now, Changed(nodes, now), lastId' \in Nat,
         Issued(nodes, lastId'), Grows(tree, lastId, nodes, lastId'),
         Issued(now, lastId'), Agrees(now, nodes)
  PROVE  Typed'
<1>1. /\ tree' = nodes /\ shown' = now /\ thread' = Overtaken /\ series' = NoSeries
      /\ UNCHANGED <<files, astray, unseen>> /\ \A w \in DOMAIN budget' : budget'[w] \in Nat
  BY SpendIs DEF Changed
<1>2. lastId <= lastId'
  BY DEF Grows
<1>3. ThreadsTyped' /\ SeriesTyped'
  BY <1>1, <1>2, ThreadsOvertaken, SeriesStays
<1>4. AstrayTyped'
  <2>1. \A c \in BagToSet(astray') : c \in BagToSet(astray)
    BY <1>1
  <2>. QED
    BY <1>1, <2>1, AstrayStays
<1>. QED
  BY <1>1, <1>3, <1>4 DEF Typed

LEMMA TypedByOthers ==
  ASSUME Typed, OtherCreates \/ OtherDeletes
  PROVE  Typed'
<1>1. /\ lastId \in Nat /\ Issued(tree, lastId) /\ Issued(shown, lastId) /\ Agrees(shown, tree)
      /\ Forest(tree) /\ Root \notin DOMAIN tree /\ Root \notin DOMAIN shown
  BY IssuedIs, ForestGrows DEF Typed
<1>2. CASE OtherCreates
  <2>1. PICK parent \in {n \in DOMAIN tree : ~IsFeed(tree[n])} \cup {Root}, name \in Names :
          /\ lastId' = lastId + 1
          /\ Changed(With(tree, lastId', [parent |-> parent, name |-> name]),
                     With(shown, lastId', [parent |-> parent, name |-> name]))
    BY <1>2 DEF OtherCreates
  <2>. DEFINE node == [parent |-> parent, name |-> name]
  <2>2. node \in Node /\ node.parent = parent
    BY <1>1, <2>1, ForestGrows DEF Node, Root
  <2>. HIDE DEF node
  <2>3. lastId' \in Nat /\ lastId < lastId' /\ \A n \in DOMAIN tree : n < lastId'
    BY <1>1, <2>1 DEF Issued
  <2>4. parent \in DOMAIN tree => tree[parent].name \in Titles
    BY <1>1, <2>1, ForestGrows DEF IsFeed, Names
  <2>5. Takes(tree, lastId', parent) /\ Takes(shown, lastId', parent)
    BY <1>1, <2>1, <2>3, <2>4 DEF Takes, Agrees, Root
  <2>6. /\ Issued(With(tree, lastId', node), lastId') /\ Issued(With(shown, lastId', node), lastId')
        /\ Grows(tree, lastId, With(tree, lastId', node), lastId')
    BY <1>1, <2>2, <2>3, <2>5, WithIssued
  <2>7. Agrees(With(shown, lastId', node), With(tree, lastId', node))
    BY <1>1, <2>3 DEF Agrees, With
  <2>. QED
    BY <2>1, <2>3, <2>6, <2>7, TypedByChange DEF node
<1>3. CASE OtherDeletes
  <2>1. PICK n \in DOMAIN tree :
          /\ Changed(Restrict(tree, DOMAIN tree \ {n}), Restrict(shown, DOMAIN shown \ Subtree(shown, n)))
          /\ lastId' = lastId
    BY <1>3 DEF OtherDeletes
  <2>. DEFINE T == Restrict(tree, DOMAIN tree \ {n})
              S == Restrict(shown, DOMAIN shown \ Subtree(shown, n))
  <2>2. /\ Issued(T, lastId) /\ Grows(tree, lastId, T, lastId) /\ DOMAIN T = DOMAIN tree \ {n}
        /\ \A m \in DOMAIN tree \ {n} : T[m] = tree[m]
    BY <1>1, RestrictIssued
  <2>3. /\ Issued(S, lastId) /\ DOMAIN S = DOMAIN shown \ Subtree(shown, n)
        /\ \A m \in DOMAIN shown \ Subtree(shown, n) : S[m] = shown[m]
    BY <1>1, RestrictIssued
  <2>. HIDE DEF T, S
  <2>4. Agrees(S, T)
    BY <1>1, <2>2, <2>3 DEF Agrees
  <2>. QED
    BY <1>1, <2>1, <2>2, <2>3, <2>4, TypedByChange DEF T, S
<1>. QED
  BY <1>2, <1>3

LEMMA Greatest ==
  ASSUME NEW S \in SUBSET Nat, IsFiniteSet(S), S # {}
  PROVE  Max(S) \in S /\ \A y \in S : y <= Max(S)
<1>. DEFINE Tops(R) == {x \in R : \A y \in R : y <= x}
            sizes == {Cardinality(R) : R \in {R \in SUBSET S : R # {} /\ Tops(R) = {}}}
<1>1. \A R \in SUBSET S : IsFiniteSet(R) /\ Cardinality(R) \in Nat
  BY FS_Subset, FS_CardinalityType
<1>2. sizes = {}
  <2>1. SUFFICES ASSUME sizes # {} PROVE FALSE
    OBVIOUS
  <2>2. sizes \in SUBSET Nat
    BY <1>1
  <2>3. PICK c \in sizes : \A d \in sizes : c <= d
    BY <2>1, <2>2, LeastNat
  <2>4. PICK R \in SUBSET S : R # {} /\ Tops(R) = {} /\ c = Cardinality(R)
    BY <2>3
  <2>5. PICK x \in R : TRUE
    BY <2>4
  <2>6. IsFiniteSet(R) /\ Cardinality(R \ {x}) = Cardinality(R) - 1 /\ Cardinality(R) \in Nat
    BY <1>1, <2>4, <2>5, FS_RemoveElement
  <2>7. R \ {x} # {}
    <3>1. SUFFICES ASSUME R \ {x} = {} PROVE FALSE
      OBVIOUS
    <3>2. x \in Tops(R)
      BY <2>4, <2>5, <3>1
    <3>. QED
      BY <2>4, <3>2
  <2>8. Tops(R \ {x}) # {}
    <3>1. SUFFICES ASSUME Tops(R \ {x}) = {} PROVE FALSE
      OBVIOUS
    <3>2. Cardinality(R \ {x}) \in sizes
      BY <2>4, <2>7, <3>1
    <3>. QED
      BY <2>3, <2>4, <2>6, <3>2
  <2>9. PICK m \in R \ {x} : \A y \in R \ {x} : y <= m
    BY <2>8
  <2>10. m \in Tops(R) \/ x \in Tops(R)
    BY <2>4, <2>5, <2>9
  <2>. QED
    BY <2>4, <2>10
<1>3. Tops(S) # {}
  <2>1. SUFFICES ASSUME Tops(S) = {} PROVE FALSE
    OBVIOUS
  <2>2. Cardinality(S) \in sizes
    BY <2>1
  <2>. QED
    BY <1>2, <2>2
<1>4. \E x \in S : \A y \in S : x >= y
  BY <1>3
<1>. QED
  BY <1>4 DEF Max

LEMMA TypedInit ==
  ASSUME Init
  PROVE  Typed
<1>1. PICK s \in Scenarios :
        /\ tree = s.tree /\ shown = s.tree
        /\ lastId = Max(DOMAIN s.tree \cup {Root})
        /\ files = {[file |-> f, means |-> f] : f \in s.files}
        /\ thread = [t \in Threads |-> Idle]
        /\ budget = [atOnce |-> s.atOnce, imports |-> s.imports, exports |-> s.exports,
                     faults |-> s.faults, changes |-> s.changes]
        /\ unseen = FALSE /\ series = NoSeries /\ astray = EmptyBag
  BY DEF Init
<1>2. /\ DOMAIN tree \subseteq Nat \ {Root} /\ IsFiniteSet(DOMAIN tree)
      /\ tree \in [DOMAIN tree -> Node] /\ InFolders(tree)
      /\ \A f \in s.files : f \in Seq(Node) /\ InFolders(f)
      /\ {s.atOnce, s.imports, s.exports, s.faults, s.changes} \subseteq Nat
  BY <1>1, ImportAssumption
<1>3. lastId \in Nat /\ \A n \in DOMAIN tree : n \in 1..lastId
  <2>. DEFINE S == DOMAIN tree \cup {Root}
  <2>1. S \in SUBSET Nat /\ S # {}
    BY <1>2 DEF Root
  <2>2. IsFiniteSet(S)
    BY <1>2, FS_AddElement
  <2>3. Max(S) \in S /\ \A y \in S : y <= Max(S)
    BY <2>1, <2>2, Greatest
  <2>4. lastId = Max(S)
    BY <1>1
  <2>5. lastId \in Nat /\ \A n \in DOMAIN tree : n <= lastId
    BY <2>1, <2>3, <2>4
  <2>6. \A n \in DOMAIN tree : n \in Nat /\ n # 0
    BY <1>2 DEF Root
  <2>. QED
    BY <2>5, <2>6
<1>4. Issued(tree, lastId) /\ Issued(shown, lastId) /\ Agrees(shown, tree)
  BY <1>1, <1>2, <1>3 DEF Issued, Agrees
<1>5. FilesSound(files)
  BY <1>1, <1>2 DEF FilesSound, Stands
<1>6. ThreadsTyped /\ SeriesTyped /\ AstrayTyped
  BY <1>1 DEF ThreadsTyped, SeriesTyped, AstrayTyped, BagToSet, EmptyBag, SetToBag
<1>7. unseen \in BOOLEAN /\ \A w \in DOMAIN budget : budget[w] \in Nat
  <2>1. /\ s.atOnce \in Nat /\ s.imports \in Nat /\ s.exports \in Nat
        /\ s.faults \in Nat /\ s.changes \in Nat
    BY <1>2
  <2>2. budget \in [atOnce : Nat, imports : Nat, exports : Nat, faults : Nat, changes : Nat]
    BY <1>1, <2>1
  <2>. QED
    BY <1>1, <2>2
<1>. QED
  BY <1>3, <1>4, <1>5, <1>6, <1>7 DEF Typed

LEMMA TypedStays ==
  ASSUME Typed, [Next]_vars
  PROVE  Typed'
<1>1. ASSUME NEW t \in Threads, Step(t) PROVE Typed'
  BY <1>1, TypedByFetching, TypedByOutline, TypedByDelete, TypedByCreate, TypedByLoad,
     TypedByFailing DEF Step
<1>2. CASE UNCHANGED vars
  BY <1>2 DEF vars, Typed, ThreadsTyped, SeriesTyped, AstrayTyped
<1>. QED
  BY <1>1, <1>2, TypedByAstray, TypedByExport, TypedByOthers DEF Next

LEMMA AlwaysTyped == Spec => []Typed
<1>1. Init => Typed
  BY TypedInit
<1>2. Typed /\ [Next]_vars => Typed'
  BY TypedStays
<1>. QED
  BY <1>1, <1>2, PTL DEF Spec

LEMMA TypedIsTypeOK ==
  ASSUME Typed
  PROVE  TypeOK
<1>1. /\ lastId \in Nat /\ IsTree(tree) /\ IsTree(shown) /\ unseen \in BOOLEAN
      /\ \A f \in files : f.file \in Seq(Node)
      /\ \A what \in DOMAIN budget : budget[what] \in Nat
  BY DEF Typed, Issued, IsTree, FilesSound
<1>2. ASSUME NEW t \in Threads, thread[t] # Idle
      PROVE  /\ thread[t].stage \in Stages /\ thread[t].file \in files
             /\ IsTree(thread[t].existing) /\ IsTree(thread[t].nodes)
             /\ \A k \in DOMAIN thread[t].todo :
                  /\ thread[t].todo[k][1] \in DOMAIN thread[t].file.file
                  /\ thread[t].stage = "create" =>
                       thread[t].todo[k][2] \in DOMAIN thread[t].existing \cup {Root}
             /\ {thread[t].overwrite, thread[t].wrote, thread[t].late} \subseteq BOOLEAN
  <2>1. thread[t] \in Importer(files) /\ Sensible(thread[t], tree, lastId)
    BY <1>2 DEF Typed, ThreadsTyped
  <2>2. /\ thread[t].stage \in Stages /\ thread[t].file \in files
        /\ {thread[t].overwrite, thread[t].wrote, thread[t].late} \subseteq BOOLEAN
    BY <2>1, ImporterIs
  <2>. QED
    BY <2>1, <2>2 DEF Sensible, Issued, IsTree, Folder
<1>3. ASSUME NEW call \in BagToSet(astray)
      PROVE  \/ call.call = "create" /\ call.node \in Node /\ call.node.parent <= lastId
             \/ call.call = "delete" /\ call.id \in 1..lastId
  <2>1. Sent(call, tree, lastId)
    BY DEF Typed, AstrayTyped
  <2>. QED
    BY <1>1, <2>1 DEF Sent, Takes, Node
<1>. QED
  BY <1>1, <1>2, <1>3 DEF TypeOK

\* What every variable of an import is: every node that anything knows of, the
\* device or an import under way, has been created, and what an import still has to
\* do goes into nodes it knows, although the tree changes under it.
THEOREM TypeCorrect == Spec => []TypeOK
BY AlwaysTyped, TypedIsTypeOK, PTL

-----------------------------------------------------------------------------
(* What the device shows                                                     *)

\* The root has the same below it.
Alike(a, b) == Grounded(a) = Grounded(b) /\ \A n \in Grounded(a) : a[n] = b[n]

LEMMA AlikeIs ==
  ASSUME NEW a, NEW b, Forest(a), Forest(b)
  PROVE  Alike(a, b) => Restrict(a, Grounded(a)) = Restrict(b, Grounded(b))
BY DEF Alike, Restrict

LEMMA WithAlike ==
  ASSUME NEW a, NEW b, Forest(a), Forest(b), NEW id \in Nat, id # 0,
         \A n \in DOMAIN a : n < id, \A n \in DOMAIN b : n < id,
         NEW node \in Node, Takes(a, id, node.parent), Takes(b, id, node.parent), Alike(a, b)
  PROVE  Alike(With(a, id, node), With(b, id, node))
<1>. DEFINE V == With(a, id, node)
            W == With(b, id, node)
<1>1. Grounded(V) = IF node.parent \in Grounded(a) \cup {Root} THEN Grounded(a) \cup {id}
                    ELSE Grounded(a)
  BY WithGrounded
<1>2. Grounded(W) = IF node.parent \in Grounded(b) \cup {Root} THEN Grounded(b) \cup {id}
                    ELSE Grounded(b)
  BY WithGrounded
<1>3. Grounded(a) \subseteq DOMAIN a /\ Grounded(b) \subseteq DOMAIN b
  BY GroundedIs, ForestGrows
<1>4. \A n \in Grounded(a) \cup {id} : V[n] = W[n]
  BY <1>3 DEF With, Alike
<1>. HIDE DEF V, W
<1>5. Alike(V, W)
  BY <1>1, <1>2, <1>4 DEF Alike
<1>. QED
  BY <1>5 DEF V, W

\* Without a node the root no longer has what is below it.
LEMMA GroundedWithout ==
  ASSUME NEW nodes, Forest(nodes), NEW n, NEW S,
         S = Subtree(nodes, n) \/ (S = {n} /\ n \in DOMAIN nodes)
  PROVE  Grounded(Restrict(nodes, DOMAIN nodes \ S)) = Grounded(nodes) \ Subtree(nodes, n)
<1>. DEFINE R == Restrict(nodes, DOMAIN nodes \ S)
            G == Grounded(nodes) \ Subtree(nodes, n)
<1>1. /\ Forest(R) /\ DOMAIN R = DOMAIN nodes \ S
      /\ \A m \in DOMAIN nodes \ S : R[m] = nodes[m]
  BY RestrictIs
<1>2. Grown(nodes) /\ Root \notin DOMAIN nodes
  BY ForestGrows
<1>3. /\ Subtree(nodes, n) \subseteq DOMAIN nodes
      /\ \A m \in DOMAIN nodes : m \in Subtree(nodes, n) <=> m = n \/ nodes[m].parent \in Subtree(nodes, n)
  BY <1>2, SubtreeIs
<1>4. /\ Grounded(nodes) \subseteq DOMAIN nodes
      /\ \A m \in DOMAIN nodes :
           m \in Grounded(nodes) <=> nodes[m].parent = Root \/ nodes[m].parent \in Grounded(nodes)
  BY <1>2, GroundedIs
<1>5. S \subseteq Subtree(nodes, n) /\ (n \in DOMAIN nodes => n \in S)
  BY <1>3
<1>. HIDE DEF R
<1>6. G \in SUBSET DOMAIN R
  BY <1>1, <1>4, <1>5
<1>7. ASSUME NEW m \in DOMAIN R PROVE m \in G <=> R[m].parent = Root \/ R[m].parent \in G
  <2>1. m \in DOMAIN nodes /\ R[m] = nodes[m] /\ m # n
    BY <1>1, <1>5, <1>7
  <2>. QED
    BY <1>2, <1>3, <1>4, <2>1
<1>. HIDE DEF G
<1>8. Grounded(R) = G
  BY <1>1, <1>6, <1>7, GroundedOnly, ForestGrows
<1>. QED
  BY <1>8 DEF R, G

LEMMA SubtreesAlike ==
  ASSUME NEW a, NEW b, Forest(a), Forest(b), Alike(a, b), NEW n
  PROVE  Grounded(a) \ Subtree(a, n) = Grounded(b) \ Subtree(b, n)
<1>1. Grown(a) /\ Grown(b) /\ Root \notin DOMAIN a /\ Root \notin DOMAIN b
  BY ForestGrows
<1>2. /\ Grounded(a) \subseteq DOMAIN a /\ Subtree(a, n) \subseteq DOMAIN a
      /\ \A m \in DOMAIN a :
           /\ m \in Grounded(a) <=> a[m].parent = Root \/ a[m].parent \in Grounded(a)
           /\ m \in Subtree(a, n) <=> m = n \/ a[m].parent \in Subtree(a, n)
  BY <1>1, GroundedIs, SubtreeIs
<1>3. /\ Grounded(b) \subseteq DOMAIN b /\ Subtree(b, n) \subseteq DOMAIN b
      /\ \A m \in DOMAIN b : m \in Subtree(b, n) <=> m = n \/ b[m].parent \in Subtree(b, n)
  BY <1>1, GroundedIs, SubtreeIs
<1>4. Grounded(a) = Grounded(b) /\ \A m \in Grounded(a) : a[m] = b[m]
  BY DEF Alike
<1>. DEFINE T == {m \in DOMAIN a : m \in Grounded(a) => (m \in Subtree(a, n) <=> m \in Subtree(b, n))}
<1>5. ASSUME NEW m \in DOMAIN a, a[m].parent \in DOMAIN a => a[m].parent \in T
      PROVE  m \in T
  <2>1. SUFFICES ASSUME m \in Grounded(a) PROVE m \in Subtree(a, n) <=> m \in Subtree(b, n)
    OBVIOUS
  <2>2. CASE a[m].parent = Root
    BY <1>1, <1>2, <1>3, <1>4, <2>1, <2>2
  <2>3. CASE a[m].parent # Root
    <3>1. a[m].parent \in Grounded(a) /\ a[m].parent \in T /\ m \in DOMAIN b /\ b[m] = a[m]
      BY <1>2, <1>3, <1>4, <1>5, <2>1, <2>3
    <3>. QED
      BY <1>2, <1>3, <3>1
  <2>. QED
    BY <2>2, <2>3
<1>. HIDE DEF T
<1>6. DOMAIN a \subseteq T
  BY <1>1, <1>5, Parents
<1>. QED
  BY <1>2, <1>4, <1>6 DEF T

\* The backend removes a node alone, the device all that is below it, and what the
\* root has below it is again the same.
LEMMA WithoutAlike ==
  ASSUME NEW a, NEW b, Forest(a), Forest(b), Alike(a, b), NEW n \in DOMAIN b
  PROVE  Alike(Restrict(a, DOMAIN a \ Subtree(a, n)), Restrict(b, DOMAIN b \ {n}))
<1>. DEFINE A == Restrict(a, DOMAIN a \ Subtree(a, n))
            B == Restrict(b, DOMAIN b \ {n})
<1>1. /\ Grown(a) /\ Grown(b) /\ Subtree(a, n) \subseteq DOMAIN a /\ n \in Subtree(b, n)
      /\ n \in DOMAIN a => n \in Subtree(a, n)
  BY SubtreeIs, ForestGrows
<1>2. Grounded(A) = Grounded(a) \ Subtree(a, n)
  BY <1>1, GroundedWithout
<1>3. Grounded(B) = Grounded(b) \ Subtree(b, n)
  BY <1>1, GroundedWithout
<1>4. Grounded(A) = Grounded(B)
  BY <1>2, <1>3, SubtreesAlike
<1>5. Grounded(a) \subseteq DOMAIN a /\ Grounded(b) \subseteq DOMAIN b
  BY <1>1, GroundedIs
<1>6. /\ \A m \in DOMAIN a \ Subtree(a, n) : A[m] = a[m]
      /\ \A m \in DOMAIN b \ {n} : B[m] = b[m]
  BY <1>1, RestrictIs
<1>. HIDE DEF A, B
<1>7. \A m \in Grounded(A) : A[m] = B[m]
  BY <1>1, <1>2, <1>3, <1>4, <1>5, <1>6 DEF Alike
<1>8. Alike(A, B)
  BY <1>4, <1>7 DEF Alike
<1>. QED
  BY <1>8 DEF A, B

ShownSound ==
  /\ unseen \/ (\E t \in Threads : thread[t] # Idle /\ thread[t].wrote) \/ Alike(shown, tree)
  /\ \A t \in Threads :
       thread[t].stage = "load" /\ ~thread[t].late => thread[t].nodes = tree

LEMMA IdleIs == Idle.stage = "idle" /\ Idle.stage \notin Stages
BY DEF Idle, Stages

\* A thread goes on, and the tree stays as it is.
LEMMA ShownByThread ==
  ASSUME Typed, ShownSound, NEW t \in Threads, NEW r, thread' = [thread EXCEPT ![t] = r],
         UNCHANGED <<tree, shown, unseen>>,
         thread[t] # Idle => r # Idle /\ r.wrote = thread[t].wrote,
         r.stage = "load" /\ ~r.late => r.nodes = tree
  PROVE  ShownSound'
<1>1. thread'[t] = r /\ \A u \in Threads \ {t} : thread'[u] = thread[u]
  BY DEF Typed, ThreadsTyped
<1>. QED
  BY <1>1 DEF ShownSound

\* Threads that the tree changes under
LEMMA LateIs ==
  ASSUME Typed
  PROVE  /\ DOMAIN Overtaken = Threads
         /\ \A u \in Threads :
              /\ Overtaken[u].stage = "load" => Overtaken[u].late
              /\ thread[u] # Idle /\ thread[u].wrote => Overtaken[u] # Idle /\ Overtaken[u].wrote
<1>1. ASSUME NEW u \in Threads
      PROVE  /\ Overtaken[u].stage = "load" => Overtaken[u].late
             /\ thread[u] # Idle /\ thread[u].wrote => Overtaken[u] # Idle /\ Overtaken[u].wrote
  <2>1. CASE thread[u] = Idle
    BY <2>1, OvertakenIs, IdleIs
  <2>2. CASE thread[u] # Idle
    BY <2>2, OvertakenIs
  <2>. QED
    BY <2>1, <2>2
<1>. QED
  BY <1>1, OvertakenIs

LEMMA ShownByEnding ==
  ASSUME Typed, ShownSound, NEW t \in Threads, thread[t].stage \in Stages, shown' = shown,
         (tree' = tree /\ Ends(t, thread)) \/ Ends(t, Overtaken)
  PROVE  ShownSound'
<1>1. DOMAIN thread = Threads /\ DOMAIN Overtaken = Threads
  BY LateIs DEF Typed, ThreadsTyped
<1>2. unseen' = (unseen \/ thread[t].wrote \/ tree' # tree)
  BY DEF Ends
<1>3. CASE tree' = tree /\ Ends(t, thread)
  <2>1. thread'[t] = Idle /\ \A u \in Threads \ {t} : thread'[u] = thread[u]
    BY <1>1, <1>3 DEF Ends
  <2>. QED
    BY <1>1, <1>2, <1>3, <2>1, IdleIs DEF ShownSound
<1>4. CASE Ends(t, Overtaken)
  <2>1. thread'[t] = Idle /\ \A u \in Threads \ {t} : thread'[u] = Overtaken[u]
    BY <1>1, <1>4 DEF Ends
  <2>2. \A u \in Threads : thread'[u].stage = "load" => thread'[u].late
    BY <2>1, LateIs, IdleIs
  <2>3. CASE unseen'
    BY <2>2, <2>3 DEF ShownSound
  <2>4. CASE ~unseen'
    <3>1. ~unseen /\ ~thread[t].wrote /\ tree' = tree
      BY <1>2, <2>4
    <3>2. \/ \E u \in Threads \ {t} : thread[u] # Idle /\ thread[u].wrote
          \/ Alike(shown, tree)
      BY <3>1 DEF ShownSound
    <3>. QED
      BY <2>1, <2>2, <3>1, <3>2, LateIs DEF ShownSound
  <2>. QED
    BY <2>3, <2>4
<1>. QED
  BY <1>3, <1>4

LEMMA ShownByCall ==
  ASSUME Typed, ShownSound, NEW t \in Threads, thread[t].stage \in Stages,
         NEW call, NEW next \in Importer(files), next.stage # "load", Call(t, call, next)
  PROVE  ShownSound'
<1>1. shown' = shown /\ DOMAIN Overtaken = Threads
  BY LateIs DEF Call
<1>2. CASE CallAnswered(t, call, next)
  <2>. DEFINE r == [next EXCEPT !.wrote = TRUE]
  <2>1. r.wrote /\ r.stage # "load" /\ r \in Importer(files)
    BY DEF Importer
  <2>2. thread' = [Overtaken EXCEPT ![t] = r]
    BY <1>2 DEF CallAnswered
  <2>. HIDE DEF r
  <2>3. r # Idle
    BY <2>1, ImporterIs
  <2>. QED
    BY <1>1, <2>1, <2>2, <2>3, LateIs DEF ShownSound
<1>3. CASE CallFails(t, call) \/ CallRefused(t, call)
  BY <1>1, <1>3, ShownByEnding DEF CallFails, CallRefused
<1>. QED
  BY <1>2, <1>3 DEF Call

LEMMA ShownByAstray ==
  ASSUME Typed, NEW call, CommitAstray(call)
  PROVE  ShownSound'
BY LateIs DEF CommitAstray, ShownSound

LEMMA ShownByStep ==
  ASSUME Typed, ShownSound, NEW t \in Threads, Step(t)
  PROVE  ShownSound'
<1>1. DOMAIN thread = Threads
  BY DEF Typed, ThreadsTyped
<1>2. ASSUME thread[t].stage \in Stages
      PROVE  /\ thread[t] \in Importer(files) /\ thread[t] # Idle
             /\ thread[t].wrote \in BOOLEAN /\ thread[t].late \in BOOLEAN
  BY <1>2, StageTells, ImporterIs
<1>3. CASE ImportFeeds(t)
  <2>1. PICK f, o : thread' = [thread EXCEPT ![t] = Begun(f, o)]
    BY <1>3 DEF ImportFeeds
  <2>2. thread[t] = Idle /\ UNCHANGED <<tree, shown, unseen>> /\ Begun(f, o).stage # "load"
    BY <1>3 DEF ImportFeeds, Begun
  <2>. QED
    BY <2>1, <2>2, ShownByThread
<1>4. CASE FetchTree(t)
  <2>. DEFINE todo == Enter(thread[t].file.file, Root, Root)
              stage == IF thread[t].overwrite THEN "delete" ELSE "create"
              r == [thread[t] EXCEPT !.existing = tree, !.stage = stage, !.todo = todo]
  <2>1. thread' = [thread EXCEPT ![t] = r] /\ UNCHANGED <<tree, shown, unseen>>
    BY <1>1, <1>4 DEF FetchTree
  <2>2. stage # "load" /\ thread[t] \in Importer(files)
    BY <1>2, <1>4 DEF FetchTree, Stages
  <2>. HIDE DEF stage, todo
  <2>3. r.stage = stage /\ r.wrote = thread[t].wrote
    BY <2>2 DEF Importer
  <2>. HIDE DEF r
  <2>4. r # Idle
    <3>1. stage # "idle"
      BY DEF stage
    <3>. QED
      BY <2>3, <3>1, IdleIs
  <2>. QED
    BY <2>1, <2>2, <2>3, <2>4, ShownByThread
<1>5. CASE DeleteNode(t)
  <2>1. PICK n : Call(t, Delete(n), [thread[t] EXCEPT !.existing = Restrict(@, DOMAIN @ \ {n})])
    BY <1>5 DEF DeleteNode
  <2>. DEFINE E == Restrict(thread[t].existing, DOMAIN thread[t].existing \ {n})
              r == [thread[t] EXCEPT !.existing = E]
  <2>2. thread[t].stage = "delete" /\ thread[t] \in Importer(files) /\ thread[t].stage \in Stages
    BY <1>2, <1>5 DEF DeleteNode, Stages
  <2>3. Issued(E, lastId)
    BY <2>2, StageTells, RestrictIssued DEF Sensible, Typed
  <2>4. E \in NodeSets
    BY <2>3, IssuedIs DEF Typed
  <2>. HIDE DEF E
  <2>5. r \in Importer(files) /\ r.stage = "delete"
    BY <2>2, <2>4 DEF Importer
  <2>. QED
    BY <2>1, <2>2, <2>5, ShownByCall DEF E
<1>6. CASE Deleted(t)
  <2>. DEFINE r == [thread[t] EXCEPT !.stage = "create"]
  <2>1. /\ thread' = [thread EXCEPT ![t] = r] /\ UNCHANGED <<tree, shown, unseen>>
        /\ thread[t] \in Importer(files)
    BY <1>1, <1>2, <1>6 DEF Deleted, Stages
  <2>2. r.stage = "create" /\ r.wrote = thread[t].wrote
    BY <2>1 DEF Importer
  <2>. HIDE DEF r
  <2>. QED
    BY <2>1, <2>2, IdleIs, ShownByThread
<1>7. CASE SkipOutline(t) \/ EnterFolder(t)
  <2>1. PICK todo : /\ thread' = [thread EXCEPT ![t].todo = todo]
                    /\ UNCHANGED <<tree, shown, unseen>>
    BY <1>7 DEF SkipOutline, EnterFolder
  <2>. DEFINE r == [thread[t] EXCEPT !.todo = todo]
  <2>2. thread' = [thread EXCEPT ![t] = r] /\ thread[t] \in Importer(files) /\ thread[t].stage = "create"
    BY <1>1, <1>2, <1>7, <2>1 DEF SkipOutline, EnterFolder, Importing, Stages
  <2>3. r.stage = "create" /\ r.wrote = thread[t].wrote
    BY <2>2 DEF Importer
  <2>. HIDE DEF r
  <2>. QED
    BY <2>1, <2>2, <2>3, IdleIs, ShownByThread
<1>8. CASE CreateNode(t)
  <2>. DEFINE id   == lastId + 1
              node == [parent |-> Into(t), name |-> Written(t).name]
              E    == With(thread[t].existing, id, node)
              todo == Inside(t, id)
              r    == [thread[t] EXCEPT !.existing = E, !.todo = todo]
  <2>1. Importing(t) /\ Call(t, Create(node), r)
    BY <1>8 DEF CreateNode, Known
  <2>2. /\ thread[t] \in Importer(files) /\ thread[t].stage = "create" /\ thread[t].stage \in Stages
        /\ Issued(thread[t].existing, lastId) /\ lastId \in Nat
    BY <2>1, OutlineIs DEF Stages, Typed
  <2>3. /\ id \in Nat /\ lastId < id /\ node \in Node /\ Takes(thread[t].existing, id, node.parent)
    BY <2>1, NodeIs
  <2>4. todo \in Seq(Nat \X Nat)
    BY <2>1, <2>3, InsideIs
  <2>. HIDE DEF id, node, todo
  <2>5. Issued(E, id)
    BY <2>2, <2>3, WithIssued
  <2>6. E \in NodeSets
    BY <2>3, <2>5, IssuedIs
  <2>. HIDE DEF E
  <2>7. r \in Importer(files) /\ r.stage = "create"
    BY <2>2, <2>4, <2>6 DEF Importer
  <2>. HIDE DEF r
  <2>. QED
    BY <2>1, <2>2, <2>7, ShownByCall
<1>9. CASE Refetch(t)
  <2>. DEFINE r == [thread[t] EXCEPT !.stage = "load", !.nodes = tree]
  <2>1. /\ thread' = [thread EXCEPT ![t] = r] /\ UNCHANGED <<tree, shown, unseen>>
        /\ thread[t] \in Importer(files)
    BY <1>1, <1>2, <1>9 DEF Refetch, Stages
  <2>2. r.stage = "load" /\ r.wrote = thread[t].wrote /\ r.nodes = tree
    BY <2>1 DEF Importer
  <2>. HIDE DEF r
  <2>. QED
    BY <2>1, <2>2, IdleIs, ShownByThread
<1>10. CASE LoadNodes(t)
  <2>1. /\ thread[t].stage = "load" /\ shown' = thread[t].nodes /\ unseen' = thread[t].late
        /\ thread'[t] = Idle /\ tree' = tree
        /\ \A u \in Threads \ {t} : thread'[u] = thread[u]
    BY <1>1, <1>10 DEF LoadNodes, ToShow, Fetched
  <2>2. unseen' \/ Alike(shown', tree')
    BY <2>1 DEF ShownSound, Alike
  <2>. QED
    BY <2>1, <2>2, IdleIs DEF ShownSound
<1>11. CASE FailReading(t)
  <2>1. Ends(t, thread) /\ tree' = tree /\ shown' = shown /\ thread[t].stage \in Stages
    BY <1>11 DEF FailReading, Stages
  <2>. QED
    BY <2>1, ShownByEnding
<1>. QED
  BY <1>3, <1>4, <1>5, <1>6, <1>7, <1>8, <1>9, <1>10, <1>11 DEF Step

LEMMA ShownByOthers ==
  ASSUME Typed, ShownSound, OtherCreates \/ OtherDeletes
  PROVE  ShownSound'
<1>1. /\ lastId \in Nat /\ Issued(tree, lastId) /\ Issued(shown, lastId) /\ Agrees(shown, tree)
      /\ Forest(tree) /\ Forest(shown) /\ Root \notin DOMAIN tree /\ Root \notin DOMAIN shown
  BY IssuedIs, ForestGrows DEF Typed
<1>2. thread' = Overtaken /\ UNCHANGED unseen
  BY DEF OtherCreates, OtherDeletes, Changed
<1>3. ASSUME Alike(shown, tree) PROVE Alike(shown', tree')
  <2>1. CASE OtherCreates
    <3>1. PICK parent \in {n \in DOMAIN tree : ~IsFeed(tree[n])} \cup {Root}, name \in Names :
            /\ lastId' = lastId + 1
            /\ tree' = With(tree, lastId', [parent |-> parent, name |-> name])
            /\ shown' = With(shown, lastId', [parent |-> parent, name |-> name])
      BY <2>1 DEF OtherCreates, Changed
    <3>. DEFINE node == [parent |-> parent, name |-> name]
    <3>2. node \in Node /\ node.parent = parent
      BY <1>1, <3>1, ForestGrows DEF Node, Root
    <3>3. tree' = With(tree, lastId', node) /\ shown' = With(shown, lastId', node)
      BY <3>1
    <3>. HIDE DEF node
    <3>4. /\ lastId' \in Nat /\ lastId' # 0 /\ (\A n \in DOMAIN tree : n < lastId')
          /\ \A n \in DOMAIN shown : n < lastId'
      BY <1>1, <3>1 DEF Issued
    <3>5. parent \in DOMAIN tree => tree[parent].name \in Titles
      BY <1>1, <3>1, ForestGrows DEF IsFeed, Names
    <3>6. Takes(tree, lastId', parent) /\ Takes(shown, lastId', parent)
      BY <1>1, <3>1, <3>4, <3>5 DEF Takes, Agrees, Root
    <3>7. Alike(With(shown, lastId', node), With(tree, lastId', node))
      BY <1>1, <1>3, <3>2, <3>4, <3>6, WithAlike
    <3>. QED
      BY <3>3, <3>7
  <2>2. CASE OtherDeletes
    <3>1. PICK n \in DOMAIN tree :
            /\ tree' = Restrict(tree, DOMAIN tree \ {n})
            /\ shown' = Restrict(shown, DOMAIN shown \ Subtree(shown, n))
      BY <2>2 DEF OtherDeletes, Changed
    <3>. QED
      BY <1>1, <1>3, <3>1, WithoutAlike
  <2>. QED
    BY <2>1, <2>2
<1>4. \A t \in Threads : thread'[t].stage = "load" => thread'[t].late
  <2>1. TAKE t \in Threads
  <2>2. CASE thread[t] = Idle
    BY <1>2, <2>2, OvertakenIs, IdleIs
  <2>3. CASE thread[t] # Idle
    BY <1>2, <2>3, OvertakenIs
  <2>. QED
    BY <2>2, <2>3
<1>5. \A t \in Threads : thread[t] # Idle /\ thread[t].wrote => thread'[t] # Idle /\ thread'[t].wrote
  BY <1>2, OvertakenIs
<1>. QED
  BY <1>2, <1>3, <1>4, <1>5 DEF ShownSound

LEMMA AlwaysShownSound == Spec => []ShownSound
<1>1. Init => ShownSound
  <2>1. SUFFICES ASSUME Init PROVE ShownSound
    OBVIOUS
  <2>2. PICK s \in Scenarios : tree = s.tree /\ shown = s.tree /\ thread = [t \in Threads |-> Idle]
    BY <2>1 DEF Init
  <2>3. Alike(shown, tree)
    BY <2>2 DEF Alike
  <2>. QED
    BY <2>2, <2>3, IdleIs DEF ShownSound
<1>2. Typed /\ ShownSound /\ [Next]_vars => ShownSound'
  <2>1. SUFFICES ASSUME Typed, ShownSound, [Next]_vars PROVE ShownSound'
    OBVIOUS
  <2>2. CASE UNCHANGED vars \/ ExportFeeds
    <3>1. UNCHANGED <<tree, thread, shown, unseen>>
      BY <2>2 DEF vars, ExportFeeds
    <3>. QED
      BY <2>1, <3>1 DEF ShownSound
  <2>. QED
    BY <2>1, <2>2, ShownByStep, ShownByAstray, ShownByOthers DEF Next
<1>. QED
  BY <1>1, <1>2, AlwaysTyped, PTL DEF Spec

\* What the device shows when no import is under way is what its user has, unless one
\* failed after it had changed the tree, a call that had failed was committed later, or
\* a change overtook one that was about to show the tree, and none has succeeded since.
THEOREM ShowsTheTree == Spec => []ShownUnlessFailed
<1>1. Typed /\ ShownSound => ShownUnlessFailed
  <2>1. SUFFICES ASSUME Typed, ShownSound, \A t \in Threads : thread[t] = Idle, ~unseen
        PROVE  Restrict(shown, Grounded(shown)) = Restrict(tree, Grounded(tree))
    BY DEF ShownUnlessFailed
  <2>2. Alike(shown, tree)
    BY <2>1 DEF ShownSound
  <2>3. Forest(shown) /\ Forest(tree)
    BY <2>1, IssuedIs DEF Typed
  <2>. QED
    BY <2>2, <2>3, AlikeIs
<1>. QED
  BY <1>1, AlwaysTyped, AlwaysShownSound, PTL

-----------------------------------------------------------------------------
(* What an import makes of a tree                                            *)

LEMMA SubtreeOfLeaf ==
  ASSUME NEW nodes, Grown(nodes), NEW n \in DOMAIN nodes, Below(nodes, n) = {}
  PROVE  Subtree(nodes, n) = {n}
<1>1. Subtree(nodes, n) = {n} \cup UNION {Subtree(nodes, c) : c \in Below(nodes, n)}
  BY ThroughChildren
<1>. QED
  BY <1>1

\* The path of a node below the root is its parent's and its name.
LEMMA PathStep ==
  ASSUME NEW nodes, Forest(nodes), NEW n \in Grounded(nodes)
  PROVE  /\ n \in DOMAIN nodes /\ nodes[n].parent \in Grounded(nodes) \cup {Root}
         /\ Folder(nodes, nodes[n].parent)
         /\ PathTo(nodes, nodes[n].parent) \in Seq(Names) /\ nodes[n].name \in Names
         /\ Path(nodes, n) = Append(PathTo(nodes, nodes[n].parent), nodes[n].name)
<1>1. /\ n \in DOMAIN nodes /\ nodes[n].parent \in Grounded(nodes) \cup {Root}
      /\ Grounded(nodes) \subseteq DOMAIN nodes /\ nodes[n].name \in Names
      /\ Root \notin DOMAIN nodes
  BY GroundedIs, ForestGrows
<1>2. Folder(nodes, nodes[n].parent)
  BY <1>1, ForestGrows DEF Folder, IsFeed, Names
<1>3. CASE nodes[n].parent = Root
  <2>1. Path(nodes, n) = <<nodes[n].name>>
    BY <1>1, <1>3, PathIs
  <2>2. Append(<<>>, nodes[n].name) = <<nodes[n].name>> /\ <<>> \in Seq(Names)
    OBVIOUS
  <2>. QED
    BY <1>1, <1>2, <1>3, <2>1, <2>2 DEF PathTo
<1>4. CASE nodes[n].parent # Root
  <2>1. nodes[n].parent \in DOMAIN nodes
    BY <1>1, <1>4
  <2>2. /\ Path(nodes, n) = Append(Path(nodes, nodes[n].parent), nodes[n].name)
        /\ Path(nodes, nodes[n].parent) \in Seq(Names)
    BY <1>1, <2>1, PathIs
  <2>. QED
    BY <1>1, <1>2, <1>4, <2>2 DEF PathTo
<1>. QED
  BY <1>3, <1>4

LEMMA PathToIs ==
  ASSUME NEW nodes, Forest(nodes), NEW n \in Grounded(nodes) \cup {Root}
  PROVE  /\ PathTo(nodes, n) \in Seq(Names)
         /\ PathTo(nodes, n) = <<>> <=> n = Root
<1>1. Grounded(nodes) \subseteq DOMAIN nodes /\ Root \notin DOMAIN nodes
  BY GroundedIs, ForestGrows
<1>2. CASE n = Root
  BY <1>2 DEF PathTo
<1>3. CASE n # Root
  <2>1. n \in DOMAIN nodes
    BY <1>1, <1>3
  <2>2. Path(nodes, n) \in Seq(Names) \ {<<>>}
    BY <2>1, PathIs
  <2>. QED
    BY <1>3, <2>2 DEF PathTo
<1>. QED
  BY <1>2, <1>3

FeedsOnce(nodes) ==
  \A m, n \in Grounded(nodes) : Path(nodes, m) = Path(nodes, n) => m = n

FoldersOnce(nodes) ==
  \A m, n \in Grounded(nodes) \ FeedsOf(nodes) : Path(nodes, m) = Path(nodes, n) => m = n

\* What is in n has n's path and its name for its path, and if no two folders have
\* one path, nothing else has.
LEMMA TwinIs ==
  ASSUME NEW nodes, Forest(nodes), NEW n \in Grounded(nodes) \cup {Root}, NEW name \in Names,
         Folder(nodes, n)
  PROVE  /\ \A m \in Below(nodes, n) :
              nodes[m].name = name =>
                m \in Grounded(nodes) /\ Path(nodes, m) = Append(PathTo(nodes, n), name)
         /\ FoldersOnce(nodes) =>
              \A m \in Grounded(nodes) :
                Path(nodes, m) = Append(PathTo(nodes, n), name) =>
                  m \in Below(nodes, n) /\ nodes[m].name = name
<1>1. ASSUME NEW m \in Below(nodes, n), nodes[m].name = name
      PROVE  m \in Grounded(nodes) /\ Path(nodes, m) = Append(PathTo(nodes, n), name)
  <2>1. m \in DOMAIN nodes /\ nodes[m].parent = n
    BY DEF Below
  <2>2. m \in Grounded(nodes)
    BY <2>1, GroundedIs, ForestGrows
  <2>. QED
    BY <1>1, <2>1, <2>2, PathStep
<1>2. ASSUME FoldersOnce(nodes), NEW m \in Grounded(nodes),
             Path(nodes, m) = Append(PathTo(nodes, n), name)
      PROVE  m \in Below(nodes, n) /\ nodes[m].name = name
  <2>. DEFINE p == nodes[m].parent
  <2>1. /\ m \in DOMAIN nodes /\ p \in Grounded(nodes) \cup {Root} /\ Folder(nodes, p)
        /\ PathTo(nodes, p) \in Seq(Names) /\ nodes[m].name \in Names
        /\ Path(nodes, m) = Append(PathTo(nodes, p), nodes[m].name)
    BY PathStep
  <2>. HIDE DEF p
  <2>2. PathTo(nodes, n) \in Seq(Names)
    BY PathToIs
  <2>3. PathTo(nodes, p) = PathTo(nodes, n) /\ nodes[m].name = name
    <3>. DEFINE s == PathTo(nodes, p)
                u == PathTo(nodes, n)
                e == nodes[m].name
    <3>1. Append(s, e) = Append(u, name) /\ s \in Seq(Names) /\ u \in Seq(Names) /\ e \in Names
      BY <1>2, <2>1, <2>2
    <3>. HIDE DEF s, u, e
    <3>2. s = u /\ e = name
      BY <3>1, AppendInjective
    <3>. QED
      BY <3>2 DEF s, u, e
  <2>4. p = Root <=> n = Root
    BY <2>1, <2>3, PathToIs
  <2>5. p = n
    <3>1. SUFFICES ASSUME p # Root, n # Root PROVE p = n
      BY <2>4
    <3>2. Path(nodes, p) = Path(nodes, n)
      BY <2>3, <3>1 DEF PathTo
    <3>3. p \notin FeedsOf(nodes) /\ n \notin FeedsOf(nodes)
      BY <2>1, <3>1, ImportAssumption DEF FeedsOf, Folder, IsFeed
    <3>. QED
      BY <1>2, <2>1, <3>1, <3>2, <3>3 DEF FoldersOnce
  <2>. QED
    BY <2>1, <2>3, <2>5 DEF Below, p
<1>. QED
  BY <1>1, <1>2

\* What a new node, which the root has below it, makes of a tree
Grew(nodes, id, node, W) ==
  LET p == Append(PathTo(nodes, node.parent), node.name)
  IN /\ Forest(W) /\ DOMAIN W = DOMAIN nodes \cup {id} /\ W[id] = node
     /\ id \notin DOMAIN nodes /\ Grounded(nodes) \subseteq DOMAIN nodes
     /\ Grounded(W) = Grounded(nodes) \cup {id}
     /\ Path(W, id) = p
     /\ \A n \in DOMAIN nodes : W[n] = nodes[n] /\ Path(W, n) = Path(nodes, n)
     /\ FeedsOf(W) = FeedsOf(nodes) \cup (IF IsFeed(node) THEN {id} ELSE {})
     /\ FeedPaths(W) = FeedPaths(nodes) \cup (IF IsFeed(node) THEN {p} ELSE {})
     /\ FolderPaths(W) = FolderPaths(nodes) \cup (IF IsFeed(node) THEN {} ELSE {p})

LEMMA WithSets ==
  ASSUME NEW nodes, Forest(nodes), NEW id \in Nat, \A n \in DOMAIN nodes : n < id, id # 0,
         NEW node \in Node, Folder(nodes, node.parent),
         node.parent \in Grounded(nodes) \cup {Root}
  PROVE  Grew(nodes, id, node, With(nodes, id, node))
<1>. DEFINE W == With(nodes, id, node)
            p == Append(PathTo(nodes, node.parent), node.name)
<1>1. Takes(nodes, id, node.parent)
  BY FolderTakes
<1>2. /\ Forest(W) /\ DOMAIN W = DOMAIN nodes \cup {id} /\ W[id] = node /\ id \notin DOMAIN nodes
      /\ \A n \in DOMAIN nodes : W[n] = nodes[n]
  BY <1>1, WithIs
<1>3. Grounded(W) = Grounded(nodes) \cup {id} /\ Grounded(nodes) \subseteq DOMAIN nodes
  BY <1>1, WithGrounded, GroundedIs, ForestGrows
<1>4. Path(W, id) = p /\ \A n \in DOMAIN nodes : Path(W, n) = Path(nodes, n)
  BY WithPaths
<1>. HIDE DEF W, p
<1>5. FeedsOf(W) = FeedsOf(nodes) \cup (IF IsFeed(node) THEN {id} ELSE {})
  BY <1>2, <1>3 DEF FeedsOf
<1>6. FeedsOf(nodes) \subseteq Grounded(nodes)
  BY DEF FeedsOf
<1>7. FeedPaths(W) = FeedPaths(nodes) \cup (IF IsFeed(node) THEN {p} ELSE {})
  BY <1>3, <1>4, <1>5, <1>6 DEF FeedPaths, Paths
<1>8. FolderPaths(W) = FolderPaths(nodes) \cup (IF IsFeed(node) THEN {} ELSE {p})
  <2>1. Grounded(W) \ FeedsOf(W) = (Grounded(nodes) \ FeedsOf(nodes)) \cup (IF IsFeed(node) THEN {} ELSE {id})
    BY <1>2, <1>3, <1>5, <1>6
  <2>. QED
    BY <1>3, <1>4, <2>1 DEF FolderPaths, Paths
<1>. QED
  BY <1>2, <1>3, <1>4, <1>5, <1>7, <1>8 DEF Grew, W, p

NoTwin(nodes, node) == \A m \in Below(nodes, node.parent) : nodes[m].name # node.name

\* A node that has no twin where it goes shares its path with none.
LEMMA OnceWith ==
  ASSUME NEW nodes, Forest(nodes), NEW id \in Nat, \A n \in DOMAIN nodes : n < id, id # 0,
         NEW node \in Node, Folder(nodes, node.parent),
         node.parent \in Grounded(nodes) \cup {Root},
         NEW W, Grew(nodes, id, node, W)
  PROVE  /\ FoldersOnce(nodes) /\ IsFeed(node) => FoldersOnce(W)
         /\ NoTwin(nodes, node) =>
              /\ FoldersOnce(nodes) => FoldersOnce(W)
              /\ FeedsOnce(nodes) => FeedsOnce(W)
<1>. DEFINE p == Append(PathTo(nodes, node.parent), node.name)
<1>1. /\ W[id] = node /\ id \notin DOMAIN nodes /\ Grounded(W) = Grounded(nodes) \cup {id}
      /\ Path(W, id) = p /\ \A n \in DOMAIN nodes : Path(W, n) = Path(nodes, n)
      /\ FeedsOf(W) = FeedsOf(nodes) \cup (IF IsFeed(node) THEN {id} ELSE {})
  BY DEF Grew
<1>2. Grounded(nodes) \subseteq DOMAIN nodes /\ FeedsOf(nodes) \subseteq Grounded(nodes)
  BY GroundedIs, ForestGrows DEF FeedsOf
<1>3. node.name \in Names
  BY DEF Node
<1>4. ASSUME NoTwin(nodes, node), FoldersOnce(nodes)
      PROVE  \A m \in Grounded(nodes) : Path(nodes, m) # p
  BY <1>3, <1>4, TwinIs DEF NoTwin
<1>. HIDE DEF p
<1>5. FeedsOnce(nodes) => FoldersOnce(nodes)
  BY DEF FeedsOnce, FoldersOnce
<1>6. ASSUME FoldersOnce(nodes), IsFeed(node) PROVE FoldersOnce(W)
  BY <1>1, <1>2, <1>6 DEF FoldersOnce
<1>7. ASSUME FoldersOnce(nodes), NoTwin(nodes, node)
      PROVE FoldersOnce(W)
  BY <1>1, <1>2, <1>4, <1>7 DEF FoldersOnce
<1>8. ASSUME FeedsOnce(nodes), NoTwin(nodes, node)
      PROVE FeedsOnce(W)
  BY <1>1, <1>2, <1>4, <1>5, <1>8 DEF FeedsOnce
<1>. QED
  BY <1>6, <1>7, <1>8

\* What is in a larger tree as it is here has the same paths there.
LEMMA KeptPaths ==
  ASSUME NEW base, NEW nodes, Forest(base), Forest(nodes),
         \A n \in DOMAIN base : n \in DOMAIN nodes /\ nodes[n] = base[n]
  PROVE  FeedPaths(base) \subseteq FeedPaths(nodes) /\ FolderPaths(base) \subseteq FolderPaths(nodes)
<1>1. /\ Grounded(base) \subseteq DOMAIN base /\ Grounded(nodes) \subseteq DOMAIN nodes
      /\ Root \notin DOMAIN base /\ Root \notin DOMAIN nodes
      /\ \A n \in DOMAIN base :
           n \in Grounded(base) <=> base[n].parent = Root \/ base[n].parent \in Grounded(base)
      /\ \A n \in DOMAIN nodes :
           n \in Grounded(nodes) <=> nodes[n].parent = Root \/ nodes[n].parent \in Grounded(nodes)
  BY GroundedIs, ForestGrows
<1>2. Grounded(base) \subseteq Grounded(nodes)
  <2>. DEFINE T == {n \in DOMAIN base : n \in Grounded(base) => n \in Grounded(nodes)}
  <2>1. ASSUME NEW n \in DOMAIN base, base[n].parent \in DOMAIN base => base[n].parent \in T
        PROVE  n \in T
    BY <1>1, <2>1
  <2>. HIDE DEF T
  <2>2. DOMAIN base \subseteq T
    BY <2>1, Parents, ForestGrows
  <2>. QED
    BY <1>1, <2>2 DEF T
<1>3. \A n \in Grounded(base) : Path(base, n) = Path(nodes, n)
  <2>. DEFINE S == Grounded(base)
  <2>1. S \in SUBSET (DOMAIN base \cap DOMAIN nodes)
    BY <1>1
  <2>2. \A n \in S : /\ base[n] = nodes[n]
                     /\ base[n].parent \in DOMAIN base <=> base[n].parent \in DOMAIN nodes
                     /\ base[n].parent \in DOMAIN base => base[n].parent \in S
    BY <1>1
  <2>. HIDE DEF S
  <2>3. \A n \in S : Path(base, n) = Path(nodes, n)
    BY <2>1, <2>2, PathsCarried
  <2>. QED
    BY <2>3 DEF S
<1>4. /\ FeedsOf(base) \subseteq FeedsOf(nodes)
      /\ Grounded(base) \ FeedsOf(base) \subseteq Grounded(nodes) \ FeedsOf(nodes)
  BY <1>1, <1>2 DEF FeedsOf
<1>5. FeedsOf(base) \subseteq Grounded(base)
  BY DEF FeedsOf
<1>. QED
  BY <1>3, <1>4, <1>5 DEF FeedPaths, FolderPaths, Paths

\* Around a feed are folders.
LEMMA AroundFeeds ==
  ASSUME NEW nodes, Forest(nodes)
  PROVE  /\ Around(FeedPaths(nodes)) \subseteq FolderPaths(nodes)
         /\ \A n \in DOMAIN nodes, m \in FeedsOf(nodes) :
              ~IsFeed(nodes[n]) /\ m \in Subtree(nodes, n) => Path(nodes, n) \in Around(FeedPaths(nodes))
<1>1. /\ Grounded(nodes) \subseteq DOMAIN nodes /\ Grown(nodes) /\ Root \notin DOMAIN nodes
      /\ \A n \in DOMAIN nodes :
           n \in Grounded(nodes) <=> nodes[n].parent = Root \/ nodes[n].parent \in Grounded(nodes)
  BY GroundedIs, ForestGrows
<1>2. Around(FeedPaths(nodes)) = UNION {Paths(nodes, Ancestors(nodes, m)) : m \in FeedsOf(nodes)}
  <2>1. Around(FeedPaths(nodes)) = UNION {Openings(q) : q \in FeedPaths(nodes)}
    BY DEF Around, Openings
  <2>2. \A m \in FeedsOf(nodes) : Openings(Path(nodes, m)) = Paths(nodes, Ancestors(nodes, m))
    BY <1>1, OpeningsAre DEF FeedsOf
  <2>. QED
    BY <2>1, <2>2 DEF FeedPaths, Paths
<1>3. \A m \in FeedsOf(nodes) : Ancestors(nodes, m) \subseteq Grounded(nodes) \ FeedsOf(nodes)
  <2>. DEFINE T == {m \in DOMAIN nodes :
                      m \in Grounded(nodes) => Ancestors(nodes, m) \subseteq Grounded(nodes) \ FeedsOf(nodes)}
  <2>1. ASSUME NEW m \in DOMAIN nodes, nodes[m].parent \in DOMAIN nodes => nodes[m].parent \in T
        PROVE  m \in T
    <3>1. Ancestors(nodes, m) =
            IF nodes[m].parent \in DOMAIN nodes
            THEN Ancestors(nodes, nodes[m].parent) \cup {nodes[m].parent} ELSE {}
      BY AncestorsAre
    <3>2. nodes[m].parent \in DOMAIN nodes => nodes[m].parent \notin FeedsOf(nodes)
      BY ForestGrows DEF FeedsOf
    <3>. QED
      BY <1>1, <2>1, <3>1, <3>2
  <2>. HIDE DEF T
  <2>2. DOMAIN nodes \subseteq T
    BY <1>1, <2>1, Parents
  <2>. QED
    BY <1>1, <2>2 DEF T, FeedsOf
<1>4. ASSUME NEW n \in DOMAIN nodes, NEW m \in FeedsOf(nodes), ~IsFeed(nodes[n]), m \in Subtree(nodes, n)
      PROVE  n \in Ancestors(nodes, m)
  BY <1>4 DEF Ancestors, FeedsOf
<1>. QED
  BY <1>2, <1>3, <1>4 DEF FolderPaths, Paths

-----------------------------------------------------------------------------
(* What an import has to do                                                  *)

\* The outlines that are in one of those to do
Waiting(file, todo) == {j \in DOMAIN file : \E k \in DOMAIN todo : j \in Subtree(file, todo[k][1])}

Apart(file, todo) ==
  \A k, l \in DOMAIN todo :
    k # l => Subtree(file, todo[k][1]) \cap Subtree(file, todo[l][1]) = {}

\* The node an outline goes into has the path that the outline around it has.
Fits(file, nodes, i, n) ==
  /\ i \in DOMAIN file /\ n \in Grounded(nodes) \cup {Root} /\ Folder(nodes, n)
  /\ PathTo(nodes, n) = PathTo(file, file[i].parent)

Placed(file, nodes, todo) == \A k \in DOMAIN todo : Fits(file, nodes, todo[k][1], todo[k][2])

LEMMA FirstTasks ==
  ASSUME NEW file \in Seq(Node), InFolders(file), NEW todo, todo = Enter(file, Root, Root)
  PROVE  /\ todo \in Seq(Nat \X Nat) /\ Waiting(file, todo) = DOMAIN file /\ Apart(file, todo)
         /\ \A nodes : Placed(file, nodes, todo)
<1>1. Forest(file) /\ Grounded(file) = DOMAIN file /\ Grown(file)
  BY FileIs, ForestGrows
<1>. DEFINE e == Enter(file, Root, Root)
<1>2. /\ todo \in Seq((DOMAIN file) \X {Root})
      /\ \A k \in DOMAIN todo : todo[k][1] \in Below(file, Root)
      /\ \A c \in Below(file, Root) : \E k \in DOMAIN todo : todo[k][1] = c
      /\ \A k, l \in DOMAIN todo : todo[k][1] = todo[l][1] => k = l
  <2>1. /\ e \in Seq((DOMAIN file) \X {Root})
        /\ \A k \in DOMAIN e : e[k][1] \in Below(file, Root)
        /\ \A c \in Below(file, Root) : \E k \in DOMAIN e : e[k][1] = c
        /\ \A k, l \in DOMAIN e : e[k][1] = e[l][1] => k = l
    BY <1>1, EnterIs DEF Entries
  <2>2. todo = e
    OBVIOUS
  <2>. HIDE DEF e
  <2>. QED
    BY <2>1, <2>2
<1>3. /\ Grounded(file) = UNION {Subtree(file, c) : c \in Below(file, Root)}
      /\ \A c, d \in Below(file, Root) : c # d => Subtree(file, c) \cap Subtree(file, d) = {}
  BY <1>1, ThroughChildren
<1>4. \A k \in DOMAIN todo : todo[k] \in (DOMAIN file) \X {Root}
  BY <1>2, ElementOfSeq
<1>5. \A k \in DOMAIN todo :
        /\ todo[k][1] \in DOMAIN file /\ todo[k][2] = Root /\ file[todo[k][1]].parent = Root
  BY <1>2, <1>4 DEF Below
<1>6. todo \in Seq(Nat \X Nat)
  <2>1. todo = [k \in 1..Len(todo) |-> todo[k]] /\ Len(todo) \in Nat /\ DOMAIN todo = 1..Len(todo)
    BY <1>2
  <2>2. \A k \in DOMAIN todo : todo[k] \in Nat \X Nat
    BY <1>1, <1>4, ForestGrows DEF Root
  <2>. QED
    BY <2>1, <2>2
<1>7. Waiting(file, todo) = DOMAIN file
  <2>1. ASSUME NEW j \in DOMAIN file PROVE j \in Waiting(file, todo)
    <3>1. PICK c \in Below(file, Root) : j \in Subtree(file, c)
      BY <1>1, <1>3
    <3>2. PICK k \in DOMAIN todo : todo[k][1] = c
      BY <1>2
    <3>. QED
      BY <3>1, <3>2 DEF Waiting
  <2>. QED
    BY <2>1 DEF Waiting
<1>8. Apart(file, todo)
  BY <1>2, <1>3 DEF Apart
<1>9. \A nodes : Placed(file, nodes, todo)
  BY <1>5 DEF Placed, Fits, Folder, PathTo
<1>. QED
  BY <1>6, <1>7, <1>8, <1>9

LEMMA RestTasks ==
  ASSUME NEW file, NEW todo \in Seq(Nat \X Nat), todo # <<>>, Apart(file, todo),
         NEW rest, rest = Tail(todo)
  PROVE  /\ rest \in Seq(Nat \X Nat) /\ Apart(file, rest)
         /\ Waiting(file, rest) = Waiting(file, todo) \ Subtree(file, todo[1][1])
         /\ \A nodes : Placed(file, nodes, todo) => Placed(file, nodes, rest)
         /\ \A m \in DOMAIN rest : Subtree(file, rest[m][1]) \cap Subtree(file, todo[1][1]) = {}
<1>1. /\ 1 \in DOMAIN todo /\ rest \in Seq(Nat \X Nat)
      /\ \A k \in DOMAIN rest : k + 1 \in DOMAIN todo /\ rest[k] = todo[k + 1]
      /\ \A k \in DOMAIN todo : k = 1 \/ (k - 1 \in DOMAIN rest /\ rest[k - 1] = todo[k])
  BY TailIs
<1>2. \A k \in DOMAIN rest : k \in Nat \ {0}
  BY <1>1
<1>3. \A k, l \in DOMAIN rest : k # l => k + 1 # l + 1
  BY <1>2
<1>4. \A k \in DOMAIN rest : k + 1 # 1
  BY <1>2
<1>5. Apart(file, rest)
  <2>1. ASSUME NEW k \in DOMAIN rest, NEW l \in DOMAIN rest, k # l
        PROVE  Subtree(file, rest[k][1]) \cap Subtree(file, rest[l][1]) = {}
    <3>1. k + 1 \in DOMAIN todo /\ l + 1 \in DOMAIN todo /\ k + 1 # l + 1
      BY <1>1, <1>3, <2>1
    <3>2. Subtree(file, todo[k + 1][1]) \cap Subtree(file, todo[l + 1][1]) = {}
      BY <3>1 DEF Apart
    <3>. QED
      BY <1>1, <3>2
  <2>. QED
    BY <2>1 DEF Apart
<1>6. \A m \in DOMAIN rest : Subtree(file, rest[m][1]) \cap Subtree(file, todo[1][1]) = {}
  BY <1>1, <1>4 DEF Apart
<1>7. Waiting(file, rest) = Waiting(file, todo) \ Subtree(file, todo[1][1])
  <2>1. ASSUME NEW j \in DOMAIN file
        PROVE  (\E k \in DOMAIN rest : j \in Subtree(file, rest[k][1])) <=>
                 /\ \E k \in DOMAIN todo : j \in Subtree(file, todo[k][1])
                 /\ j \notin Subtree(file, todo[1][1])
    BY <1>1, <1>6
  <2>. QED
    BY <2>1 DEF Waiting
<1>8. \A nodes : Placed(file, nodes, todo) => Placed(file, nodes, rest)
  BY <1>1 DEF Placed
<1>. QED
  BY <1>1, <1>5, <1>6, <1>7, <1>8

\* Into an outline: what is in it takes its place among what is to do.
Entered(file, todo, i, id, all) ==
  /\ all \in Seq(Nat \X Nat) /\ Apart(file, all)
  /\ Waiting(file, all) = Waiting(file, todo) \ {i} /\ i \in Waiting(file, todo)
  /\ \A k \in DOMAIN all :
       \/ \E l \in DOMAIN todo : all[k] = todo[l]
       \/ ~IsFeed(file[i]) /\ all[k][1] \in Below(file, i) /\ all[k][2] = id

LEMMA TasksAre ==
  ASSUME NEW file, \A j \in DOMAIN file : j \in Nat, NEW n \in Nat, NEW e \in Seq((DOMAIN file) \X {n})
  PROVE  e \in Seq(Nat \X Nat) /\ \A k \in DOMAIN e : e[k][1] \in DOMAIN file /\ e[k][2] = n
<1>1. \A k \in DOMAIN e : e[k] \in (DOMAIN file) \X {n}
  BY ElementOfSeq
<1>2. e = [k \in 1..Len(e) |-> e[k]] /\ Len(e) \in Nat /\ DOMAIN e = 1..Len(e)
  OBVIOUS
<1>3. \A k \in DOMAIN e : e[k] \in Nat \X Nat /\ e[k][1] \in DOMAIN file /\ e[k][2] = n
  BY <1>1
<1>. QED
  BY <1>2, <1>3

\* What there is to do in outline i, and after it
First(file, i, id, e) ==
  /\ e \in Seq(Nat \X Nat)
  /\ \A k \in DOMAIN e : e[k][1] \in Below(file, i) /\ e[k][2] = id
  /\ \A c \in Below(file, i) : \E k \in DOMAIN e : e[k][1] = c
  /\ \A k, l \in DOMAIN e : e[k][1] = e[l][1] => k = l

Rest(file, todo, i, rest) ==
  /\ rest \in Seq(Nat \X Nat) /\ Apart(file, rest)
  /\ Waiting(file, rest) = Waiting(file, todo) \ Subtree(file, i)
  /\ Subtree(file, i) \subseteq Waiting(file, todo) /\ i \in Subtree(file, i)
  /\ \A m \in DOMAIN rest : Subtree(file, rest[m][1]) \cap Subtree(file, i) = {}
  /\ \A m \in DOMAIN rest : m + 1 \in DOMAIN todo /\ rest[m] = todo[m + 1]

LEMMA InsideFirst ==
  ASSUME NEW file \in Seq(Node), Forest(file), NEW todo, NEW i \in DOMAIN file, NEW id \in Nat,
         ~IsFeed(file[i]), NEW rest, Rest(file, todo, i, rest), NEW e, First(file, i, id, e),
         NEW all, all = e \o rest
  PROVE  Entered(file, todo, i, id, all)
<1>1. Grown(file)
  BY ForestGrows
<1>2. /\ all \in Seq(Nat \X Nat) /\ Len(e) \in Nat /\ \A k \in DOMAIN all : k \in Nat
      /\ \A k \in DOMAIN e : k \in DOMAIN all /\ all[k] = e[k]
      /\ \A k \in DOMAIN rest : Len(e) + k \in DOMAIN all /\ all[Len(e) + k] = rest[k]
      /\ \A k \in DOMAIN all :
           k \in DOMAIN e \/ (k - Len(e) \in DOMAIN rest /\ all[k] = rest[k - Len(e)])
  <2>. DEFINE V == Nat \X Nat
  <2>1. e \in Seq(V) /\ rest \in Seq(V)
    BY DEF First, Rest
  <2>. HIDE DEF V
  <2>2. e \o rest \in Seq(V) /\ \A k \in DOMAIN e : k \in DOMAIN (e \o rest) /\ (e \o rest)[k] = e[k]
    BY <2>1, ConcatIs
  <2>3. \A k \in DOMAIN rest :
          Len(e) + k \in DOMAIN (e \o rest) /\ (e \o rest)[Len(e) + k] = rest[k]
    BY <2>1, ConcatIs
  <2>4. \A k \in DOMAIN (e \o rest) :
          k \in DOMAIN e \/ (k - Len(e) \in DOMAIN rest /\ (e \o rest)[k] = rest[k - Len(e)])
    BY <2>1, ConcatIs
  <2>5. all \in Seq(V)
    BY <2>2
  <2>6. Len(e) \in Nat /\ \A k \in DOMAIN all : k \in Nat
    BY <2>1, <2>5
  <2>7. all \in Seq(Nat \X Nat)
    BY <2>5 DEF V
  <2>. QED
    BY <2>2, <2>3, <2>4, <2>6, <2>7
<1>3. /\ \A c \in Below(file, i) : c \in DOMAIN file /\ i \notin Subtree(file, c)
      /\ Subtree(file, i) = {i} \cup UNION {Subtree(file, c) : c \in Below(file, i)}
      /\ \A c, d \in Below(file, i) : c # d => Subtree(file, c) \cap Subtree(file, d) = {}
  BY <1>1, ThroughChildren
<1>4. \A c \in Below(file, i) : Subtree(file, c) \subseteq Subtree(file, i)
  BY <1>3
<1>5. \A k \in DOMAIN e : all[k] = e[k] /\ Subtree(file, all[k][1]) \subseteq Subtree(file, i)
  BY <1>2, <1>4 DEF First
<1>6. \A k \in DOMAIN all \ DOMAIN e :
        /\ k - Len(e) \in DOMAIN rest /\ all[k] = rest[k - Len(e)]
        /\ Subtree(file, all[k][1]) \cap Subtree(file, i) = {}
  BY <1>2 DEF Rest
<1>7. Apart(file, all)
  <2>1. ASSUME NEW k \in DOMAIN all, NEW l \in DOMAIN all, k # l
        PROVE  Subtree(file, all[k][1]) \cap Subtree(file, all[l][1]) = {}
    <3>1. CASE k \in DOMAIN e /\ l \in DOMAIN e
      <4>1. e[k][1] \in Below(file, i) /\ e[l][1] \in Below(file, i) /\ e[k][1] # e[l][1]
        BY <2>1, <3>1 DEF First
      <4>2. Subtree(file, e[k][1]) \cap Subtree(file, e[l][1]) = {}
        BY <1>3, <4>1
      <4>. QED
        BY <1>5, <3>1, <4>2
    <3>2. CASE k \in DOMAIN e /\ l \notin DOMAIN e
      BY <1>5, <1>6, <3>2
    <3>3. CASE k \notin DOMAIN e /\ l \in DOMAIN e
      BY <1>5, <1>6, <3>3
    <3>4. CASE k \notin DOMAIN e /\ l \notin DOMAIN e
      <4>1. k - Len(e) # l - Len(e)
        BY <1>2, <2>1
      <4>2. Subtree(file, rest[k - Len(e)][1]) \cap Subtree(file, rest[l - Len(e)][1]) = {}
        BY <1>6, <3>4, <4>1 DEF Rest, Apart
      <4>. QED
        BY <1>6, <3>4, <4>2
    <3>. QED
      BY <3>1, <3>2, <3>3, <3>4
  <2>. QED
    BY <2>1 DEF Apart
<1>8. Waiting(file, all) = Waiting(file, todo) \ {i}
  <2>1. ASSUME NEW j \in Waiting(file, all) PROVE j \in Waiting(file, todo) \ {i}
    <3>1. PICK k \in DOMAIN all : j \in Subtree(file, all[k][1])
      BY DEF Waiting
    <3>2. CASE k \in DOMAIN e
      <4>1. all[k][1] \in Below(file, i)
        BY <1>5, <3>2 DEF First
      <4>2. i \notin Subtree(file, all[k][1])
        BY <1>3, <4>1
      <4>. QED
        BY <1>5, <3>1, <3>2, <4>2 DEF Rest
    <3>3. CASE k \notin DOMAIN e
      <4>1. j \in Waiting(file, rest)
        BY <1>6, <3>1, <3>3, <2>1 DEF Waiting
      <4>. QED
        BY <4>1 DEF Rest
    <3>. QED
      BY <3>2, <3>3
  <2>2. ASSUME NEW j \in Waiting(file, todo), j # i PROVE j \in Waiting(file, all)
    <3>1. j \in DOMAIN file
      BY DEF Waiting
    <3>2. CASE j \in Subtree(file, i)
      <4>1. PICK c \in Below(file, i) : j \in Subtree(file, c)
        BY <1>3, <2>2, <3>2
      <4>2. PICK k \in DOMAIN e : e[k][1] = c
        BY DEF First
      <4>3. k \in DOMAIN all /\ all[k][1] = c
        BY <1>2, <4>2
      <4>. QED
        BY <3>1, <4>1, <4>3 DEF Waiting
    <3>3. CASE j \notin Subtree(file, i)
      <4>1. j \in Waiting(file, rest)
        BY <3>3 DEF Rest
      <4>2. PICK m \in DOMAIN rest : j \in Subtree(file, rest[m][1])
        BY <4>1 DEF Waiting
      <4>. QED
        BY <1>2, <3>1, <4>2 DEF Waiting
    <3>. QED
      BY <3>2, <3>3
  <2>3. i \notin Waiting(file, all)
    BY <2>1
  <2>. QED
    BY <2>1, <2>2, <2>3
<1>9. \A k \in DOMAIN all :
        \/ \E l \in DOMAIN todo : all[k] = todo[l]
        \/ all[k][1] \in Below(file, i) /\ all[k][2] = id
  BY <1>5, <1>6 DEF First, Rest
<1>. QED
  BY <1>2, <1>7, <1>8, <1>9 DEF Entered, Rest

LEMMA InsideTasks ==
  ASSUME NEW file \in Seq(Node), InFolders(file),
         NEW todo \in Seq(Nat \X Nat), todo # <<>>, Apart(file, todo),
         NEW i \in DOMAIN file, i = todo[1][1], NEW id \in Nat,
         NEW all, all = IF IsFeed(file[i]) THEN Tail(todo) ELSE Enter(file, i, id) \o Tail(todo)
  PROVE  Entered(file, todo, i, id, all)
<1>. DEFINE rest == Tail(todo)
            e    == Enter(file, i, id)
<1>1. Forest(file) /\ Grown(file) /\ \A j \in DOMAIN file : j \in Nat
  BY FileIs, ForestGrows
<1>2. /\ rest \in Seq(Nat \X Nat) /\ Apart(file, rest)
      /\ Waiting(file, rest) = Waiting(file, todo) \ Subtree(file, i)
      /\ \A m \in DOMAIN rest : Subtree(file, rest[m][1]) \cap Subtree(file, i) = {}
  BY RestTasks
<1>3. 1 \in DOMAIN todo /\ \A m \in DOMAIN rest : m + 1 \in DOMAIN todo /\ rest[m] = todo[m + 1]
  BY TailIs
<1>. HIDE DEF rest
<1>4. Subtree(file, i) \subseteq Waiting(file, todo) /\ i \in Subtree(file, i)
  <2>1. i \in Subtree(file, i) /\ Subtree(file, i) \subseteq DOMAIN file
    BY <1>1, SubtreeIs
  <2>. QED
    BY <1>3, <2>1 DEF Waiting
<1>5. CASE IsFeed(file[i])
  <2>1. Below(file, i) = {}
    <3>1. ASSUME NEW c \in DOMAIN file, file[c].parent = i PROVE FALSE
      BY <1>1, <1>5, <3>1, ForestGrows
    <3>. QED
      BY <3>1 DEF Below
  <2>2. Subtree(file, i) = {i}
    BY <1>1, <2>1, SubtreeOfLeaf
  <2>3. all = rest
    BY <1>5 DEF rest
  <2>. QED
    BY <1>2, <1>3, <1>4, <2>2, <2>3 DEF Entered
<1>6. CASE ~IsFeed(file[i])
  <2>1. /\ e \in Seq((DOMAIN file) \X {id})
        /\ \A k \in DOMAIN e : e[k][1] \in Below(file, i)
        /\ \A c \in Below(file, i) : \E k \in DOMAIN e : e[k][1] = c
        /\ \A k, l \in DOMAIN e : e[k][1] = e[l][1] => k = l
    BY <1>1, EnterIs DEF Entries
  <2>2. all = e \o rest
    BY <1>6 DEF rest
  <2>. HIDE DEF e
  <2>3. e \in Seq(Nat \X Nat) /\ \A k \in DOMAIN e : e[k][2] = id
    BY <1>1, <2>1, TasksAre
  <2>4. First(file, i, id, e)
    BY <2>1, <2>3 DEF First
  <2>5. Rest(file, todo, i, rest)
    BY <1>2, <1>3, <1>4 DEF Rest
  <2>. QED
    BY <1>1, <1>6, <2>2, <2>4, <2>5, InsideFirst
<1>. QED
  BY <1>5, <1>6

\* Overwriting: what is there is in the file, each of its folders once, and what is
\* in the file is there or is still to do; of the feeds, as many as are in it.
Copying(file, nodes, todo) ==
  /\ FeedPaths(nodes) \subseteq FeedPaths(file) /\ FolderPaths(nodes) \subseteq FolderPaths(file)
  /\ FoldersOnce(nodes)
  /\ Cardinality(FeedsOf(nodes)) + Cardinality(FeedsOf(file) \cap Waiting(file, todo)) =
       Cardinality(FeedsOf(file))
  /\ \A j \in DOMAIN file \ FeedsOf(file) :
       j \in Waiting(file, todo) \/ Path(file, j) \in FolderPaths(nodes)

Work(file, nodes, todo, overwrite) ==
  /\ Placed(file, nodes, todo) /\ Apart(file, todo)
  /\ \A j \in FeedsOf(file) : j \in Waiting(file, todo) \/ Path(file, j) \in FeedPaths(nodes)
  /\ overwrite => Copying(file, nodes, todo)

\* Overwritten, but for what the file stands for
Complete(file, nodes) ==
  /\ FeedPaths(nodes) = FeedPaths(file)
  /\ Cardinality(FeedsOf(nodes)) = Cardinality(FeedsOf(file))
  /\ FolderPaths(nodes) = FolderPaths(file) /\ FoldersOnce(nodes)

\* Merged, but for the feeds still to do
Between(file, base, nodes) ==
  /\ \A n \in DOMAIN base : n \in DOMAIN nodes /\ nodes[n] = base[n]
  /\ FeedPaths(nodes) \subseteq FeedPaths(base) \cup FeedPaths(file)
  /\ FolderPaths(nodes) \subseteq FolderPaths(base) \cup Around(FeedPaths(file))
  /\ NoTwins(base) => NoTwins(nodes)

LEMMA FeedsFinite ==
  ASSUME NEW nodes, Forest(nodes)
  PROVE  /\ FeedsOf(nodes) \subseteq Grounded(nodes) /\ Grounded(nodes) \subseteq DOMAIN nodes
         /\ IsFiniteSet(FeedsOf(nodes)) /\ Cardinality(FeedsOf(nodes)) \in Nat
<1>1. FeedsOf(nodes) \subseteq Grounded(nodes) /\ Grounded(nodes) \subseteq DOMAIN nodes
  BY GroundedIs, ForestGrows DEF FeedsOf
<1>2. IsFiniteSet(FeedsOf(nodes))
  BY <1>1, ForestGrows, FS_Subset
<1>. QED
  BY <1>1, <1>2, FS_CardinalityType

LEMMA FitsPath ==
  ASSUME NEW file \in Seq(Node), InFolders(file), NEW nodes, NEW i, NEW n, Fits(file, nodes, i, n)
  PROVE  /\ i \in DOMAIN file /\ file[i].name \in Names
         /\ Path(file, i) = Append(PathTo(nodes, n), file[i].name)
<1>1. Forest(file) /\ i \in Grounded(file)
  BY FileIs DEF Fits
<1>. QED
  BY <1>1, PathStep DEF Fits

LEMMA WorkBegins ==
  ASSUME NEW file \in Seq(Node), InFolders(file), NEW nodes, Forest(nodes),
         NEW todo, todo = Enter(file, Root, Root), NEW overwrite, overwrite => DOMAIN nodes = {}
  PROVE  Work(file, nodes, todo, overwrite)
<1>1. Forest(file) /\ Grounded(file) = DOMAIN file
  BY FileIs
<1>2. Waiting(file, todo) = DOMAIN file /\ Apart(file, todo) /\ Placed(file, nodes, todo)
  BY FirstTasks
<1>3. FeedsOf(file) \subseteq DOMAIN file /\ Cardinality(FeedsOf(file)) \in Nat
  BY <1>1, FeedsFinite
<1>4. ASSUME DOMAIN nodes = {} PROVE Copying(file, nodes, todo)
  <2>1. Grounded(nodes) = {} /\ FeedsOf(nodes) = {}
    BY <1>4, FeedsFinite
  <2>2. FeedPaths(nodes) = {} /\ FolderPaths(nodes) = {} /\ FoldersOnce(nodes)
    BY <2>1 DEF FeedPaths, FolderPaths, Paths, FoldersOnce
  <2>3. Cardinality(FeedsOf(nodes)) = 0 /\ FeedsOf(file) \cap Waiting(file, todo) = FeedsOf(file)
    BY <1>2, <1>3, <2>1, FS_EmptySet
  <2>. QED
    <3>1. /\ FeedPaths(nodes) \subseteq FeedPaths(file) /\ FolderPaths(nodes) \subseteq FolderPaths(file)
          /\ FoldersOnce(nodes)
      BY <2>2
    <3>2. Cardinality(FeedsOf(nodes)) + Cardinality(FeedsOf(file) \cap Waiting(file, todo)) =
            Cardinality(FeedsOf(file))
      <4>1. Cardinality(FeedsOf(file) \cap Waiting(file, todo)) = Cardinality(FeedsOf(file))
        BY <2>3, Zenon
      <4>. QED
        BY <1>3, <2>3, <4>1
    <3>3. \A j \in DOMAIN file \ FeedsOf(file) :
            j \in Waiting(file, todo) \/ Path(file, j) \in FolderPaths(nodes)
      BY <1>2
    <3>. QED
      BY <3>1, <3>2, <3>3 DEF Copying
<1>. QED
  BY <1>2, <1>3, <1>4 DEF Work

LEMMA WorkSkips ==
  ASSUME NEW file \in Seq(Node), InFolders(file), NEW nodes, Forest(nodes),
         NEW todo \in Seq(Nat \X Nat), todo # <<>>,
         NEW i, i = todo[1][1], NEW n, n = todo[1][2],
         Work(file, nodes, todo, FALSE),
         IF IsFeed(file[i]) THEN {m \in Below(nodes, n) : nodes[m].name = file[i].name} # {}
         ELSE ~HasFeedDescendants(file, i)
  PROVE  Work(file, nodes, Tail(todo), FALSE)
<1>1. 1 \in DOMAIN todo /\ Placed(file, nodes, todo) /\ Apart(file, todo)
  BY TailIs DEF Work
<1>2. Fits(file, nodes, i, n)
  BY <1>1 DEF Placed
<1>3. /\ i \in DOMAIN file /\ file[i].name \in Names
      /\ Path(file, i) = Append(PathTo(nodes, n), file[i].name)
  BY <1>2, FitsPath
<1>4. /\ Apart(file, Tail(todo)) /\ Placed(file, nodes, Tail(todo))
      /\ Waiting(file, Tail(todo)) = Waiting(file, todo) \ Subtree(file, i)
  BY <1>1, RestTasks
<1>5. Forest(file) /\ Grown(file) /\ FeedsOf(file) \subseteq DOMAIN file
  BY FileIs, ForestGrows, FeedsFinite
<1>6. ASSUME NEW j \in FeedsOf(file), j \in Subtree(file, i) PROVE Path(file, j) \in FeedPaths(nodes)
  <2>1. CASE IsFeed(file[i])
    <3>1. Subtree(file, i) = {i}
      <4>1. ASSUME NEW c \in DOMAIN file, file[c].parent = i PROVE FALSE
        BY <1>3, <1>5, <2>1, <4>1, ForestGrows
      <4>2. Below(file, i) = {}
        BY <4>1 DEF Below
      <4>. QED
        BY <1>3, <1>5, <4>2, SubtreeOfLeaf
    <3>2. PICK m \in Below(nodes, n) : nodes[m].name = file[i].name
      BY <2>1
    <3>3. m \in Grounded(nodes) /\ Path(nodes, m) = Path(file, i)
      BY <1>2, <1>3, <3>2, TwinIs DEF Fits
    <3>4. m \in FeedsOf(nodes)
      BY <2>1, <3>2, <3>3 DEF FeedsOf, IsFeed
    <3>. QED
      BY <1>6, <3>1, <3>3, <3>4 DEF FeedPaths, Paths
  <2>2. CASE ~IsFeed(file[i])
    <3>1. \A l \in Subtree(file, i) : ~IsFeed(file[l])
      BY <1>3, <1>5, <2>2, HasFeedIs
    <3>. QED
      BY <1>6, <3>1 DEF FeedsOf
  <2>. QED
    BY <2>1, <2>2
<1>7. \A j \in FeedsOf(file) : j \in Waiting(file, Tail(todo)) \/ Path(file, j) \in FeedPaths(nodes)
  BY <1>4, <1>6 DEF Work
<1>. QED
  BY <1>4, <1>7 DEF Work

LEMMA WorkEnters ==
  ASSUME NEW file \in Seq(Node), InFolders(file), NEW nodes, Forest(nodes),
         NEW todo \in Seq(Nat \X Nat), todo # <<>>,
         NEW i, i = todo[1][1], NEW n, n = todo[1][2],
         NEW overwrite, Work(file, nodes, todo, overwrite), ~IsFeed(file[i]),
         NEW m \in Below(nodes, n), nodes[m].name = file[i].name,
         NEW all, all = Enter(file, i, m) \o Tail(todo)
  PROVE  Work(file, nodes, all, overwrite)
<1>1. 1 \in DOMAIN todo /\ Placed(file, nodes, todo) /\ Apart(file, todo)
  BY TailIs DEF Work
<1>2. Fits(file, nodes, i, n)
  BY <1>1 DEF Placed
<1>3. /\ i \in DOMAIN file /\ file[i].name \in Names
      /\ Path(file, i) = Append(PathTo(nodes, n), file[i].name)
  BY <1>2, FitsPath
<1>4. m \in Grounded(nodes) /\ Path(nodes, m) = Path(file, i)
  BY <1>2, <1>3, TwinIs DEF Fits
<1>5. /\ m \in DOMAIN nodes /\ m \in Nat /\ m # Root /\ ~IsFeed(nodes[m]) /\ nodes[m].name \in Titles
  BY <1>3, <1>4, FeedsFinite, ForestGrows DEF IsFeed, Root, Names
<1>6. /\ Apart(file, all) /\ Waiting(file, all) = Waiting(file, todo) \ {i}
      /\ \A k \in DOMAIN all :
           \/ \E l \in DOMAIN todo : all[k] = todo[l]
           \/ all[k][1] \in Below(file, i) /\ all[k][2] = m
  <2>1. Entered(file, todo, i, m, all)
    BY <1>1, <1>3, <1>5, InsideTasks
  <2>. QED
    BY <2>1 DEF Entered
<1>7. Forest(file) /\ Grounded(file) = DOMAIN file /\ Root \notin DOMAIN file
  BY FileIs, ForestGrows
<1>8. ASSUME NEW c \in Below(file, i) PROVE Fits(file, nodes, c, m)
  BY <1>3, <1>4, <1>5, <1>7 DEF Fits, Folder, PathTo, Below
<1>9. Placed(file, nodes, all)
  BY <1>1, <1>6, <1>8 DEF Placed
<1>10. i \notin FeedsOf(file) /\ m \notin FeedsOf(nodes)
  BY <1>5 DEF FeedsOf
<1>11. \A j \in FeedsOf(file) : j \in Waiting(file, all) \/ Path(file, j) \in FeedPaths(nodes)
  BY <1>6, <1>10 DEF Work
<1>12. ASSUME Copying(file, nodes, todo) PROVE Copying(file, nodes, all)
  <2>1. FeedsOf(file) \cap Waiting(file, all) = FeedsOf(file) \cap Waiting(file, todo)
    BY <1>6, <1>10
  <2>2. Path(file, i) \in FolderPaths(nodes)
    BY <1>4, <1>10 DEF FolderPaths, Paths
  <2>3. \A j \in DOMAIN file \ FeedsOf(file) :
          j \in Waiting(file, all) \/ Path(file, j) \in FolderPaths(nodes)
    BY <1>6, <1>12, <2>2 DEF Copying
  <2>. QED
    BY <1>12, <2>1, <2>3 DEF Copying
<1>. QED
  BY <1>6, <1>9, <1>11, <1>12 DEF Work

LEMMA WorkCreates ==
  ASSUME NEW file \in Seq(Node), InFolders(file), NEW nodes, Forest(nodes),
         NEW todo \in Seq(Nat \X Nat), todo # <<>>,
         NEW i, i = todo[1][1], NEW n, n = todo[1][2],
         NEW overwrite, Work(file, nodes, todo, overwrite),
         NEW id \in Nat, \A m \in DOMAIN nodes : m < id, id # 0,
         NEW node \in Node, node.parent = n, node.name = file[i].name,
         overwrite /\ ~IsFeed(file[i]) => NoTwin(nodes, node),
         NEW W, W = With(nodes, id, node),
         NEW all, all = IF IsFeed(file[i]) THEN Tail(todo) ELSE Enter(file, i, id) \o Tail(todo)
  PROVE  Work(file, W, all, overwrite)
<1>1. 1 \in DOMAIN todo /\ Placed(file, nodes, todo) /\ Apart(file, todo)
  BY TailIs DEF Work
<1>2. Fits(file, nodes, i, n) /\ Folder(nodes, n) /\ n \in Grounded(nodes) \cup {Root}
  BY <1>1 DEF Placed, Fits
<1>. DEFINE p == Path(file, i)
<1>3. /\ i \in DOMAIN file /\ file[i].name \in Names /\ p = Append(PathTo(nodes, n), node.name)
  BY <1>2, FitsPath
<1>4. Grew(nodes, id, node, W)
  BY <1>2, WithSets
<1>5. /\ Forest(W) /\ W[id] = node /\ id \notin DOMAIN nodes
      /\ DOMAIN W = DOMAIN nodes \cup {id} /\ Grounded(W) = Grounded(nodes) \cup {id} /\ Path(W, id) = p
      /\ \A m \in DOMAIN nodes : W[m] = nodes[m] /\ Path(W, m) = Path(nodes, m)
      /\ FeedsOf(W) = FeedsOf(nodes) \cup (IF IsFeed(node) THEN {id} ELSE {})
      /\ FeedPaths(W) = FeedPaths(nodes) \cup (IF IsFeed(node) THEN {p} ELSE {})
      /\ FolderPaths(W) = FolderPaths(nodes) \cup (IF IsFeed(node) THEN {} ELSE {p})
  BY <1>2, <1>3, <1>4 DEF Grew
<1>6. /\ Apart(file, all) /\ Waiting(file, all) = Waiting(file, todo) \ {i} /\ i \in Waiting(file, todo)
      /\ \A k \in DOMAIN all :
           \/ \E l \in DOMAIN todo : all[k] = todo[l]
           \/ ~IsFeed(file[i]) /\ all[k][1] \in Below(file, i) /\ all[k][2] = id
  <2>1. Entered(file, todo, i, id, all)
    BY <1>1, <1>3, InsideTasks
  <2>. QED
    BY <2>1 DEF Entered
<1>7. /\ Forest(file) /\ Grounded(file) = DOMAIN file /\ Root \notin DOMAIN file
      /\ Root \notin DOMAIN nodes /\ Grounded(nodes) \subseteq DOMAIN nodes
      /\ FeedsOf(file) \subseteq DOMAIN file
      /\ i \in FeedsOf(file) <=> IsFeed(file[i])
  BY <1>3, FileIs, ForestGrows, FeedsFinite DEF FeedsOf
<1>8. IsFeed(node) <=> IsFeed(file[i])
  BY DEF IsFeed
<1>. HIDE DEF p
<1>9. ASSUME NEW k \in DOMAIN todo PROVE Fits(file, W, todo[k][1], todo[k][2])
  <2>1. Fits(file, nodes, todo[k][1], todo[k][2])
    BY <1>1 DEF Placed
  <2>. QED
    BY <1>5, <1>7, <2>1 DEF Fits, Folder, PathTo
<1>10. ASSUME ~IsFeed(file[i]), NEW c \in Below(file, i) PROVE Fits(file, W, c, id)
  <2>1. id # Root /\ W[id].name \in Titles
    BY <1>3, <1>5, <1>10 DEF IsFeed, Names, Root
  <2>. QED
    BY <1>3, <1>5, <1>7, <1>10, <2>1 DEF Fits, Folder, PathTo, Below, p
<1>11. Placed(file, W, all)
  BY <1>6, <1>9, <1>10 DEF Placed
<1>12. \A j \in FeedsOf(file) : j \in Waiting(file, all) \/ Path(file, j) \in FeedPaths(W)
  <2>1. ASSUME NEW j \in FeedsOf(file), j # i
        PROVE  j \in Waiting(file, all) \/ Path(file, j) \in FeedPaths(W)
    BY <1>5, <1>6, <2>1 DEF Work
  <2>2. i \in FeedsOf(file) => Path(file, i) \in FeedPaths(W)
    BY <1>5, <1>7, <1>8 DEF p
  <2>. QED
    BY <2>1, <2>2
<1>13. ASSUME overwrite PROVE Copying(file, W, all)
  <2>1. Copying(file, nodes, todo)
    BY <1>13 DEF Work
  <2>2. p \in IF IsFeed(node) THEN FeedPaths(file) ELSE FolderPaths(file)
    BY <1>3, <1>7, <1>8 DEF FeedPaths, FolderPaths, Paths, p
  <2>3. FeedPaths(W) \subseteq FeedPaths(file) /\ FolderPaths(W) \subseteq FolderPaths(file)
    BY <1>5, <2>1, <2>2 DEF Copying
  <2>4. FoldersOnce(W)
    <3>1. FoldersOnce(nodes) /\ Folder(nodes, node.parent) /\ node.parent \in Grounded(nodes) \cup {Root}
      BY <1>2, <2>1 DEF Copying
    <3>2. IsFeed(node) \/ NoTwin(nodes, node)
      BY <1>8, <1>13
    <3>3. CASE IsFeed(node)
      BY <1>4, <3>1, <3>3, OnceWith
    <3>4. CASE NoTwin(nodes, node)
      BY <1>4, <3>1, <3>4, OnceWith
    <3>. QED
      BY <3>2, <3>3, <3>4
  <2>5. \A j \in DOMAIN file \ FeedsOf(file) :
          j \in Waiting(file, all) \/ Path(file, j) \in FolderPaths(W)
    <3>1. ASSUME NEW j \in DOMAIN file \ FeedsOf(file), j # i
          PROVE  j \in Waiting(file, all) \/ Path(file, j) \in FolderPaths(W)
      BY <1>5, <1>6, <2>1, <3>1 DEF Copying
    <3>2. i \notin FeedsOf(file) => Path(file, i) \in FolderPaths(W)
      BY <1>5, <1>7, <1>8 DEF p
    <3>. QED
      BY <3>1, <3>2
  <2>. DEFINE now  == FeedsOf(nodes)
              left == FeedsOf(file) \cap Waiting(file, todo)
  <2>6. IsFiniteSet(now) /\ IsFiniteSet(left) /\ now \subseteq DOMAIN nodes
    BY <1>7, FeedsFinite, FS_Subset
  <2>7. Cardinality(now) + Cardinality(left) = Cardinality(FeedsOf(file))
    BY <2>1 DEF Copying
  <2>8. Cardinality(FeedsOf(W)) + Cardinality(FeedsOf(file) \cap Waiting(file, all)) =
          Cardinality(FeedsOf(file))
    <3>1. CASE IsFeed(node)
      <4>1. /\ FeedsOf(W) = now \cup {id} /\ id \notin now
            /\ FeedsOf(file) \cap Waiting(file, all) = left \ {i} /\ i \in left
        BY <1>5, <1>6, <1>7, <1>8, <2>6, <3>1
      <4>. DEFINE more == FeedsOf(W)
                  less == FeedsOf(file) \cap Waiting(file, all)
      <4>2. more = now \cup {id} /\ less = left \ {i}
        BY <4>1
      <4>3. IsFiniteSet(now) /\ IsFiniteSet(left) /\ id \notin now /\ i \in left
        BY <2>6, <4>1
      <4>. HIDE DEF now, left, more, less
      <4>4. Cardinality(left) \in Nat
        BY <4>3, FS_CardinalityType
      <4>5. Cardinality(left \ {i}) = Cardinality(left) - 1
        BY <4>3, FS_RemoveElement
      <4>6. Cardinality(now \cup {id}) = Cardinality(now) + 1 /\ Cardinality(now) \in Nat
        BY <4>3, FS_AddElement, FS_CardinalityType
      <4>7. Cardinality(now \cup {id}) + Cardinality(left \ {i}) = Cardinality(now) + Cardinality(left)
        BY <4>4, <4>5, <4>6
      <4>8. Cardinality(more) + Cardinality(less) = Cardinality(now \cup {id}) + Cardinality(left \ {i})
        BY <4>2, Zenon
      <4>. QED
        BY <2>7, <4>7, <4>8 DEF more, less
    <3>2. CASE ~IsFeed(node)
      <4>1. FeedsOf(W) = now /\ FeedsOf(file) \cap Waiting(file, all) = left
        BY <1>5, <1>6, <1>7, <1>8, <3>2
      <4>. QED
        BY <2>7, <4>1
    <3>. QED
      BY <3>1, <3>2
  <2>. QED
    BY <2>3, <2>4, <2>5, <2>8 DEF Copying
<1>. QED
  BY <1>6, <1>11, <1>12, <1>13 DEF Work

LEMMA BetweenCreates ==
  ASSUME NEW file \in Seq(Node), InFolders(file), NEW nodes, Forest(nodes), NEW base, Forest(base),
         NEW i, NEW n, Fits(file, nodes, i, n), Between(file, base, nodes),
         ~IsFeed(file[i]) => HasFeedDescendants(file, i),
         NEW id \in Nat, \A m \in DOMAIN nodes : m < id, id # 0,
         NEW node \in Node, node.parent = n, node.name = file[i].name,
         NoTwin(nodes, node),
         NEW W, W = With(nodes, id, node)
  PROVE  Between(file, base, W)
<1>. DEFINE p == Path(file, i)
<1>1. /\ i \in DOMAIN file /\ file[i].name \in Names /\ p = Append(PathTo(nodes, n), node.name)
      /\ Folder(nodes, n) /\ n \in Grounded(nodes) \cup {Root}
  BY FitsPath DEF Fits
<1>2. Grew(nodes, id, node, W)
  BY <1>1, WithSets
<1>3. /\ Forest(W) /\ DOMAIN W = DOMAIN nodes \cup {id}
      /\ \A m \in DOMAIN nodes : W[m] = nodes[m]
      /\ FeedPaths(W) = FeedPaths(nodes) \cup (IF IsFeed(node) THEN {p} ELSE {})
      /\ FolderPaths(W) = FolderPaths(nodes) \cup (IF IsFeed(node) THEN {} ELSE {p})
  BY <1>1, <1>2 DEF Grew
<1>4. Forest(file) /\ Grown(file) /\ Grounded(file) = DOMAIN file
  BY FileIs, ForestGrows
<1>5. IsFeed(node) <=> IsFeed(file[i])
  BY DEF IsFeed
<1>6. IF IsFeed(node) THEN p \in FeedPaths(file) ELSE p \in Around(FeedPaths(file))
  <2>1. ASSUME IsFeed(file[i]) PROVE p \in FeedPaths(file)
    BY <1>1, <1>4, <2>1 DEF FeedPaths, Paths, FeedsOf
  <2>2. ASSUME ~IsFeed(file[i]) PROVE p \in Around(FeedPaths(file))
    <3>1. PICK j \in Subtree(file, i) : IsFeed(file[j])
      BY <1>1, <1>4, <2>2, HasFeedIs
    <3>2. j \in FeedsOf(file)
      BY <1>4, <3>1, SubtreeIs DEF FeedsOf
    <3>. QED
      BY <1>1, <1>4, <2>2, <3>1, <3>2, AroundFeeds
  <2>. QED
    BY <1>5, <2>1, <2>2
<1>. HIDE DEF p
<1>7. \A m \in DOMAIN base : m \in DOMAIN W /\ W[m] = base[m]
  BY <1>3 DEF Between
<1>8. /\ FeedPaths(W) \subseteq FeedPaths(base) \cup FeedPaths(file)
      /\ FolderPaths(W) \subseteq FolderPaths(base) \cup Around(FeedPaths(file))
  BY <1>3, <1>6 DEF Between
<1>9. ASSUME NoTwins(base) PROVE NoTwins(W)
  <2>1. FeedsOnce(nodes)
    BY <1>9, NoTwinsIs DEF Between, FeedsOnce
  <2>2. FeedsOnce(W)
    BY <1>1, <1>2, <2>1, OnceWith
  <2>. QED
    BY <1>3, <2>2, NoTwinsIs DEF FeedsOnce
<1>. QED
  BY <1>7, <1>8, <1>9 DEF Between

LEMMA WorkEnds ==
  ASSUME NEW file \in Seq(Node), InFolders(file), NEW nodes, Forest(nodes),
         NEW overwrite, Work(file, nodes, <<>>, overwrite)
  PROVE  FeedPaths(file) \subseteq FeedPaths(nodes) /\ (overwrite => Complete(file, nodes))
<1>1. Waiting(file, <<>>) = {}
  <2>1. DOMAIN <<>> = {}
    OBVIOUS
  <2>. QED
    BY <2>1 DEF Waiting
<1>2. FeedPaths(file) \subseteq FeedPaths(nodes)
  <2>1. \A j \in FeedsOf(file) : Path(file, j) \in FeedPaths(nodes)
    BY <1>1 DEF Work
  <2>2. FeedPaths(file) = {Path(file, j) : j \in FeedsOf(file)}
    BY DEF FeedPaths, Paths
  <2>. QED
    BY <2>1, <2>2
<1>3. ASSUME overwrite PROVE Complete(file, nodes)
  <2>1. Copying(file, nodes, <<>>)
    BY <1>3 DEF Work
  <2>2. Forest(file) /\ Grounded(file) = DOMAIN file
    BY FileIs
  <2>3. FolderPaths(file) \subseteq FolderPaths(nodes)
    <3>1. \A j \in DOMAIN file \ FeedsOf(file) : Path(file, j) \in FolderPaths(nodes)
      BY <1>1, <2>1 DEF Copying
    <3>2. FolderPaths(file) = {Path(file, j) : j \in DOMAIN file \ FeedsOf(file)}
      BY <2>2 DEF FolderPaths, Paths
    <3>. QED
      BY <3>1, <3>2
  <2>4. Cardinality(FeedsOf(nodes)) = Cardinality(FeedsOf(file))
    <3>1. FeedsOf(file) \cap Waiting(file, <<>>) = {} /\ Cardinality({}) = 0
      BY <1>1, FS_EmptySet
    <3>2. Cardinality(FeedsOf(nodes)) \in Nat
      BY FeedsFinite
    <3>3. Cardinality(FeedsOf(nodes)) + Cardinality(FeedsOf(file) \cap Waiting(file, <<>>)) =
            Cardinality(FeedsOf(file))
      BY <2>1 DEF Copying
    <3>4. Cardinality(FeedsOf(file) \cap Waiting(file, <<>>)) = 0
      BY <3>1, Zenon
    <3>. QED
      BY <3>2, <3>3, <3>4
  <2>. QED
    BY <1>2, <2>1, <2>3, <2>4 DEF Complete, Copying
<1>. QED
  BY <1>2, <1>3

-----------------------------------------------------------------------------
(* What an import has done                                                   *)

\* A thread that writes in a series: nothing came between, so that it knows all
\* there is, and what it has still to do is what is missing.
Continues(r) ==
  /\ ~series.done /\ r.file = series.file /\ r.overwrite = series.overwrite /\ r.existing = tree
  /\ r.stage = "delete" => r.overwrite /\ r.todo = Enter(series.file.file, Root, Root)
  /\ r.stage = "create" => Work(series.file.file, tree, r.todo, series.overwrite)

Rooted(nodes) == Grounded(nodes) = DOMAIN nodes

\* A call that was cut off, and may be committed before an import fetches the tree,
\* ended the last import of the series, and does to the tree what that had to.
CutSound(call) ==
  /\ ~series.done
  /\ \A t \in Threads : ~Writing(t)
  /\ \A c \in cut : c = call
  /\ Accepted(call) =>
       /\ Rooted(series.base) => Rooted(TreeAfter(call))
       /\ ~series.overwrite => Between(series.file.file, series.base, TreeAfter(call))

ImportSound ==
  series # NoSeries =>
    /\ \A t \in Threads : Writing(t) => Continues(thread[t]) /\ \A u \in Threads : Writing(u) => u = t
    /\ Rooted(series.base) => Rooted(tree)
    /\ ~series.overwrite => Between(series.file.file, series.base, tree)
    /\ series.done =>
         IF series.overwrite THEN Complete(series.file.file, tree)
         ELSE FeedPaths(series.file.file) \subseteq FeedPaths(tree)
    /\ \A call \in cut : CutSound(call)

\* No thread but those that wrote as they do still writes, and the tree is as it was.
LEMMA SoundByOthers ==
  ASSUME ImportSound, UNCHANGED <<tree, lastId, series, cut>>,
         \A u \in Threads : Writing(u)' => thread'[u] = thread[u]
  PROVE  ImportSound'
<1>1. \A u \in Threads : Writing(u)' => Writing(u)
  BY DEF Writing
<1>2. \A u \in Threads : Continues(thread[u]) /\ thread'[u] = thread[u] => Continues(thread[u])'
  BY DEF Continues
<1>3. \A call \in cut : CutSound(call) => CutSound(call)'
  BY <1>1 DEF CutSound, Accepted, TreeAfter
<1>. QED
  BY <1>1, <1>2, <1>3 DEF ImportSound

\* The thread of a series goes on with other things to do.
LEMMA SoundByThread ==
  ASSUME Typed, ImportSound, NEW t \in Threads, Writing(t), UNCHANGED <<tree, series, cut>>,
         NEW r, thread' = [thread EXCEPT ![t] = r], r.stage = "create",
         r.file = thread[t].file, r.overwrite = thread[t].overwrite,
         r.existing = thread[t].existing,
         series # NoSeries => Work(series.file.file, tree, r.todo, series.overwrite)
  PROVE  ImportSound'
<1>1. SUFFICES ASSUME series # NoSeries PROVE ImportSound'
  BY DEF ImportSound
<1>2. thread'[t] = r /\ \A u \in Threads \ {t} : thread'[u] = thread[u]
  BY DEF Typed, ThreadsTyped
<1>3. Continues(thread[t]) /\ \A u \in Threads : Writing(u) => u = t
  BY <1>1 DEF ImportSound
<1>4. Continues(thread[t])'
  BY <1>1, <1>2, <1>3 DEF Continues
<1>5. \A u \in Threads : Writing(u)' => u = t
  BY <1>2, <1>3 DEF Writing
<1>6. cut = {}
  BY <1>1 DEF ImportSound, CutSound
<1>. QED
  BY <1>1, <1>4, <1>5, <1>6 DEF ImportSound

\* A call of the thread of a series
LEMMA SoundByCall ==
  ASSUME Typed, ImportSound, NEW t \in Threads, Writing(t),
         NEW call, NEW next, Call(t, call, next),
         series # NoSeries /\ Accepted(call) =>
           /\ next \in Importer(files) /\ next.stage = thread[t].stage
           /\ next.file = thread[t].file /\ next.overwrite = thread[t].overwrite
           /\ next.existing = TreeAfter(call)
           /\ Rooted(tree) => Rooted(TreeAfter(call))
           /\ ~series.overwrite => Between(series.file.file, series.base, TreeAfter(call))
           /\ next.stage = "delete" => next.todo = thread[t].todo
           /\ next.stage = "create" => Work(series.file.file, TreeAfter(call), next.todo, series.overwrite)
  PROVE  ImportSound'
<1>1. SUFFICES ASSUME series # NoSeries PROVE ImportSound'
  BY DEF ImportSound, Call
<1>2. series' = series /\ DOMAIN thread = Threads /\ DOMAIN Overtaken = Threads
  BY OvertakenIs DEF Call, Typed, ThreadsTyped
<1>3. Continues(thread[t]) /\ (\A u \in Threads : Writing(u) => u = t) /\ cut = {}
  BY <1>1 DEF ImportSound, CutSound
<1>4. \A u \in Threads : Overtaken[u].stage = thread[u].stage
  <2>1. TAKE u \in Threads
  <2>2. CASE thread[u] = Idle
    BY <2>2, OvertakenIs
  <2>3. CASE thread[u] # Idle
    BY <2>3, OvertakenIs
  <2>. QED
    BY <2>2, <2>3
<1>5. ASSUME NEW r, thread' = [thread EXCEPT ![t] = r] \/ thread' = [Overtaken EXCEPT ![t] = r]
      PROVE  thread'[t] = r /\ \A u \in Threads : Writing(u)' => u = t
  <2>1. thread'[t] = r /\ \A u \in Threads \ {t} : thread'[u].stage = thread[u].stage
    BY <1>2, <1>4, <1>5
  <2>. QED
    BY <1>3, <2>1 DEF Writing
<1>6. ASSUME thread' = [thread EXCEPT ![t] = Idle] \/ thread' = [Overtaken EXCEPT ![t] = Idle]
      PROVE  \A u \in Threads : ~Writing(u)'
  BY <1>5, <1>6, IdleIs DEF Writing
<1>7. Commits(call) => Accepted(call) /\ tree' = TreeAfter(call)
  BY CommitsIs
<1>8. Accepted(call) =>
        /\ Rooted(series.base) => Rooted(TreeAfter(call))
        /\ ~series.overwrite => Between(series.file.file, series.base, TreeAfter(call))
  BY <1>1 DEF ImportSound
<1>9. ~series.done
  BY <1>3 DEF Continues
<1>10. CASE CallAnswered(t, call, next)
  <2>. DEFINE r == [next EXCEPT !.wrote = TRUE]
  <2>1. /\ Accepted(call) /\ tree' = TreeAfter(call) /\ cut' = {}
        /\ thread' = [Overtaken EXCEPT ![t] = r]
    BY <1>3, <1>7, <1>10 DEF CallAnswered
  <2>2. /\ r.stage = thread[t].stage /\ r.file = thread[t].file /\ r.overwrite = thread[t].overwrite
        /\ r.existing = TreeAfter(call) /\ r.todo = next.todo
    BY <1>1, <2>1 DEF Importer
  <2>. HIDE DEF r
  <2>3. thread'[t] = r /\ \A u \in Threads : Writing(u)' => u = t
    BY <1>5, <2>1
  <2>4. Continues(thread[t])'
    BY <1>1, <1>2, <1>3, <2>1, <2>2, <2>3 DEF Continues
  <2>. QED
    BY <1>1, <1>2, <1>8, <1>9, <2>1, <2>3, <2>4 DEF ImportSound, Rooted
<1>11. CASE CallFails(t, call)
  <2>1. \A u \in Threads : ~Writing(u)'
    BY <1>6, <1>11 DEF CallFails, Ends
  <2>2. CASE Commits(call) /\ cut' = cut
    BY <1>1, <1>2, <1>3, <1>7, <1>8, <1>9, <2>1, <2>2 DEF ImportSound, Rooted
  <2>3. CASE UNCHANGED <<tree, lastId>> /\ cut' = cut \cup {call}
    <3>1. cut' = {call} /\ (Accepted(call) <=> Accepted(call)') /\ TreeAfter(call)' = TreeAfter(call)
      BY <1>3, <2>3 DEF Accepted, TreeAfter
    <3>2. CutSound(call)'
      BY <1>1, <1>2, <1>8, <1>9, <2>1, <3>1 DEF CutSound, Rooted
    <3>. QED
      BY <1>1, <1>2, <1>9, <2>1, <2>3, <3>1, <3>2 DEF ImportSound
  <2>. QED
    BY <1>11, <2>2, <2>3 DEF CallFails
<1>12. CASE CallRefused(t, call)
  BY <1>2, <1>6, <1>12, SoundByOthers DEF CallRefused, Ends
<1>. QED
  BY <1>10, <1>11, <1>12 DEF Call

\* A call that was left is committed: to the imports of the series, which have not
\* fetched the tree since, it is as if it had been at once.
LEMMA SoundByAstray ==
  ASSUME ImportSound, NEW call, CommitAstray(call), Typed
  PROVE  ImportSound'
<1>1. SUFFICES ASSUME series' # NoSeries PROVE ImportSound'
  BY DEF ImportSound
<1>2. /\ call \in cut /\ series' = series /\ cut' = cut \ {call} /\ thread' = Overtaken
      /\ Accepted(call) /\ tree' = TreeAfter(call)
  BY <1>1, CommitsIs DEF CommitAstray
<1>3. CutSound(call) /\ cut' = {}
  BY <1>1, <1>2 DEF ImportSound, CutSound
<1>4. \A u \in Threads : Overtaken[u].stage = thread[u].stage
  <2>1. TAKE u \in Threads
  <2>2. CASE thread[u] = Idle
    BY <2>2, OvertakenIs
  <2>3. CASE thread[u] # Idle
    BY <2>3, OvertakenIs
  <2>. QED
    BY <2>2, <2>3
<1>5. \A u \in Threads : ~Writing(u)'
  BY <1>2, <1>3, <1>4 DEF CutSound, Writing
<1>. QED
  BY <1>2, <1>3, <1>5 DEF ImportSound, CutSound, Rooted

\* What a thread that writes has in its series
LEMMA WriterIs ==
  ASSUME Typed, ImportSound, series # NoSeries, NEW t \in Threads, Writing(t)
  PROVE  /\ Continues(thread[t]) /\ \A u \in Threads : Writing(u) => u = t
         /\ thread[t] \in Importer(files) /\ thread[t].todo \in Seq(Nat \X Nat)
         /\ thread[t].file = series.file /\ thread[t].overwrite = series.overwrite
         /\ thread[t].existing = tree
         /\ series.file.file \in Seq(Node) /\ InFolders(series.file.file)
         /\ Forest(tree) /\ Forest(series.base) /\ lastId \in Nat /\ Issued(tree, lastId)
<1>1. thread[t].stage \in Stages
  BY DEF Writing, Stages
<1>2. thread[t] \in Importer(files) /\ thread[t].todo \in Seq(Nat \X Nat) /\ thread[t].file \in files
  BY <1>1, StageTells, ImporterIs
<1>3. Continues(thread[t]) /\ \A u \in Threads : Writing(u) => u = t
  BY DEF ImportSound
<1>4. thread[t].file.file \in Seq(Node) /\ InFolders(thread[t].file.file)
  BY <1>2 DEF Typed, FilesSound
<1>5. Forest(tree) /\ Forest(series.base) /\ lastId \in Nat /\ Issued(tree, lastId)
  BY IssuedIs DEF Typed, SeriesTyped
<1>. QED
  BY <1>2, <1>3, <1>4, <1>5 DEF Continues

LEMMA SoundByFetch ==
  ASSUME Typed, ImportSound, NEW t \in Threads, FetchTree(t)
  PROVE  ImportSound'
<1>. DEFINE todo  == Enter(thread[t].file.file, Root, Root)
            stage == IF thread[t].overwrite THEN "delete" ELSE "create"
            r     == [thread[t] EXCEPT !.existing = tree, !.stage = stage, !.todo = todo]
<1>1. /\ thread[t].stage = "fetch" /\ thread' = [thread EXCEPT ![t] = r] /\ tree' = tree
      /\ series' = Serial(t) /\ cut' = {} /\ DOMAIN thread = Threads
  BY DEF FetchTree, Typed, ThreadsTyped
<1>2. thread[t] \in Importer(files) /\ thread[t].file \in files
  BY <1>1, StageTells, ImporterIs DEF Stages
<1>3. /\ r.stage = stage /\ r.file = thread[t].file /\ r.overwrite = thread[t].overwrite
      /\ r.existing = tree /\ r.todo = todo
  BY <1>2 DEF Importer
<1>4. thread'[t] = r /\ \A u \in Threads \ {t} : thread'[u] = thread[u]
  BY <1>1
<1>5. thread[t].file.file \in Seq(Node) /\ InFolders(thread[t].file.file) /\ Forest(tree)
  BY <1>2, IssuedIs DEF Typed, FilesSound
<1>. DEFINE F == thread[t].file.file
            o == thread[t].overwrite
            B == IF series # NoSeries /\ series.file = thread[t].file /\ series.overwrite = o
                 THEN series.base ELSE tree
            s == [file |-> thread[t].file, overwrite |-> o, done |-> FALSE, base |-> B]
<1>6. SUFFICES ASSUME \A u \in Threads \ {t} : ~Writing(u), series' = s
      PROVE  ImportSound'
  <2>1. CASE \E u \in Threads \ {t} : Writing(u)
    BY <1>1, <2>1 DEF Serial, ImportSound
  <2>2. CASE ~\E u \in Threads \ {t} : Writing(u)
    <3>1. series' = s
      BY <1>1, <2>2 DEF Serial
    <3>. QED
      BY <1>6, <2>2, <3>1
  <2>. QED
    BY <2>1, <2>2
<1>7. ~o => Between(F, B, tree)
  <2>1. Between(F, tree, tree)
    BY DEF Between
  <2>. QED
    BY <2>1 DEF ImportSound
<1>8. Rooted(B) => Rooted(tree)
  BY DEF ImportSound
<1>9. ~o => Work(F, tree, todo, o)
  BY <1>5, WorkBegins
<1>10. /\ s.file = thread[t].file /\ s.overwrite = o /\ ~s.done /\ s.base = B
       /\ stage = "delete" => o
       /\ stage = "create" => ~o
  OBVIOUS
<1>. HIDE DEF todo, stage, r, s, B
<1>11. Continues(thread[t])'
  BY <1>1, <1>3, <1>4, <1>6, <1>9, <1>10 DEF Continues, todo
<1>12. \A u \in Threads : Writing(u)' => u = t
  BY <1>4, <1>6 DEF Writing
<1>. QED
  BY <1>1, <1>6, <1>7, <1>8, <1>10, <1>11, <1>12 DEF ImportSound, Rooted

LEMMA SoundByDeleted ==
  ASSUME Typed, ImportSound, NEW t \in Threads, Deleted(t)
  PROVE  ImportSound'
<1>. DEFINE r == [thread[t] EXCEPT !.stage = "create"]
<1>1. /\ thread[t].stage = "delete" /\ DOMAIN thread[t].existing = {} /\ UNCHANGED <<tree, series, cut>>
      /\ thread' = [thread EXCEPT ![t] = r]
  BY DEF Deleted, Typed, ThreadsTyped
<1>2. Writing(t) /\ thread[t] \in Importer(files)
  BY <1>1, StageTells DEF Writing, Stages
<1>3. /\ r.stage = "create" /\ r.file = thread[t].file /\ r.overwrite = thread[t].overwrite
      /\ r.existing = thread[t].existing /\ r.todo = thread[t].todo
  BY <1>2 DEF Importer
<1>. HIDE DEF r
<1>4. ASSUME series # NoSeries
      PROVE  Work(series.file.file, tree, r.todo, series.overwrite)
  <2>1. /\ Continues(thread[t]) /\ thread[t].existing = tree /\ Forest(tree)
        /\ series.file.file \in Seq(Node) /\ InFolders(series.file.file)
    BY <1>2, <1>4, WriterIs
  <2>2. DOMAIN tree = {} /\ r.todo = Enter(series.file.file, Root, Root)
    BY <1>1, <1>3, <2>1 DEF Continues
  <2>. QED
    BY <2>1, <2>2, WorkBegins
<1>. QED
  BY <1>1, <1>2, <1>3, <1>4, SoundByThread

LEMMA SoundByDelete ==
  ASSUME Typed, ImportSound, NEW t \in Threads, DeleteNode(t)
  PROVE  ImportSound'
<1>1. PICK n \in NextToDelete(thread[t].existing) :
        Call(t, Delete(n), [thread[t] EXCEPT !.existing = Restrict(@, DOMAIN @ \ {n})])
  BY DEF DeleteNode
<1>. DEFINE T == Restrict(tree, DOMAIN tree \ {n})
            E == Restrict(thread[t].existing, DOMAIN thread[t].existing \ {n})
            r == [thread[t] EXCEPT !.existing = E]
<1>2. Writing(t) /\ thread[t].stage = "delete" /\ thread[t] \in Importer(files)
  BY StageTells DEF DeleteNode, Writing, Stages
<1>3. /\ Call(t, Delete(n), r) /\ TreeAfter(Delete(n)) = T
      /\ Accepted(Delete(n)) <=> n \in DOMAIN tree
  BY <1>1, DeleteIs
<1>4. ASSUME series # NoSeries, n \in DOMAIN tree
      PROVE  /\ r \in Importer(files) /\ r.stage = thread[t].stage
             /\ r.file = thread[t].file /\ r.overwrite = thread[t].overwrite
             /\ r.existing = T /\ r.todo = thread[t].todo
             /\ Rooted(tree) => Rooted(T)
             /\ series.overwrite
  <2>1. Continues(thread[t]) /\ thread[t].existing = tree /\ Forest(tree)
        /\ thread[t].overwrite = series.overwrite /\ lastId \in Nat /\ Issued(tree, lastId)
    BY <1>2, <1>4, WriterIs
  <2>2. series.overwrite
    BY <1>2, <2>1 DEF Continues
  <2>3. E = T /\ Issued(E, lastId)
    BY <2>1, RestrictIssued
  <2>4. E \in NodeSets
    BY <2>1, <2>3, IssuedIs
  <2>5. Grown(tree) /\ n \in Deepest(tree)
    BY <1>1, <2>1, ForestGrows DEF NextToDelete
  <2>6. Subtree(tree, n) = {n}
    BY <2>5, DeepestIsEmpty, SubtreeOfLeaf
  <2>7. Grounded(T) = Grounded(tree) \ {n} /\ DOMAIN T = DOMAIN tree \ {n}
    <3>1. Grounded(T) = Grounded(tree) \ Subtree(tree, n)
      BY <1>4, <2>1, GroundedWithout
    <3>2. DOMAIN T = DOMAIN tree \ {n}
      BY <2>1, RestrictIs
    <3>. QED
      BY <2>6, <3>1, <3>2
  <2>8. Rooted(tree) => Rooted(T)
    BY <2>7 DEF Rooted
  <2>. HIDE DEF E, T
  <2>9. /\ r \in Importer(files) /\ r.stage = thread[t].stage
        /\ r.file = thread[t].file /\ r.overwrite = thread[t].overwrite
        /\ r.existing = E /\ r.todo = thread[t].todo
    BY <1>2, <2>4 DEF Importer
  <2>. QED
    BY <2>2, <2>3, <2>8, <2>9
<1>. HIDE DEF r, T
<1>5. thread[t].stage # "create"
  BY <1>2
<1>. QED
  BY <1>2, <1>3, <1>4, <1>5, SoundByCall

LEMMA SoundByOutline ==
  ASSUME Typed, ImportSound, NEW t \in Threads, SkipOutline(t) \/ EnterFolder(t)
  PROVE  ImportSound'
<1>. DEFINE F == thread[t].file.file
            todo == thread[t].todo
<1>1. Importing(t) /\ UNCHANGED <<tree, series, cut>> /\ DOMAIN thread = Threads
  BY DEF SkipOutline, EnterFolder, Typed, ThreadsTyped
<1>2. /\ thread[t] \in Importer(files) /\ thread[t].stage = "create"
      /\ todo \in Seq(Nat \X Nat) /\ todo # <<>>
      /\ Outline(t) = todo[1][1] /\ Into(t) = todo[1][2] /\ Written(t) = F[Outline(t)]
  BY <1>1, OutlineIs
<1>3. Writing(t)
  BY <1>2 DEF Writing
<1>4. ASSUME NEW next, thread' = [thread EXCEPT ![t].todo = next],
             series # NoSeries => Work(series.file.file, tree, next, series.overwrite)
      PROVE  ImportSound'
  <2>. DEFINE r == [thread[t] EXCEPT !.todo = next]
  <2>1. thread' = [thread EXCEPT ![t] = r]
    BY <1>1, <1>4
  <2>2. /\ r.stage = "create" /\ r.file = thread[t].file /\ r.overwrite = thread[t].overwrite
        /\ r.existing = thread[t].existing /\ r.todo = next
    BY <1>2 DEF Importer
  <2>. HIDE DEF r
  <2>. QED
    BY <1>1, <1>3, <1>4, <2>1, <2>2, SoundByThread
<1>5. CASE SkipOutline(t)
  <2>1. thread' = [thread EXCEPT ![t].todo = Tail(todo)] /\ Skips(t)
    BY <1>5 DEF SkipOutline
  <2>2. ASSUME series # NoSeries
        PROVE  Work(series.file.file, tree, Tail(todo), series.overwrite)
    <3>1. /\ Continues(thread[t]) /\ thread[t].existing = tree /\ Forest(tree)
          /\ thread[t].file = series.file /\ thread[t].overwrite = series.overwrite
          /\ F \in Seq(Node) /\ InFolders(F)
      BY <1>3, <2>2, WriterIs
    <3>2. Work(F, tree, todo, FALSE) /\ ~series.overwrite
      BY <1>2, <2>1, <3>1 DEF Continues, Skips, Work
    <3>3. IF IsFeed(F[Outline(t)])
          THEN {m \in Below(tree, Into(t)) : tree[m].name = F[Outline(t)].name} # {}
          ELSE ~HasFeedDescendants(F, Outline(t))
      BY <1>2, <2>1, <3>1 DEF Skips, Twins
    <3>4. Work(F, tree, Tail(todo), FALSE)
      BY <1>2, <3>1, <3>2, <3>3, WorkSkips
    <3>. QED
      BY <3>1, <3>2, <3>4 DEF Work
  <2>. QED
    BY <1>4, <2>1, <2>2
<1>6. CASE EnterFolder(t)
  <2>1. PICK n \in Twins(t) : thread' = [thread EXCEPT ![t].todo = Inside(t, n)]
    BY <1>6 DEF EnterFolder
  <2>2. ~IsFeed(Written(t))
    BY <1>6 DEF EnterFolder
  <2>3. ASSUME series # NoSeries
        PROVE  Work(series.file.file, tree, Inside(t, n), series.overwrite)
    <3>1. /\ Continues(thread[t]) /\ thread[t].existing = tree /\ Forest(tree)
          /\ thread[t].file = series.file /\ thread[t].overwrite = series.overwrite
          /\ F \in Seq(Node) /\ InFolders(F)
      BY <1>3, <2>3, WriterIs
    <3>2. Work(F, tree, todo, series.overwrite)
      BY <1>2, <3>1 DEF Continues
    <3>3. n \in Below(tree, Into(t)) /\ tree[n].name = F[Outline(t)].name
      BY <1>2, <3>1 DEF Twins
    <3>4. Inside(t, n) = Enter(F, Outline(t), n) \o Tail(todo)
      BY <2>2 DEF Inside
    <3>. HIDE DEF F, todo
    <3>5. Work(F, tree, Inside(t, n), series.overwrite)
      BY <1>2, <2>2, <3>1, <3>2, <3>3, <3>4, WorkEnters
    <3>. QED
      BY <3>1, <3>5 DEF F
  <2>. QED
    BY <1>4, <2>1, <2>3
<1>. QED
  BY <1>5, <1>6

LEMMA SoundByCreate ==
  ASSUME Typed, ImportSound, NEW t \in Threads, CreateNode(t)
  PROVE  ImportSound'
<1>. DEFINE F    == thread[t].file.file
            id   == lastId + 1
            node == [parent |-> Into(t), name |-> Written(t).name]
            T    == With(tree, id, node)
            E    == With(thread[t].existing, id, node)
            todo == Inside(t, id)
            r    == [thread[t] EXCEPT !.existing = E, !.todo = todo]
            call == Create(node)
<1>1. /\ Importing(t) /\ ~Skips(t) /\ (Twins(t) = {} \/ IsFeed(Written(t)))
      /\ Call(t, call, r) /\ TreeAfter(call) = T
      /\ Accepted(call) <=> node.parent \in DOMAIN tree \cup {Root}
  BY CreateIs DEF CreateNode, Known
<1>2. /\ id \in Nat /\ lastId < id /\ id # 0 /\ node \in Node /\ node.parent = Into(t)
      /\ node.name = Written(t).name
      /\ Accepted(call) => Takes(tree, id, Into(t))
  BY <1>1, NodeIs DEF Typed
<1>3. /\ thread[t] \in Importer(files) /\ thread[t].stage = "create"
      /\ thread[t].todo \in Seq(Nat \X Nat) /\ thread[t].todo # <<>>
      /\ Outline(t) = thread[t].todo[1][1] /\ Into(t) = thread[t].todo[1][2]
      /\ Written(t) = F[Outline(t)]
  BY <1>1, OutlineIs
<1>4. todo \in Seq(Nat \X Nat)
  BY <1>1, <1>2, InsideIs
<1>5. Writing(t)
  BY <1>3 DEF Writing
<1>6. todo = IF IsFeed(F[Outline(t)]) THEN Tail(thread[t].todo)
             ELSE Enter(F, Outline(t), id) \o Tail(thread[t].todo)
  BY <1>3 DEF Inside
<1>. HIDE DEF id, node, todo, call
<1>7. ASSUME series # NoSeries, Accepted(call)
      PROVE  /\ r \in Importer(files) /\ r.stage = thread[t].stage
             /\ r.file = thread[t].file /\ r.overwrite = thread[t].overwrite
             /\ r.existing = T
             /\ Rooted(tree) => Rooted(T)
             /\ ~series.overwrite => Between(series.file.file, series.base, T)
             /\ Work(series.file.file, T, r.todo, series.overwrite)
  <2>1. /\ Continues(thread[t]) /\ thread[t].existing = tree /\ Forest(tree) /\ Forest(series.base)
        /\ thread[t].file = series.file /\ thread[t].overwrite = series.overwrite
        /\ F \in Seq(Node) /\ InFolders(F) /\ lastId \in Nat /\ Issued(tree, lastId)
    BY <1>5, <1>7, WriterIs
  <2>2. Work(F, tree, thread[t].todo, series.overwrite)
    BY <1>3, <2>1 DEF Continues
  <2>3. 1 \in DOMAIN thread[t].todo
    BY <1>3, TailIs
  <2>4. Fits(F, tree, Outline(t), Into(t))
    BY <1>3, <2>2, <2>3 DEF Work, Placed
  <2>5. \A n \in DOMAIN tree : n < id
    BY <1>2, <2>1 DEF Issued
  <2>6. Takes(tree, id, node.parent) /\ node.parent \in Grounded(tree) \cup {Root}
    BY <1>2, <1>7, <2>4 DEF Fits
  <2>7. Twins(t) = {} => NoTwin(tree, node)
    BY <1>2, <2>1 DEF Twins, NoTwin
  <2>8. ~series.overwrite => Twins(t) = {} /\ (~IsFeed(F[Outline(t)]) => HasFeedDescendants(F, Outline(t)))
    BY <1>1, <1>3, <2>1 DEF Skips
  <2>9. E = T
    BY <2>1
  <2>10. T \in NodeSets /\ Grounded(T) = Grounded(tree) \cup {id} /\ DOMAIN T = DOMAIN tree \cup {id}
    <3>1. Issued(T, id)
      BY <1>2, <2>1, <2>6, WithIssued
    <3>2. T \in NodeSets
      BY <1>2, <3>1, IssuedIs
    <3>3. Grounded(T) = Grounded(tree) \cup {id}
      BY <1>2, <2>1, <2>5, <2>6, WithGrounded
    <3>. QED
      BY <3>2, <3>3 DEF With
  <2>11. Rooted(tree) => Rooted(T)
    BY <2>10 DEF Rooted
  <2>12. IsFeed(Written(t)) \/ NoTwin(tree, node)
    BY <1>1, <2>7
  <2>13. ~series.overwrite => Between(F, series.base, tree)
    BY <1>7, <2>1 DEF ImportSound
  <2>. HIDE DEF F
  <2>14. Work(F, T, todo, series.overwrite)
    BY <1>2, <1>3, <1>6, <2>1, <2>2, <2>5, <2>12, WorkCreates
  <2>15. ~series.overwrite => Between(F, series.base, T)
    BY <1>2, <1>3, <2>1, <2>4, <2>5, <2>7, <2>8, <2>13, BetweenCreates
  <2>. HIDE DEF E, T
  <2>16. /\ r \in Importer(files) /\ r.stage = thread[t].stage
         /\ r.file = thread[t].file /\ r.overwrite = thread[t].overwrite
         /\ r.existing = E /\ r.todo = todo
    BY <1>3, <1>4, <2>9, <2>10 DEF Importer
  <2>. HIDE DEF r
  <2>. QED
    BY <2>1, <2>9, <2>11, <2>14, <2>15, <2>16 DEF F
<1>. HIDE DEF T, r
<1>8. thread[t].stage # "delete"
  BY <1>3
<1>. QED
  BY <1>1, <1>5, <1>7, <1>8, SoundByCall

LEMMA SoundByRefetch ==
  ASSUME Typed, ImportSound, NEW t \in Threads, Refetch(t)
  PROVE  ImportSound'
<1>. DEFINE r == [thread[t] EXCEPT !.stage = "load", !.nodes = tree]
<1>1. /\ thread[t].stage = "create" /\ thread[t].todo = <<>> /\ tree' = tree
      /\ thread' = [thread EXCEPT ![t] = r]
      /\ series' = IF series = NoSeries THEN NoSeries ELSE [series EXCEPT !.done = TRUE]
  BY DEF Refetch, Typed, ThreadsTyped
<1>2. SUFFICES ASSUME series # NoSeries PROVE ImportSound'
  BY <1>1 DEF ImportSound
<1>3. Writing(t)
  BY <1>1 DEF Writing
<1>4. /\ Continues(thread[t]) /\ \A u \in Threads : Writing(u) => u = t
      /\ thread[t] \in Importer(files) /\ Forest(tree)
      /\ series.file.file \in Seq(Node) /\ InFolders(series.file.file)
  BY <1>2, <1>3, WriterIs
<1>5. Work(series.file.file, tree, <<>>, series.overwrite)
  BY <1>1, <1>4 DEF Continues
<1>6. /\ FeedPaths(series.file.file) \subseteq FeedPaths(tree)
      /\ series.overwrite => Complete(series.file.file, tree)
  BY <1>4, <1>5, WorkEnds
<1>7. r.stage = "load"
  BY <1>4 DEF Importer
<1>. HIDE DEF r
<1>8. \A u \in Threads : ~Writing(u)'
  <2>1. thread'[t] = r /\ \A u \in Threads \ {t} : thread'[u] = thread[u]
    BY <1>1 DEF Typed, ThreadsTyped
  <2>. QED
    BY <1>4, <1>7, <2>1 DEF Writing
<1>9. cut' = {}
  BY <1>2, <1>3 DEF Refetch, ImportSound, CutSound
<1>10. series'.file = series.file /\ series'.overwrite = series.overwrite /\ series'.base = series.base
  BY <1>1, <1>2 DEF Typed, SeriesTyped
<1>. QED
  BY <1>1, <1>2, <1>6, <1>8, <1>9, <1>10 DEF ImportSound

LEMMA SoundByRest ==
  ASSUME Typed, ImportSound, NEW t \in Threads, ImportFeeds(t) \/ LoadNodes(t) \/ FailReading(t)
  PROVE  ImportSound'
<1>1. DOMAIN thread = Threads /\ DOMAIN Overtaken = Threads
  BY OvertakenIs DEF Typed, ThreadsTyped
<1>2. UNCHANGED <<tree, lastId, series, cut>>
  BY DEF ImportFeeds, LoadNodes, FailReading
<1>3. \A u \in Threads : Overtaken[u].stage \in {"delete", "create"} => Overtaken[u] = thread[u]
  <2>1. TAKE u \in Threads
  <2>2. CASE thread[u] = Idle
    BY <2>2, OvertakenIs, IdleIs
  <2>3. CASE thread[u] # Idle
    BY <2>3, OvertakenIs
  <2>. QED
    BY <2>2, <2>3
<1>4. PICK r : /\ r.stage \notin {"delete", "create"}
               /\ thread' = [thread EXCEPT ![t] = r] \/ thread' = [Overtaken EXCEPT ![t] = r]
  <2>1. Idle.stage \notin {"delete", "create"}
    BY IdleIs
  <2>2. CASE ImportFeeds(t)
    <3>1. PICK f, o : thread' = [thread EXCEPT ![t] = Begun(f, o)]
      BY <2>2 DEF ImportFeeds
    <3>2. Begun(f, o).stage \notin {"delete", "create"}
      BY DEF Begun
    <3>. QED
      BY <3>1, <3>2
  <2>3. CASE LoadNodes(t)
    BY <2>1, <2>3 DEF LoadNodes
  <2>4. CASE FailReading(t)
    BY <2>1, <2>4 DEF FailReading, Ends
  <2>. QED
    BY <2>2, <2>3, <2>4
<1>5. \A u \in Threads : Writing(u)' => thread'[u] = thread[u]
  <2>1. TAKE u \in Threads
  <2>2. CASE u = t
    BY <1>1, <1>4, <2>2 DEF Writing
  <2>3. CASE u # t
    <3>1. thread'[u] = thread[u] \/ thread'[u] = Overtaken[u]
      BY <1>1, <1>4, <2>3
    <3>. QED
      BY <1>3, <3>1 DEF Writing
  <2>. QED
    BY <2>2, <2>3
<1>. QED
  BY <1>2, <1>5, SoundByOthers

LEMMA AlwaysImportSound == Spec => []ImportSound
<1>1. Init => ImportSound
  BY DEF Init, ImportSound
<1>2. Typed /\ ImportSound /\ [Next]_vars => ImportSound'
  <2>1. SUFFICES ASSUME Typed, ImportSound, [Next]_vars PROVE ImportSound'
    OBVIOUS
  <2>2. CASE UNCHANGED vars \/ ExportFeeds
    <3>1. UNCHANGED <<tree, lastId, thread, series, cut>>
      BY <2>2 DEF vars, ExportFeeds
    <3>. QED
      BY <2>1, <3>1, SoundByOthers
  <2>3. CASE OtherCreates \/ OtherDeletes
    <3>1. series' = NoSeries
      BY <2>3 DEF OtherCreates, OtherDeletes, Changed
    <3>. QED
      BY <3>1 DEF ImportSound
  <2>4. ASSUME NEW t \in Threads, Step(t) PROVE ImportSound'
    BY <2>1, <2>4, SoundByFetch, SoundByDelete, SoundByDeleted, SoundByOutline, SoundByCreate,
       SoundByRefetch, SoundByRest DEF Step
  <2>. QED
    BY <2>1, <2>2, <2>3, <2>4, SoundByAstray DEF Next
<1>. QED
  BY <1>1, <1>2, AlwaysTyped, PTL DEF Spec

LEMMA OverwrittenIs ==
  ASSUME Forest(tree), NEW file, NEW means, Stands(file, means), Complete(file, tree)
  PROVE  Overwritten(means)
<1>1. NoTwins(Restrict(tree, DOMAIN tree \ FeedsOf(tree)))
  BY FoldersAlone DEF Complete, FoldersOnce
<1>. QED
  BY <1>1 DEF Overwritten, Stands, Complete

LEMMA MergedIs ==
  ASSUME Forest(tree), NEW base, Forest(base), NEW file, NEW means, Stands(file, means),
         Between(file, base, tree), FeedPaths(file) \subseteq FeedPaths(tree)
  PROVE  Merged(base, means)
<1>1. \A n \in DOMAIN base : n \in DOMAIN tree /\ tree[n] = base[n]
  BY DEF Between
<1>2. FeedPaths(base) \subseteq FeedPaths(tree) /\ FolderPaths(base) \subseteq FolderPaths(tree)
  BY <1>1, KeptPaths
<1>3. Around(FeedPaths(file)) \subseteq Around(FeedPaths(tree))
  BY DEF Around
<1>4. Around(FeedPaths(tree)) \subseteq FolderPaths(tree)
  BY AroundFeeds
<1>5. FeedPaths(tree) = FeedPaths(base) \cup FeedPaths(file)
  BY <1>2 DEF Between
<1>6. FolderPaths(tree) = FolderPaths(base) \cup Around(FeedPaths(file))
  BY <1>2, <1>3, <1>4 DEF Between
<1>. QED
  BY <1>1, <1>5, <1>6 DEF Merged, Between, Stands

\* However many calls of however many imports of a file failed, wherever, and whenever
\* those were committed: if no other change came between, and none of them once a later
\* import had fetched the tree, one that succeeds leaves the tree that a single import
\* into the first tree makes, and at no time is there a node that the root does not
\* have below it.
THEOREM ImportsAsWritten == Spec => []ImportedAsWritten
<1>1. Typed /\ ImportSound => ImportedAsWritten
  <2>1. SUFFICES ASSUME Typed, ImportSound, series # NoSeries
        PROVE  /\ Rooted(series.base) => Rooted(tree)
               /\ series.done => IF series.overwrite THEN Overwritten(series.file.means)
                                 ELSE Merged(series.base, series.file.means)
    BY DEF ImportedAsWritten, Rooted
  <2>2. /\ Forest(tree) /\ Forest(series.base) /\ series.file \in files
        /\ Stands(series.file.file, series.file.means)
    BY <2>1, IssuedIs DEF Typed, SeriesTyped, FilesSound
  <2>3. series.done /\ series.overwrite => Overwritten(series.file.means)
    BY <2>1, <2>2, OverwrittenIs DEF ImportSound
  <2>4. series.done /\ ~series.overwrite => Merged(series.base, series.file.means)
    BY <2>1, <2>2, MergedIs DEF ImportSound
  <2>. QED
    BY <2>1, <2>3, <2>4 DEF ImportSound
<1>. QED
  BY <1>1, AlwaysTyped, AlwaysImportSound, PTL

=============================================================================
