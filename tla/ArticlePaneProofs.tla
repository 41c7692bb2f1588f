--------------------------- MODULE ArticlePaneProofs ---------------------------
(***************************************************************************)
(* Proofs about ArticlePane and ArticleListModel, for any articles, feeds, *)
(* folders, queries, length of a page and scenarios.                       *)
(*                                                                         *)
(* First the list: a merge, row by row, makes it the target, and the       *)
(* target is in order (MergeIsTarget, TargetIs). Each pass of a merge is a *)
(* fold; that a fold is its first row and then one step for each row is    *)
(* proved once for each pass, as a lemma cannot have an operator for a     *)
(* parameter.                                                              *)
(*                                                                         *)
(* Then the pane. Typed is the invariant everything rests on: besides the  *)
(* types, the pages that are on their way and those of the cache belong to *)
(* their views. CountsTrue says who will put the count right, CacheSingle  *)
(* which pages the cache may hold, and ListSound what the list shows, or   *)
(* who will have it loaded again.                                          *)
(***************************************************************************)
EXTENDS ArticlePane, WellFoundedInduction, FiniteSetTheorems, SequenceTheorems, TLAPS

-----------------------------------------------------------------------------
(* Induction                                                                 *)

LEMMA LeastNat ==
  \A T \in SUBSET Nat : T # {} => \E n \in T : \A m \in T : n <= m
<1>1. IsWellFoundedOn(OpToRel(<,Nat), Nat)
  BY NatLessThanWellFounded
<1>2. TAKE T \in SUBSET Nat
<1>3. HAVE T # {}
<1>4. \E x \in T : \A y \in T : ~ (<<y, x>> \in OpToRel(<,Nat))
  BY <1>1, <1>3, WFMin
<1>5. \A x, y \in Nat : <<y, x>> \notin OpToRel(<,Nat) => x <= y
  BY DEF OpToRel
<1>. QED
  BY <1>4, <1>5

LEMMA Induction ==
  ASSUME NEW T, 0 \in T, \A n \in Nat : n \in T => n + 1 \in T
  PROVE  \A n \in Nat : n \in T
<1>1. SUFFICES ASSUME Nat \ T # {} PROVE FALSE
  OBVIOUS
<1>2. PICK n \in Nat \ T : \A m \in Nat \ T : n <= m
  BY <1>1, LeastNat
<1>3. n # 0 /\ n - 1 \in Nat
  BY <1>2
<1>4. n - 1 \in T
  BY <1>2, <1>3
<1>5. n - 1 + 1 \in T
  BY <1>3, <1>4
<1>. QED
  BY <1>2, <1>5

LEMMA Greatest ==
  ASSUME NEW n \in Nat, NEW s \in SUBSET (1..n), s # {}
  PROVE  /\ Max(s) \in s /\ \A i \in s : i <= Max(s)
         /\ \A m \in s : (\A i \in s : i <= m) => Max(s) = m
<1>. DEFINE gaps == {n - i : i \in s}
<1>1. gaps \in SUBSET Nat /\ gaps # {}
  <2>1. \A i \in s : n - i \in Nat
    OBVIOUS
  <2>. QED
    BY <2>1
<1>2. PICK k \in gaps : \A m \in gaps : k <= m
  BY <1>1, LeastNat
<1>3. \E x \in s : \A y \in s : x >= y
  BY <1>2
<1>4. \A x, y \in s : x >= y /\ y >= x => x = y
  OBVIOUS
<1>. QED
  BY <1>3, <1>4 DEF Max

LEMMA UpTo ==
  ASSUME NEW k \in Nat \ {0}
  PROVE  Max(1..k) = k /\ (1..k) \ {k} = 1..(k - 1)
<1>1. k \in 1..k /\ \A i \in 1..k : i <= k
  OBVIOUS
<1>2. Max(1..k) = k
  BY <1>1, Greatest
<1>3. \A i : i \in (1..k) \ {k} <=> i \in 1..(k - 1)
  OBVIOUS
<1>. QED
  BY <1>2, <1>3

LEMMA Splits ==
  ASSUME NEW m \in Nat, NEW s \in SUBSET (1..m + 1)
  PROVE  /\ m + 1 \in s => Max(s) = m + 1 /\ s \ {m + 1} \in SUBSET (1..m)
         /\ m + 1 \notin s => s \in SUBSET (1..m)
         /\ s # {} => Max(s) \in s
<1>1. m + 1 \in s => \A i \in s : i <= m + 1
  OBVIOUS
<1>2. s # {} => Max(s) \in s
  BY m + 1 \in Nat, Greatest
<1>3. m + 1 \in s => Max(s) = m + 1
  BY <1>1, m + 1 \in Nat, Greatest
<1>. QED
  BY <1>2, <1>3

-----------------------------------------------------------------------------
(* The passes of a merge, step by step                                       *)

Sorts(rows, n, it) ==
  it = [s \in SUBSET (1..n) |->
          IF s = {} THEN <<>> ELSE Placed(it[s \ {Max(s)}], rows[Max(s)])]

LEMMA SortsExists ==
  ASSUME NEW rows, NEW n \in Nat
  PROVE  \E it : Sorts(rows, n, it)
<1>1. Sorts(rows, 0, [s \in {{}} |-> <<>>])
  <2>1. SUBSET (1..0) = {{}}
    OBVIOUS
  <2>. QED
    BY <2>1 DEF Sorts
<1>2. ASSUME NEW m \in Nat, NEW it, Sorts(rows, m, it)
      PROVE  \E h : Sorts(rows, m + 1, h)
  <2>. DEFINE h == [s \in SUBSET (1..m + 1) |->
                     IF m + 1 \in s THEN Placed(it[s \ {m + 1}], rows[m + 1]) ELSE it[s]]
  <2>1. \A s \in SUBSET (1..m) : /\ h[s] = it[s] /\ m + 1 \notin s
                                 /\ s # {} => Max(s) \in s
    BY Splits
  <2>2. ASSUME NEW s \in SUBSET (1..m + 1)
        PROVE  h[s] = IF s = {} THEN <<>> ELSE Placed(h[s \ {Max(s)}], rows[Max(s)])
    <3>1. CASE m + 1 \in s
      BY <2>1, <3>1, Splits
    <3>2. CASE m + 1 \notin s
      <4>1. s \in SUBSET (1..m) /\ s \ {Max(s)} \in SUBSET (1..m)
        BY <3>2, Splits
      <4>2. it[s] = IF s = {} THEN <<>> ELSE Placed(it[s \ {Max(s)}], rows[Max(s)])
        BY <4>1, <1>2 DEF Sorts
      <4>. QED
        BY <2>1, <4>1, <4>2
    <3>. QED
      BY <3>1, <3>2
  <2>3. h = [s \in SUBSET (1..m + 1) |-> h[s]]
    OBVIOUS
  <2>. HIDE DEF h
  <2>4. Sorts(rows, m + 1, h)
    BY <2>2, <2>3 DEF Sorts
  <2>. QED
    BY <2>4
<1>. DEFINE T == {m \in Nat : \E it : Sorts(rows, m, it)}
<1>3. 0 \in T /\ \A m \in Nat : m \in T => m + 1 \in T
  BY <1>1, <1>2
<1>. HIDE DEF T
<1>4. n \in T
  BY <1>3, Induction
<1>. QED
  BY <1>4 DEF T

LEMMA SortedInSteps ==
  ASSUME NEW S, NEW rows \in Seq(S)
  PROVE  \E f : /\ f[0] = <<>>
                /\ \A k \in 1..Len(rows) : f[k] = Placed(f[k - 1], rows[k])
                /\ Sorted(rows) = f[Len(rows)]
<1>1. \E it : Sorts(rows, Len(rows), it)
  <2>1. Len(rows) \in Nat
    OBVIOUS
  <2>. QED
    BY <2>1, SortsExists
<1>2. PICK it : Sorts(rows, Len(rows), it) /\ Sorted(rows) = it[1..Len(rows)]
  <2>1. DOMAIN rows = 1..Len(rows)
    OBVIOUS
  <2>2. Sorted(rows) = (CHOOSE it : Sorts(rows, Len(rows), it))[1..Len(rows)]
    BY <2>1 DEF Sorted, FoldLeft, MapThenFoldSet, Sorts
  <2>. QED
    BY <1>1, <2>2
<1>. DEFINE f == [k \in 0..Len(rows) |-> it[1..k]]
<1>3. f[0] = <<>>
  <2>1. 1..0 = {} /\ {} \in SUBSET (1..Len(rows))
    OBVIOUS
  <2>. QED
    BY <1>2, <2>1 DEF Sorts
<1>4. ASSUME NEW k \in 1..Len(rows)
      PROVE  f[k] = Placed(f[k - 1], rows[k])
  <2>1. 1..k \in SUBSET (1..Len(rows)) /\ 1..k # {} /\ k \in Nat
    OBVIOUS
  <2>2. Max(1..k) = k /\ (1..k) \ {k} = 1..(k - 1)
    BY <2>1, UpTo
  <2>3. it[1..k] = Placed(it[1..(k - 1)], rows[k])
    BY <1>2, <2>1, <2>2 DEF Sorts
  <2>. QED
    BY <2>3
<1>5. f[Len(rows)] = it[1..Len(rows)]
  OBVIOUS
<1>. HIDE DEF f
<1>. QED
  BY <1>2, <1>3, <1>4, <1>5

Extends(rows, page, n, it) ==
  it = [s \in SUBSET (1..n) |->
          IF s = {} THEN rows ELSE Put(it[s \ {Max(s)}], page[Max(s)])]

LEMMA ExtendsExists ==
  ASSUME NEW rows, NEW page, NEW n \in Nat
  PROVE  \E it : Extends(rows, page, n, it)
<1>1. Extends(rows, page, 0, [s \in {{}} |-> rows])
  <2>1. SUBSET (1..0) = {{}}
    OBVIOUS
  <2>. QED
    BY <2>1 DEF Extends
<1>2. ASSUME NEW m \in Nat, NEW it, Extends(rows, page, m, it)
      PROVE  \E h : Extends(rows, page, m + 1, h)
  <2>. DEFINE h == [s \in SUBSET (1..m + 1) |->
                     IF m + 1 \in s THEN Put(it[s \ {m + 1}], page[m + 1]) ELSE it[s]]
  <2>1. \A s \in SUBSET (1..m) : /\ h[s] = it[s] /\ m + 1 \notin s
                                 /\ s # {} => Max(s) \in s
    BY Splits
  <2>2. ASSUME NEW s \in SUBSET (1..m + 1)
        PROVE  h[s] = IF s = {} THEN rows ELSE Put(h[s \ {Max(s)}], page[Max(s)])
    <3>1. CASE m + 1 \in s
      BY <2>1, <3>1, Splits
    <3>2. CASE m + 1 \notin s
      <4>1. s \in SUBSET (1..m) /\ s \ {Max(s)} \in SUBSET (1..m)
        BY <3>2, Splits
      <4>2. it[s] = IF s = {} THEN rows ELSE Put(it[s \ {Max(s)}], page[Max(s)])
        BY <4>1, <1>2 DEF Extends
      <4>. QED
        BY <2>1, <4>1, <4>2
    <3>. QED
      BY <3>1, <3>2
  <2>3. h = [s \in SUBSET (1..m + 1) |-> h[s]]
    OBVIOUS
  <2>. HIDE DEF h
  <2>4. Extends(rows, page, m + 1, h)
    BY <2>2, <2>3 DEF Extends
  <2>. QED
    BY <2>4
<1>. DEFINE T == {m \in Nat : \E it : Extends(rows, page, m, it)}
<1>3. 0 \in T /\ \A m \in Nat : m \in T => m + 1 \in T
  BY <1>1, <1>2
<1>. HIDE DEF T
<1>4. n \in T
  BY <1>3, Induction
<1>. QED
  BY <1>4 DEF T

LEMMA ExtendedInSteps ==
  ASSUME NEW S, NEW rows, NEW page \in Seq(S)
  PROVE  \E f : /\ f[0] = rows
                /\ \A k \in 1..Len(page) : f[k] = Put(f[k - 1], page[k])
                /\ Extended(rows, page) = f[Len(page)]
<1>1. \E it : Extends(rows, page, Len(page), it)
  <2>1. Len(page) \in Nat
    OBVIOUS
  <2>. QED
    BY <2>1, ExtendsExists
<1>2. PICK it : Extends(rows, page, Len(page), it) /\ Extended(rows, page) = it[1..Len(page)]
  <2>1. DOMAIN page = 1..Len(page)
    OBVIOUS
  <2>2. Extended(rows, page) = (CHOOSE it : Extends(rows, page, Len(page), it))[1..Len(page)]
    BY <2>1 DEF Extended, FoldLeft, MapThenFoldSet, Extends
  <2>. QED
    BY <1>1, <2>2
<1>. DEFINE f == [k \in 0..Len(page) |-> it[1..k]]
<1>3. f[0] = rows
  <2>1. 1..0 = {} /\ {} \in SUBSET (1..Len(page))
    OBVIOUS
  <2>. QED
    BY <1>2, <2>1 DEF Extends
<1>4. ASSUME NEW k \in 1..Len(page)
      PROVE  f[k] = Put(f[k - 1], page[k])
  <2>1. 1..k \in SUBSET (1..Len(page)) /\ 1..k # {} /\ k \in Nat
    OBVIOUS
  <2>2. Max(1..k) = k /\ (1..k) \ {k} = 1..(k - 1)
    BY <2>1, UpTo
  <2>3. it[1..k] = Put(it[1..(k - 1)], page[k])
    BY <1>2, <2>1, <2>2 DEF Extends
  <2>. QED
    BY <2>3
<1>5. f[Len(page)] = it[1..Len(page)]
  OBVIOUS
<1>. HIDE DEF f
<1>. QED
  BY <1>2, <1>3, <1>4, <1>5

Removes(rows, target, n, it) ==
  it = [s \in SUBSET (1..n) |->
          IF s = {} THEN <<>> ELSE Kept(it[s \ {Max(s)}], rows[Max(s)], target)]

LEMMA RemovesExists ==
  ASSUME NEW rows, NEW target, NEW n \in Nat
  PROVE  \E it : Removes(rows, target, n, it)
<1>1. Removes(rows, target, 0, [s \in {{}} |-> <<>>])
  <2>1. SUBSET (1..0) = {{}}
    OBVIOUS
  <2>. QED
    BY <2>1 DEF Removes
<1>2. ASSUME NEW m \in Nat, NEW it, Removes(rows, target, m, it)
      PROVE  \E h : Removes(rows, target, m + 1, h)
  <2>. DEFINE h == [s \in SUBSET (1..m + 1) |->
                     IF m + 1 \in s THEN Kept(it[s \ {m + 1}], rows[m + 1], target) ELSE it[s]]
  <2>1. \A s \in SUBSET (1..m) : /\ h[s] = it[s] /\ m + 1 \notin s
                                 /\ s # {} => Max(s) \in s
    BY Splits
  <2>2. ASSUME NEW s \in SUBSET (1..m + 1)
        PROVE  h[s] = IF s = {} THEN <<>> ELSE Kept(h[s \ {Max(s)}], rows[Max(s)], target)
    <3>1. CASE m + 1 \in s
      BY <2>1, <3>1, Splits
    <3>2. CASE m + 1 \notin s
      <4>1. s \in SUBSET (1..m) /\ s \ {Max(s)} \in SUBSET (1..m)
        BY <3>2, Splits
      <4>2. it[s] = IF s = {} THEN <<>> ELSE Kept(it[s \ {Max(s)}], rows[Max(s)], target)
        BY <4>1, <1>2 DEF Removes
      <4>. QED
        BY <2>1, <4>1, <4>2
    <3>. QED
      BY <3>1, <3>2
  <2>3. h = [s \in SUBSET (1..m + 1) |-> h[s]]
    OBVIOUS
  <2>. HIDE DEF h
  <2>4. Removes(rows, target, m + 1, h)
    BY <2>2, <2>3 DEF Removes
  <2>. QED
    BY <2>4
<1>. DEFINE T == {m \in Nat : \E it : Removes(rows, target, m, it)}
<1>3. 0 \in T /\ \A m \in Nat : m \in T => m + 1 \in T
  BY <1>1, <1>2
<1>. HIDE DEF T
<1>4. n \in T
  BY <1>3, Induction
<1>. QED
  BY <1>4 DEF T

LEMMA RemovedInSteps ==
  ASSUME NEW S, NEW rows \in Seq(S), NEW target
  PROVE  \E f : /\ f[0] = <<>>
                /\ \A k \in 1..Len(rows) : f[k] = Kept(f[k - 1], rows[k], target)
                /\ Removed(rows, target) = f[Len(rows)]
<1>1. \E it : Removes(rows, target, Len(rows), it)
  <2>1. Len(rows) \in Nat
    OBVIOUS
  <2>. QED
    BY <2>1, RemovesExists
<1>2. PICK it : Removes(rows, target, Len(rows), it) /\ Removed(rows, target) = it[1..Len(rows)]
  <2>1. DOMAIN rows = 1..Len(rows)
    OBVIOUS
  <2>2. Removed(rows, target) = (CHOOSE it : Removes(rows, target, Len(rows), it))[1..Len(rows)]
    BY <2>1 DEF Removed, FoldLeft, MapThenFoldSet, Removes
  <2>. QED
    BY <1>1, <2>2
<1>. DEFINE f == [k \in 0..Len(rows) |-> it[1..k]]
<1>3. f[0] = <<>>
  <2>1. 1..0 = {} /\ {} \in SUBSET (1..Len(rows))
    OBVIOUS
  <2>. QED
    BY <1>2, <2>1 DEF Removes
<1>4. ASSUME NEW k \in 1..Len(rows)
      PROVE  f[k] = Kept(f[k - 1], rows[k], target)
  <2>1. 1..k \in SUBSET (1..Len(rows)) /\ 1..k # {} /\ k \in Nat
    OBVIOUS
  <2>2. Max(1..k) = k /\ (1..k) \ {k} = 1..(k - 1)
    BY <2>1, UpTo
  <2>3. it[1..k] = Kept(it[1..(k - 1)], rows[k], target)
    BY <1>2, <2>1, <2>2 DEF Removes
  <2>. QED
    BY <2>3
<1>5. f[Len(rows)] = it[1..Len(rows)]
  OBVIOUS
<1>. HIDE DEF f
<1>. QED
  BY <1>2, <1>3, <1>4, <1>5

Fills(rows, target, n, it) ==
  it = [s \in SUBSET (1..n) |->
          IF s = {} THEN rows ELSE Filled(it[s \ {Max(s)}], Max(s), target)]

LEMMA FillsExists ==
  ASSUME NEW rows, NEW target, NEW n \in Nat
  PROVE  \E it : Fills(rows, target, n, it)
<1>1. Fills(rows, target, 0, [s \in {{}} |-> rows])
  <2>1. SUBSET (1..0) = {{}}
    OBVIOUS
  <2>. QED
    BY <2>1 DEF Fills
<1>2. ASSUME NEW m \in Nat, NEW it, Fills(rows, target, m, it)
      PROVE  \E h : Fills(rows, target, m + 1, h)
  <2>. DEFINE h == [s \in SUBSET (1..m + 1) |->
                     IF m + 1 \in s THEN Filled(it[s \ {m + 1}], m + 1, target) ELSE it[s]]
  <2>1. \A s \in SUBSET (1..m) : /\ h[s] = it[s] /\ m + 1 \notin s
                                 /\ s # {} => Max(s) \in s
    BY Splits
  <2>2. ASSUME NEW s \in SUBSET (1..m + 1)
        PROVE  h[s] = IF s = {} THEN rows ELSE Filled(h[s \ {Max(s)}], Max(s), target)
    <3>1. CASE m + 1 \in s
      BY <2>1, <3>1, Splits
    <3>2. CASE m + 1 \notin s
      <4>1. s \in SUBSET (1..m) /\ s \ {Max(s)} \in SUBSET (1..m)
        BY <3>2, Splits
      <4>2. it[s] = IF s = {} THEN rows ELSE Filled(it[s \ {Max(s)}], Max(s), target)
        BY <4>1, <1>2 DEF Fills
      <4>. QED
        BY <2>1, <4>1, <4>2
    <3>. QED
      BY <3>1, <3>2
  <2>3. h = [s \in SUBSET (1..m + 1) |-> h[s]]
    OBVIOUS
  <2>. HIDE DEF h
  <2>4. Fills(rows, target, m + 1, h)
    BY <2>2, <2>3 DEF Fills
  <2>. QED
    BY <2>4
<1>. DEFINE T == {m \in Nat : \E it : Fills(rows, target, m, it)}
<1>3. 0 \in T /\ \A m \in Nat : m \in T => m + 1 \in T
  BY <1>1, <1>2
<1>. HIDE DEF T
<1>4. n \in T
  BY <1>3, Induction
<1>. QED
  BY <1>4 DEF T

LEMMA InsertedInSteps ==
  ASSUME NEW S, NEW rows, NEW target \in Seq(S)
  PROVE  \E f : /\ f[0] = rows
                /\ \A k \in 1..Len(target) : f[k] = Filled(f[k - 1], k, target)
                /\ Inserted(rows, target) = f[Len(target)]
<1>1. \E it : Fills(rows, target, Len(target), it)
  <2>1. Len(target) \in Nat
    OBVIOUS
  <2>. QED
    BY <2>1, FillsExists
<1>2. PICK it : Fills(rows, target, Len(target), it) /\ Inserted(rows, target) = it[1..Len(target)]
  <2>1. DOMAIN target = 1..Len(target)
    OBVIOUS
  <2>. DEFINE Folds(it) == it = [s \in SUBSET DOMAIN [i \in DOMAIN target |-> i] |->
                                 IF s = {} THEN rows
                                 ELSE Filled(it[s \ {Max(s)}],
                                             [i \in DOMAIN target |-> i][Max(s)], target)]
  <2>2. \A it : Folds(it) <=> Fills(rows, target, Len(target), it)
    <3>1. DOMAIN [i \in DOMAIN target |-> i] = 1..Len(target)
      BY <2>1
    <3>2. ASSUME NEW s \in SUBSET (1..Len(target)), s # {}
          PROVE  [i \in DOMAIN target |-> i][Max(s)] = Max(s)
      <4>1. Max(s) \in s
        BY <3>2, Len(target) \in Nat, Greatest
      <4>. QED
        BY <2>1, <4>1
    <3>. QED
      BY <3>1, <3>2 DEF Fills
  <2>3. Inserted(rows, target) = (CHOOSE it : Folds(it))[1..Len(target)]
    BY <2>1 DEF Inserted, FoldLeft, FoldLeftDomain, MapThenFoldSet
  <2>. QED
    BY <1>1, <2>2, <2>3
<1>. DEFINE f == [k \in 0..Len(target) |-> it[1..k]]
<1>3. f[0] = rows
  <2>1. 1..0 = {} /\ {} \in SUBSET (1..Len(target))
    OBVIOUS
  <2>. QED
    BY <1>2, <2>1 DEF Fills
<1>4. ASSUME NEW k \in 1..Len(target)
      PROVE  f[k] = Filled(f[k - 1], k, target)
  <2>1. 1..k \in SUBSET (1..Len(target)) /\ 1..k # {} /\ k \in Nat
    OBVIOUS
  <2>2. Max(1..k) = k /\ (1..k) \ {k} = 1..(k - 1)
    BY <2>1, UpTo
  <2>3. it[1..k] = Filled(it[1..(k - 1)], k, target)
    BY <1>2, <2>1, <2>2 DEF Fills
  <2>. QED
    BY <2>3
<1>5. f[Len(target)] = it[1..Len(target)]
  OBVIOUS
<1>. HIDE DEF f
<1>. QED
  BY <1>2, <1>3, <1>4, <1>5

Moves(rows, target, n, it) ==
  it = [s \in SUBSET (1..n) |->
          IF s = {} THEN rows ELSE Moved(it[s \ {Max(s)}], Max(s), target)]

LEMMA MovesExists ==
  ASSUME NEW rows, NEW target, NEW n \in Nat
  PROVE  \E it : Moves(rows, target, n, it)
<1>1. Moves(rows, target, 0, [s \in {{}} |-> rows])
  <2>1. SUBSET (1..0) = {{}}
    OBVIOUS
  <2>. QED
    BY <2>1 DEF Moves
<1>2. ASSUME NEW m \in Nat, NEW it, Moves(rows, target, m, it)
      PROVE  \E h : Moves(rows, target, m + 1, h)
  <2>. DEFINE h == [s \in SUBSET (1..m + 1) |->
                     IF m + 1 \in s THEN Moved(it[s \ {m + 1}], m + 1, target) ELSE it[s]]
  <2>1. \A s \in SUBSET (1..m) : /\ h[s] = it[s] /\ m + 1 \notin s
                                 /\ s # {} => Max(s) \in s
    BY Splits
  <2>2. ASSUME NEW s \in SUBSET (1..m + 1)
        PROVE  h[s] = IF s = {} THEN rows ELSE Moved(h[s \ {Max(s)}], Max(s), target)
    <3>1. CASE m + 1 \in s
      BY <2>1, <3>1, Splits
    <3>2. CASE m + 1 \notin s
      <4>1. s \in SUBSET (1..m) /\ s \ {Max(s)} \in SUBSET (1..m)
        BY <3>2, Splits
      <4>2. it[s] = IF s = {} THEN rows ELSE Moved(it[s \ {Max(s)}], Max(s), target)
        BY <4>1, <1>2 DEF Moves
      <4>. QED
        BY <2>1, <4>1, <4>2
    <3>. QED
      BY <3>1, <3>2
  <2>3. h = [s \in SUBSET (1..m + 1) |-> h[s]]
    OBVIOUS
  <2>. HIDE DEF h
  <2>4. Moves(rows, target, m + 1, h)
    BY <2>2, <2>3 DEF Moves
  <2>. QED
    BY <2>4
<1>. DEFINE T == {m \in Nat : \E it : Moves(rows, target, m, it)}
<1>3. 0 \in T /\ \A m \in Nat : m \in T => m + 1 \in T
  BY <1>1, <1>2
<1>. HIDE DEF T
<1>4. n \in T
  BY <1>3, Induction
<1>. QED
  BY <1>4 DEF T

LEMMA ReorderedInSteps ==
  ASSUME NEW S, NEW rows, NEW target \in Seq(S)
  PROVE  \E f : /\ f[0] = rows
                /\ \A k \in 1..Len(target) : f[k] = Moved(f[k - 1], k, target)
                /\ Reordered(rows, target) = f[Len(target)]
<1>1. \E it : Moves(rows, target, Len(target), it)
  <2>1. Len(target) \in Nat
    OBVIOUS
  <2>. QED
    BY <2>1, MovesExists
<1>2. PICK it : Moves(rows, target, Len(target), it) /\ Reordered(rows, target) = it[1..Len(target)]
  <2>1. DOMAIN target = 1..Len(target)
    OBVIOUS
  <2>. DEFINE Folds(it) == it = [s \in SUBSET DOMAIN [i \in DOMAIN target |-> i] |->
                                 IF s = {} THEN rows
                                 ELSE Moved(it[s \ {Max(s)}],
                                            [i \in DOMAIN target |-> i][Max(s)], target)]
  <2>2. \A it : Folds(it) <=> Moves(rows, target, Len(target), it)
    <3>1. DOMAIN [i \in DOMAIN target |-> i] = 1..Len(target)
      BY <2>1
    <3>2. ASSUME NEW s \in SUBSET (1..Len(target)), s # {}
          PROVE  [i \in DOMAIN target |-> i][Max(s)] = Max(s)
      <4>1. Max(s) \in s
        BY <3>2, Len(target) \in Nat, Greatest
      <4>. QED
        BY <2>1, <4>1
    <3>. QED
      BY <3>1, <3>2 DEF Moves
  <2>3. Reordered(rows, target) = (CHOOSE it : Folds(it))[1..Len(target)]
    BY <2>1 DEF Reordered, FoldLeft, FoldLeftDomain, MapThenFoldSet
  <2>. QED
    BY <1>1, <2>2, <2>3
<1>. DEFINE f == [k \in 0..Len(target) |-> it[1..k]]
<1>3. f[0] = rows
  <2>1. 1..0 = {} /\ {} \in SUBSET (1..Len(target))
    OBVIOUS
  <2>. QED
    BY <1>2, <2>1 DEF Moves
<1>4. ASSUME NEW k \in 1..Len(target)
      PROVE  f[k] = Moved(f[k - 1], k, target)
  <2>1. 1..k \in SUBSET (1..Len(target)) /\ 1..k # {} /\ k \in Nat
    OBVIOUS
  <2>2. Max(1..k) = k /\ (1..k) \ {k} = 1..(k - 1)
    BY <2>1, UpTo
  <2>3. it[1..k] = Moved(it[1..(k - 1)], k, target)
    BY <1>2, <2>1, <2>2 DEF Moves
  <2>. QED
    BY <2>3
<1>5. f[Len(target)] = it[1..Len(target)]
  OBVIOUS
<1>. HIDE DEF f
<1>. QED
  BY <1>2, <1>3, <1>4, <1>5

-----------------------------------------------------------------------------
(* Sequences of rows                                                         *)

Members(rows) == {rows[i] : i \in DOMAIN rows}

LEMMA InductionTo ==
  ASSUME NEW n \in Nat, NEW T, 0 \in T, \A k \in 1..n : k - 1 \in T => k \in T
  PROVE  \A k \in 0..n : k \in T
<1>. DEFINE U == {k \in Nat : k <= n => k \in T}
<1>1. 0 \in U
  OBVIOUS
<1>2. ASSUME NEW k \in Nat, k \in U PROVE k + 1 \in U
  <2>1. k + 1 <= n => k + 1 \in 1..n /\ k + 1 - 1 = k /\ k <= n
    OBVIOUS
  <2>. QED
    BY <1>2, <2>1
<1>. HIDE DEF U
<1>3. \A k \in Nat : k \in U
  BY <1>1, <1>2, Induction
<1>. QED
  BY <1>3 DEF U

LEMMA Insertion ==
  ASSUME NEW S, NEW s \in Seq(S), NEW i \in 1..Len(s) + 1, NEW e \in S
  PROVE  /\ InsertAt(s, i, e) \in Seq(S)
         /\ Len(InsertAt(s, i, e)) = Len(s) + 1
         /\ \A j \in 1..Len(s) + 1 : InsertAt(s, i, e)[j] =
              IF j < i THEN s[j] ELSE IF j = i THEN e ELSE s[j - 1]
<1>. DEFINE before == SubSeq(s, 1, i - 1)
            after  == SubSeq(s, i, Len(s))
<1>1. /\ before \in Seq(S) /\ Len(before) = i - 1
      /\ \A j \in 1..i - 1 : before[j] = s[j]
  <2>1. \A j \in 1..i - 1 : s[j] \in S
    OBVIOUS
  <2>. QED
    BY <2>1, SubSeqProperties
<1>2. /\ after \in Seq(S) /\ Len(after) = Len(s) - i + 1
      /\ \A j \in 1..Len(s) - i + 1 : after[j] = s[i + j - 1]
  <2>1. \A j \in i..Len(s) : s[j] \in S
    OBVIOUS
  <2>. QED
    BY <2>1, SubSeqProperties
<1>3. /\ <<e>> \in Seq(S) /\ Len(<<e>>) = 1 /\ <<e>>[1] = e
  OBVIOUS
<1>. DEFINE front == before \o <<e>>
<1>4. /\ front \in Seq(S) /\ Len(front) = i
      /\ \A j \in 1..i : front[j] = IF j < i THEN s[j] ELSE e
  <2>. HIDE DEF before, after
  <2>. QED
    BY <1>1, <1>3, ConcatProperties
<1>. DEFINE t == front \o after
<1>5. /\ t \in Seq(S) /\ Len(t) = i + (Len(s) - i + 1)
      /\ \A j \in 1..i + (Len(s) - i + 1) : t[j] = IF j <= i THEN front[j] ELSE after[j - i]
  <2>. HIDE DEF front, after
  <2>1. /\ t \in Seq(S) /\ Len(t) = Len(front) + Len(after)
        /\ \A j \in 1..Len(front) + Len(after) :
             t[j] = IF j <= Len(front) THEN front[j] ELSE after[j - Len(front)]
    BY <1>2, <1>4, ConcatProperties
  <2>. QED
    BY <1>2, <1>4, <2>1
<1>6. InsertAt(s, i, e) = t
  BY DEF InsertAt
<1>. HIDE DEF t, front, before, after
<1>7. i \in Nat /\ Len(s) \in Nat /\ i + (Len(s) - i + 1) = Len(s) + 1
  OBVIOUS
<1>8. ASSUME NEW j \in 1..Len(s) + 1
      PROVE  t[j] = IF j < i THEN s[j] ELSE IF j = i THEN e ELSE s[j - 1]
  <2>1. CASE j <= i
    BY <1>4, <1>5, <1>7, <2>1
  <2>2. CASE j > i
    <3>1. t[j] = after[j - i]
      BY <1>5, <1>7, <2>2
    <3>2. j - i \in 1..Len(s) - i + 1 /\ i + (j - i) - 1 = j - 1
      BY <1>7, <2>2
    <3>. QED
      BY <1>2, <1>7, <2>2, <3>1, <3>2
  <2>. QED
    BY <1>7, <2>1, <2>2
<1>. QED
  BY <1>5, <1>6, <1>7, <1>8

LEMMA Removal ==
  ASSUME NEW S, NEW s \in Seq(S), NEW i \in 1..Len(s)
  PROVE  /\ RemoveAt(s, i) \in Seq(S)
         /\ Len(RemoveAt(s, i)) = Len(s) - 1
         /\ \A j \in 1..Len(s) - 1 : RemoveAt(s, i)[j] = IF j < i THEN s[j] ELSE s[j + 1]
<1>. DEFINE before == SubSeq(s, 1, i - 1)
            after  == SubSeq(s, i + 1, Len(s))
<1>1. /\ before \in Seq(S) /\ Len(before) = i - 1
      /\ \A j \in 1..i - 1 : before[j] = s[j]
  <2>1. \A j \in 1..i - 1 : s[j] \in S
    OBVIOUS
  <2>. QED
    BY <2>1, SubSeqProperties
<1>2. /\ after \in Seq(S) /\ Len(after) = Len(s) - i
      /\ \A j \in 1..Len(s) - i : after[j] = s[i + j]
  <2>1. \A j \in i + 1..Len(s) : s[j] \in S
    OBVIOUS
  <2>. QED
    BY <2>1, SubSeqProperties
<1>. DEFINE t == before \o after
<1>3. /\ t \in Seq(S) /\ Len(t) = (i - 1) + (Len(s) - i)
      /\ \A j \in 1..(i - 1) + (Len(s) - i) : t[j] =
           IF j <= i - 1 THEN before[j] ELSE after[j - (i - 1)]
  <2>. HIDE DEF before, after
  <2>1. /\ t \in Seq(S) /\ Len(t) = Len(before) + Len(after)
        /\ \A j \in 1..Len(before) + Len(after) :
             t[j] = IF j <= Len(before) THEN before[j] ELSE after[j - Len(before)]
    BY <1>1, <1>2, ConcatProperties
  <2>. QED
    BY <1>1, <1>2, <2>1
<1>4. RemoveAt(s, i) = t
  BY DEF RemoveAt
<1>. HIDE DEF t, before, after
<1>5. i \in Nat /\ Len(s) \in Nat /\ (i - 1) + (Len(s) - i) = Len(s) - 1
  OBVIOUS
<1>6. ASSUME NEW j \in 1..Len(s) - 1
      PROVE  t[j] = IF j < i THEN s[j] ELSE s[j + 1]
  <2>1. CASE j < i
    BY <1>1, <1>3, <1>5, <2>1
  <2>2. CASE j >= i
    <3>1. t[j] = after[j - (i - 1)]
      BY <1>3, <1>5, <2>2
    <3>2. j - (i - 1) \in 1..Len(s) - i /\ i + (j - (i - 1)) = j + 1
      BY <1>5, <2>2
    <3>3. after[j - (i - 1)] = s[j + 1]
      <4>1. after[j - (i - 1)] = s[i + (j - (i - 1))]
        BY <1>2, <3>2
      <4>. QED
        BY <3>2, <4>1
    <3>. QED
      BY <1>5, <2>2, <3>1, <3>3
  <2>. QED
    BY <1>5, <2>1, <2>2
<1>. QED
  BY <1>3, <1>4, <1>5, <1>6

\* A row put into a list
LEMMA InsertedRow ==
  ASSUME NEW s \in Seq(Row), NEW i \in 1..Len(s) + 1, NEW r \in Row
  PROVE  LET t == InsertAt(s, i, r) IN
         /\ t \in Seq(Row) /\ Len(t) = Len(s) + 1
         /\ Members(t) = Members(s) \cup {r}
         /\ Ids(t) = Ids(s) \cup {Id(r)}
         /\ ~Doubled(t) <=> ~Doubled(s) /\ Id(r) \notin Ids(s)
<1>. DEFINE t == InsertAt(s, i, r)
<1>1. /\ t \in Seq(Row) /\ Len(t) = Len(s) + 1
      /\ \A j \in 1..Len(s) + 1 : t[j] = IF j < i THEN s[j] ELSE IF j = i THEN r ELSE s[j - 1]
  BY Insertion
<1>. HIDE DEF t
<1>. DEFINE to(j) == IF j < i THEN j ELSE j + 1
<1>2. /\ \A j \in 1..Len(s) : to(j) \in 1..Len(t) /\ to(j) # i /\ t[to(j)] = s[j]
      /\ \A j \in 1..Len(t) : j = i \/ \E k \in 1..Len(s) : j = to(k)
      /\ \A j, k \in 1..Len(s) : to(j) = to(k) => j = k
      /\ i \in 1..Len(t) /\ t[i] = r
  <2>1. ASSUME NEW j \in 1..Len(s)
        PROVE  to(j) \in 1..Len(t) /\ to(j) # i /\ t[to(j)] = s[j]
    BY <1>1
  <2>2. ASSUME NEW j \in 1..Len(t), j # i
        PROVE  \E k \in 1..Len(s) : j = to(k)
    <3>1. CASE j < i
      BY <1>1, <3>1
    <3>2. CASE j > i
      <4>1. j - 1 \in 1..Len(s) /\ j = to(j - 1)
        BY <1>1, <3>2
      <4>. QED
        BY <4>1
    <3>. QED
      BY <2>2, <3>1, <3>2
  <2>. QED
    BY <1>1, <2>1, <2>2
<1>. HIDE DEF to
<1>3. DOMAIN t = 1..Len(t) /\ DOMAIN s = 1..Len(s)
  BY <1>1
<1>4. Members(t) = Members(s) \cup {r}
  <2>1. \A x : x \in Members(t) <=> \E j \in 1..Len(t) : x = t[j]
    BY <1>3 DEF Members
  <2>2. \A x : x \in Members(s) <=> \E j \in 1..Len(s) : x = s[j]
    BY <1>3 DEF Members
  <2>3. ASSUME NEW x \in Members(t) PROVE x \in Members(s) \cup {r}
    <3>1. PICK j \in 1..Len(t) : x = t[j]
      BY <2>1, <2>3
    <3>2. CASE j = i
      BY <1>2, <3>1, <3>2
    <3>3. ASSUME NEW k \in 1..Len(s), j = to(k) PROVE x \in Members(s)
      BY <1>2, <2>2, <3>1, <3>3
    <3>. QED
      BY <1>2, <3>2, <3>3
  <2>4. Members(s) \cup {r} \subseteq Members(t)
    BY <1>2, <2>1, <2>2
  <2>. QED
    BY <2>3, <2>4
<1>5. Ids(t) = Ids(s) \cup {Id(r)}
  BY <1>2, <1>3 DEF Ids
<1>6. Doubled(s) => Doubled(t)
  BY <1>2, <1>3 DEF Doubled
<1>7. Id(r) \in Ids(s) => Doubled(t)
  BY <1>2, <1>3 DEF Doubled, Ids
<1>8. Doubled(t) => Doubled(s) \/ Id(r) \in Ids(s)
  <2>1. SUFFICES ASSUME NEW j \in 1..Len(t), NEW k \in 1..Len(t), j # k, Id(t[j]) = Id(t[k])
                 PROVE  Doubled(s) \/ Id(r) \in Ids(s)
    BY <1>3 DEF Doubled
  <2>2. CASE j = i \/ k = i
    BY <1>2, <1>3, <2>1, <2>2 DEF Ids
  <2>3. CASE j # i /\ k # i
    <3>1. PICK m \in 1..Len(s), n \in 1..Len(s) : j = to(m) /\ k = to(n)
      BY <1>2, <2>3
    <3>2. m # n /\ Id(s[m]) = Id(s[n])
      BY <1>2, <2>1, <3>1
    <3>. QED
      BY <1>3, <3>2 DEF Doubled
  <2>. QED
    BY <2>2, <2>3
<1>. QED
  BY <1>1, <1>4, <1>5, <1>6, <1>7, <1>8 DEF t

LEMMA Index ==
  ASSUME NEW rows \in Seq(Row)
  PROVE  /\ Len(rows) \in Nat /\ DOMAIN rows = 1..Len(rows)
         /\ \A i \in 1..Len(rows) :
               rows[i] \in Row /\ rows[i] \in Members(rows) /\ Id(rows[i]) \in Ids(rows)
         /\ \A x : x \in Members(rows) => x \in Row /\ \E i \in 1..Len(rows) : x = rows[i]
         /\ \A x : x \in Ids(rows) => \E i \in 1..Len(rows) : x = Id(rows[i])
         /\ ~Doubled(rows) <=> \A i, j \in 1..Len(rows) : Id(rows[i]) = Id(rows[j]) => i = j
  BY DEF Members, Ids, Doubled

\* A row taken from a list
LEMMA RemovedRow ==
  ASSUME NEW s \in Seq(Row), ~Doubled(s), NEW i \in 1..Len(s)
  PROVE  LET t == RemoveAt(s, i) IN
         /\ t \in Seq(Row) /\ Len(t) = Len(s) - 1 /\ ~Doubled(t)
         /\ Ids(t) = Ids(s) \ {Id(s[i])}
<1>. DEFINE t == RemoveAt(s, i)
<1>1. /\ t \in Seq(Row) /\ Len(t) = Len(s) - 1
      /\ \A j \in 1..Len(s) - 1 : t[j] = IF j < i THEN s[j] ELSE s[j + 1]
  BY Removal
<1>. HIDE DEF t
<1>. DEFINE at(j) == IF j < i THEN j ELSE j + 1
<1>2. /\ \A j \in 1..Len(t) : at(j) \in 1..Len(s) /\ at(j) # i /\ t[j] = s[at(j)]
      /\ \A j \in 1..Len(s) : j = i \/ \E k \in 1..Len(t) : j = at(k)
      /\ \A j, k \in 1..Len(t) : at(j) = at(k) => j = k
  <2>1. ASSUME NEW j \in 1..Len(t)
        PROVE  at(j) \in 1..Len(s) /\ at(j) # i /\ t[j] = s[at(j)]
    BY <1>1
  <2>2. ASSUME NEW j \in 1..Len(s), j # i
        PROVE  \E k \in 1..Len(t) : j = at(k)
    <3>1. CASE j < i
      BY <1>1, <3>1
    <3>2. CASE j > i
      <4>1. j - 1 \in 1..Len(t) /\ j = at(j - 1)
        BY <1>1, <3>2
      <4>. QED
        BY <4>1
    <3>. QED
      BY <2>2, <3>1, <3>2
  <2>3. \A j, k \in 1..Len(t) : at(j) = at(k) => j = k
    BY <1>1
  <2>4. \A j \in 1..Len(s) : j = i \/ \E k \in 1..Len(t) : j = at(k)
    BY <2>2
  <2>. HIDE DEF at
  <2>. QED
    BY <2>1, <2>3, <2>4
<1>. HIDE DEF at
<1>3. \A j, k \in 1..Len(s) : Id(s[j]) = Id(s[k]) => j = k
  BY Index
<1>4. ~Doubled(t)
  <2>1. \A j, k \in 1..Len(t) : Id(t[j]) = Id(t[k]) => j = k
    BY <1>2, <1>3
  <2>. QED
    BY <1>1, <2>1, Index
<1>5. ASSUME NEW x \in Ids(t) PROVE x \in Ids(s) \ {Id(s[i])}
  <2>1. PICK j \in 1..Len(t) : x = Id(t[j])
    BY <1>1, Index
  <2>2. at(j) \in 1..Len(s) /\ at(j) # i /\ x = Id(s[at(j)])
    BY <1>2, <2>1
  <2>3. x \in Ids(s) /\ x # Id(s[i])
    BY <1>3, <2>2, Index
  <2>. QED
    BY <2>3
<1>6. ASSUME NEW x \in Ids(s), x # Id(s[i]) PROVE x \in Ids(t)
  <2>1. PICK j \in 1..Len(s) : x = Id(s[j])
    BY Index
  <2>2. PICK k \in 1..Len(t) : j = at(k)
    BY <1>2, <1>6, <2>1
  <2>3. x = Id(t[k])
    BY <1>2, <2>1, <2>2
  <2>. QED
    BY <1>1, <2>3, Index
<1>. QED
  BY <1>1, <1>4, <1>5, <1>6 DEF t

\* A row added at the end
LEMMA AppendedRow ==
  ASSUME NEW s \in Seq(Row), NEW r \in Row
  PROVE  /\ Append(s, r) \in Seq(Row)
         /\ Ids(Append(s, r)) = Ids(s) \cup {Id(r)}
         /\ ~Doubled(s) /\ Id(r) \notin Ids(s) => ~Doubled(Append(s, r))
<1>. DEFINE t == Append(s, r)
<1>1. /\ t \in Seq(Row) /\ Len(t) = Len(s) + 1
      /\ \A i \in 1..Len(s) : t[i] = s[i]
      /\ t[Len(s) + 1] = r
  OBVIOUS
<1>. HIDE DEF t
<1>2. ASSUME NEW x \in Ids(t) PROVE x \in Ids(s) \cup {Id(r)}
  <2>1. PICK i \in 1..Len(t) : x = Id(t[i])
    BY <1>1, Index
  <2>2. i \in 1..Len(s) \/ i = Len(s) + 1
    BY <1>1
  <2>. QED
    BY <1>1, <2>1, <2>2, Index
<1>3. ASSUME NEW x \in Ids(s) PROVE x \in Ids(t)
  <2>1. PICK i \in 1..Len(s) : x = Id(s[i])
    BY Index
  <2>2. i \in 1..Len(t) /\ x = Id(t[i])
    BY <1>1, <2>1
  <2>. QED
    BY <1>1, <2>2, Index
<1>4. Id(r) \in Ids(t)
  <2>1. Len(t) \in 1..Len(t)
    BY <1>1
  <2>. QED
    BY <1>1, <2>1, Index
<1>5. ASSUME ~Doubled(s), Id(r) \notin Ids(s) PROVE ~Doubled(t)
  <2>1. \A i, j \in 1..Len(s) : Id(s[i]) = Id(s[j]) => i = j
    BY <1>5, Index
  <2>2. \A i \in 1..Len(s) : Id(s[i]) # Id(r)
    BY <1>5, Index
  <2>3. ASSUME NEW i \in 1..Len(t), NEW j \in 1..Len(t), Id(t[i]) = Id(t[j]) PROVE i = j
    <3>1. (i \in 1..Len(s) \/ i = Len(s) + 1) /\ (j \in 1..Len(s) \/ j = Len(s) + 1)
      BY <1>1
    <3>. QED
      BY <1>1, <2>1, <2>2, <2>3, <3>1
  <2>. QED
    BY <1>1, <2>3, Index
<1>. QED
  BY <1>1, <1>2, <1>3, <1>4, <1>5 DEF t

\* RowOf finds the first row of an id, if there is one.
LEMMA RowFound ==
  ASSUME NEW s \in Seq(Row), NEW id, NEW from \in Nat \ {0}
  PROVE  LET i == RowOf(s, id, from) IN
         \/ i = 0 /\ \A j \in 1..Len(s) : j >= from => Id(s[j]) # id
         \/ i \in 1..Len(s) /\ i >= from /\ Id(s[i]) = id
<1>. DEFINE found == {i \in from..Len(s) : Id(s[i]) = id}
<1>1. CASE found = {}
  <2>1. \A j \in 1..Len(s) : j >= from => j \in from..Len(s)
    OBVIOUS
  <2>. QED
    BY <1>1, <2>1 DEF RowOf
<1>2. CASE found # {}
  <2>1. found \in SUBSET Nat
    OBVIOUS
  <2>2. PICK n \in found : \A m \in found : n <= m
    BY <1>2, <2>1, LeastNat
  <2>3. RowOf(s, id, from) \in found
    BY <1>2, <2>2 DEF RowOf
  <2>. QED
    BY <2>3
<1>. QED
  BY <1>1, <1>2

-----------------------------------------------------------------------------
(* The order of the list                                                     *)

InOrder(rows) == \A i, j \in DOMAIN rows : i < j => Before(rows[i], rows[j])

LEMMA BeforeIsAnOrder ==
  /\ \A r, s \in Row : Id(r) # Id(s) => Before(r, s) \/ Before(s, r)
  /\ \A r, s, t \in Row : Before(r, s) /\ Before(s, t) => Before(r, t)
<1>1. \A r \in Row : /\ Published[r.article] \in Nat /\ r.article \in Nat
                     /\ r.copy \in BOOLEAN
  BY ListAssumption DEF Row
<1>2. ASSUME NEW r \in Row, NEW s \in Row, Id(r) # Id(s)
      PROVE  Before(r, s) \/ Before(s, r)
  BY <1>1, <1>2 DEF Before, Id
<1>3. ASSUME NEW r \in Row, NEW s \in Row, NEW t \in Row, Before(r, s), Before(s, t)
      PROVE  Before(r, t)
  BY <1>1, <1>3 DEF Before
<1>. QED
  BY <1>2, <1>3

\* A row that is placed keeps the list in order.
LEMMA PlacedRow ==
  ASSUME NEW s \in Seq(Row), NEW r \in Row
  PROVE  LET t == Placed(s, r) IN
         /\ t \in Seq(Row) /\ Members(t) = Members(s) \cup {r}
         /\ Ids(t) = Ids(s) \cup {Id(r)}
         /\ ~Doubled(t) <=> ~Doubled(s) /\ Id(r) \notin Ids(s)
         /\ InOrder(s) /\ Id(r) \notin Ids(s) => InOrder(t)
<1>. DEFINE later == {i \in DOMAIN s : Before(r, s[i])}
            place == IF later = {} THEN Len(s) + 1
                     ELSE CHOOSE i \in later : \A j \in later : i <= j
<1>1. /\ place \in 1..Len(s) + 1
      /\ place \in 1..Len(s) => Before(r, s[place])
      /\ \A i \in 1..Len(s) : i < place => ~Before(r, s[i])
  <2>1. DOMAIN s = 1..Len(s) /\ later \in SUBSET Nat
    BY Index
  <2>2. CASE later = {}
    BY <2>1, <2>2
  <2>3. CASE later # {}
    <3>1. PICK n \in later : \A m \in later : n <= m
      BY <2>1, <2>3, LeastNat
    <3>2. place \in later /\ \A j \in later : place <= j
      BY <2>3, <3>1
    <3>3. place \in 1..Len(s) /\ Before(r, s[place])
      BY <2>1, <3>2
    <3>4. ASSUME NEW i \in 1..Len(s), Before(r, s[i]) PROVE ~(i < place)
      <4>1. i \in later
        BY <2>1, <3>4
      <4>2. place <= i
        BY <3>2, <4>1
      <4>. HIDE DEF place
      <4>. QED
        BY <3>3, <4>2
    <3>. HIDE DEF place
    <3>. QED
      BY <3>3, <3>4
  <2>. QED
    BY <2>2, <2>3
<1>. HIDE DEF place
<1>. DEFINE t == InsertAt(s, place, r)
<1>2. Placed(s, r) = t
  BY DEF Placed, place
<1>3. /\ t \in Seq(Row) /\ Len(t) = Len(s) + 1 /\ Members(t) = Members(s) \cup {r}
      /\ Ids(t) = Ids(s) \cup {Id(r)}
      /\ ~Doubled(t) <=> ~Doubled(s) /\ Id(r) \notin Ids(s)
  BY <1>1, InsertedRow
<1>4. \A j \in 1..Len(s) + 1 : t[j] =
        IF j < place THEN s[j] ELSE IF j = place THEN r ELSE s[j - 1]
  BY <1>1, Insertion
<1>. HIDE DEF t
<1>5. ASSUME InOrder(s), Id(r) \notin Ids(s) PROVE InOrder(t)
  <2>1. /\ Len(s) \in Nat
        /\ \A i \in 1..Len(s) : s[i] \in Row /\ Id(s[i]) # Id(r)
        /\ \A i, j \in 1..Len(s) : i < j => Before(s[i], s[j])
        /\ DOMAIN t = 1..Len(t)
    <3>1. DOMAIN t = 1..Len(t) /\ DOMAIN s = 1..Len(s) /\ Len(s) \in Nat
      BY <1>3
    <3>2. \A i \in 1..Len(s) : s[i] \in Row /\ Id(s[i]) # Id(r)
      BY <1>5, Index
    <3>3. \A i, j \in 1..Len(s) : i < j => Before(s[i], s[j])
      BY <1>5, <3>1 DEF InOrder
    <3>. QED
      BY <3>1, <3>2, <3>3
  <2>2. \A i \in 1..Len(s) : i < place => Before(s[i], r)
    BY <1>1, <2>1, BeforeIsAnOrder
  <2>3. \A i \in 1..Len(s) : i >= place => Before(r, s[i])
    <3>1. TAKE i \in 1..Len(s)
    <3>2. HAVE i >= place
    <3>3. place \in 1..Len(s) /\ Before(r, s[place])
      BY <1>1, <2>1, <3>2
    <3>4. i = place \/ Before(s[place], s[i])
      BY <1>1, <2>1, <3>2, <3>3
    <3>. QED
      BY <2>1, <3>3, <3>4, BeforeIsAnOrder
  <2>4. ASSUME NEW i \in 1..Len(t), NEW j \in 1..Len(t), i < j
        PROVE  Before(t[i], t[j])
    <3>1. i \in 1..Len(s) + 1 /\ j \in 1..Len(s) + 1 /\ place \in 1..Len(s) + 1
      BY <1>1, <1>3
    <3>2. CASE j < place
      <4>1. t[i] = s[i] /\ t[j] = s[j] /\ i \in 1..Len(s) /\ j \in 1..Len(s)
        BY <1>4, <2>1, <2>4, <3>1, <3>2
      <4>. QED
        BY <2>1, <2>4, <4>1
    <3>3. CASE j = place
      <4>1. t[i] = s[i] /\ t[j] = r /\ i \in 1..Len(s)
        BY <1>4, <2>1, <2>4, <3>1, <3>3
      <4>. QED
        BY <2>2, <2>4, <3>3, <4>1
    <3>4. CASE j > place
      <4>1. t[j] = s[j - 1] /\ j - 1 \in 1..Len(s)
        BY <1>4, <2>1, <3>1, <3>4
      <4>2. CASE i < place
        <5>1. t[i] = s[i] /\ i \in 1..Len(s) /\ i < j - 1
          BY <1>4, <2>1, <3>1, <3>4, <4>2
        <5>. QED
          BY <2>1, <4>1, <5>1
      <4>3. CASE i = place
        <5>1. t[i] = r /\ j - 1 >= place
          BY <1>4, <2>1, <3>1, <3>4, <4>3
        <5>. QED
          BY <2>3, <4>1, <5>1
      <4>4. CASE i > place
        <5>1. t[i] = s[i - 1] /\ i - 1 \in 1..Len(s) /\ i - 1 < j - 1
          BY <1>4, <2>1, <2>4, <3>1, <4>4
        <5>. QED
          BY <2>1, <4>1, <5>1
      <4>. QED
        BY <3>1, <4>2, <4>3, <4>4
    <3>. QED
      BY <3>1, <3>2, <3>3, <3>4
  <2>. QED
    BY <2>1, <2>4 DEF InOrder
<1>. QED
  BY <1>2, <1>3, <1>5

-----------------------------------------------------------------------------
(* What each pass of a merge makes of the list                               *)

LEMMA NoRows ==
  /\ <<>> \in Seq(Row) /\ Ids(<<>>) = {} /\ ~Doubled(<<>>) /\ InOrder(<<>>)
BY DEF Ids, Doubled, InOrder

\* Ids of the first rows of a list without doubles are as many as the rows.
IdsTo(rows, k) == {Id(rows[i]) : i \in 1..k}

LEMMA IdsToNone ==
  ASSUME NEW rows
  PROVE  IdsTo(rows, 0) = {}
BY DEF IdsTo

LEMMA IdsCounted ==
  ASSUME NEW rows \in Seq(Row), ~Doubled(rows), NEW k \in 0..Len(rows)
  PROVE  /\ IsFiniteSet(IdsTo(rows, k)) /\ Cardinality(IdsTo(rows, k)) = k
         /\ IdsTo(rows, Len(rows)) = Ids(rows)
<1>. DEFINE g == [i \in 1..k |-> Id(rows[i])]
<1>1. g \in Bijection(1..k, IdsTo(rows, k))
  <2>1. \A i, j \in 1..k : g[i] = g[j] => i = j
    BY Index
  <2>2. g \in [1..k -> IdsTo(rows, k)] /\ \A x \in IdsTo(rows, k) : \E i \in 1..k : g[i] = x
    BY DEF IdsTo
  <2>. HIDE DEF g
  <2>3. IsInjective(g)
    BY <2>1, <2>2 DEF IsInjective
  <2>. QED
    BY <2>2, <2>3 DEF Bijection, Injection, Surjection
<1>2. IsFiniteSet(1..k) /\ Cardinality(1..k) = k
  BY FS_Interval
<1>3. IdsTo(rows, Len(rows)) = Ids(rows)
  BY DEF IdsTo, Ids
<1>. QED
  BY <1>1, <1>2, <1>3, FS_Bijection DEF ExistsBijection

\* The rows of a page are sorted; none is lost.
LEMMA SortedIs ==
  ASSUME NEW rows \in Seq(Row)
  PROVE  /\ Sorted(rows) \in Seq(Row)
         /\ Ids(Sorted(rows)) = Ids(rows)
         /\ Doubled(Sorted(rows)) <=> Doubled(rows)
         /\ ~Doubled(rows) => InOrder(Sorted(rows))
<1>1. PICK f : /\ f[0] = <<>>
               /\ \A k \in 1..Len(rows) : f[k] = Placed(f[k - 1], rows[k])
               /\ Sorted(rows) = f[Len(rows)]
  BY SortedInSteps
<1>. DEFINE Clash(k) == \E i, j \in 1..k : i # j /\ Id(rows[i]) = Id(rows[j])
            T == {k \in 0..Len(rows) :
                    /\ f[k] \in Seq(Row)
                    /\ Ids(f[k]) = IdsTo(rows, k)
                    /\ Doubled(f[k]) <=> Clash(k)
                    /\ ~Doubled(f[k]) => InOrder(f[k])}
<1>2. 0 \in T
  <2>1. ~Clash(0) /\ 0 \in 0..Len(rows)
    OBVIOUS
  <2>. QED
    BY <1>1, <2>1, NoRows, IdsToNone
<1>3. ASSUME NEW k \in 1..Len(rows), k - 1 \in T PROVE k \in T
  <2>1. /\ f[k - 1] \in Seq(Row) /\ Ids(f[k - 1]) = IdsTo(rows, k - 1)
        /\ Doubled(f[k - 1]) <=> Clash(k - 1)
        /\ ~Doubled(f[k - 1]) => InOrder(f[k - 1])
        /\ rows[k] \in Row
    BY <1>3
  <2>2. f[k] = Placed(f[k - 1], rows[k])
    BY <1>1
  <2>3. /\ f[k] \in Seq(Row)
        /\ Ids(f[k]) = Ids(f[k - 1]) \cup {Id(rows[k])}
        /\ ~Doubled(f[k]) <=> ~Doubled(f[k - 1]) /\ Id(rows[k]) \notin Ids(f[k - 1])
        /\ InOrder(f[k - 1]) /\ Id(rows[k]) \notin Ids(f[k - 1]) => InOrder(f[k])
    <3>. DEFINE s == f[k - 1]
                r == rows[k]
    <3>1. s \in Seq(Row) /\ r \in Row
      BY <2>1
    <3>. HIDE DEF s, r
    <3>2. /\ Placed(s, r) \in Seq(Row)
          /\ Ids(Placed(s, r)) = Ids(s) \cup {Id(r)}
          /\ ~Doubled(Placed(s, r)) <=> ~Doubled(s) /\ Id(r) \notin Ids(s)
          /\ InOrder(s) /\ Id(r) \notin Ids(s) => InOrder(Placed(s, r))
      BY <3>1, PlacedRow
    <3>. QED
      BY <2>2, <3>2 DEF s, r
  <2>4. \A i : i \in 1..k <=> i \in 1..(k - 1) \/ i = k
    OBVIOUS
  <2>5. IdsTo(rows, k) = IdsTo(rows, k - 1) \cup {Id(rows[k])}
    BY <2>4 DEF IdsTo
  <2>6. Clash(k) <=> Clash(k - 1) \/ Id(rows[k]) \in IdsTo(rows, k - 1)
    <3>1. k \notin 1..(k - 1)
      OBVIOUS
    <3>. QED
      BY <2>4, <3>1 DEF IdsTo
  <2>. HIDE DEF Clash
  <2>7. Doubled(f[k]) <=> Clash(k)
    BY <2>1, <2>3, <2>6
  <2>8. ~Doubled(f[k]) => InOrder(f[k])
    BY <2>1, <2>3
  <2>9. k \in 0..Len(rows) /\ f[k] \in Seq(Row) /\ Ids(f[k]) = IdsTo(rows, k)
    BY <2>1, <2>3, <2>5
  <2>. QED
    BY <2>7, <2>8, <2>9, Zenon
<1>. HIDE DEF T
<1>4. Len(rows) \in T
  <2>1. Len(rows) \in Nat
    OBVIOUS
  <2>2. \A k \in 1..Len(rows) : k - 1 \in T => k \in T
    BY <1>3
  <2>3. \A k \in 0..Len(rows) : k \in T
    BY <1>2, <2>1, <2>2, InductionTo
  <2>. QED
    BY <2>1, <2>3
<1>5. Clash(Len(rows)) <=> Doubled(rows)
  BY DEF Doubled
<1>6. IdsTo(rows, Len(rows)) = Ids(rows)
  BY DEF IdsTo, Ids
<1>. QED
  BY <1>1, <1>4, <1>5, <1>6 DEF T

\* A row of a page replaces the row of its id, or is added.
LEMMA PutRow ==
  ASSUME NEW s \in Seq(Row), NEW r \in Row
  PROVE  /\ Put(s, r) \in Seq(Row)
         /\ Ids(Put(s, r)) = Ids(s) \cup {Id(r)}
         /\ ~Doubled(s) => ~Doubled(Put(s, r))
<1>. DEFINE i == RowOf(s, Id(r), 1)
<1>1. \/ i = 0 /\ \A j \in 1..Len(s) : j >= 1 => Id(s[j]) # Id(r)
      \/ i \in 1..Len(s) /\ i >= 1 /\ Id(s[i]) = Id(r)
  BY RowFound
<1>2. Put(s, r) = IF i = 0 THEN Append(s, r) ELSE [s EXCEPT ![i] = r]
  BY DEF Put
<1>. HIDE DEF i
<1>3. CASE i = 0
  <2>1. Id(r) \notin Ids(s)
    BY <1>1, <1>3, Index
  <2>. QED
    BY <1>2, <1>3, <2>1, AppendedRow
<1>4. CASE i \in 1..Len(s) /\ Id(s[i]) = Id(r)
  <2>. DEFINE t == [s EXCEPT ![i] = r]
  <2>1. /\ t \in Seq(Row) /\ Len(t) = Len(s)
        /\ \A j \in 1..Len(s) : Id(t[j]) = Id(s[j])
    BY <1>4
  <2>2. Put(s, r) = t
    BY <1>2, <1>4
  <2>. HIDE DEF t
  <2>3. DOMAIN t = DOMAIN s /\ DOMAIN s = 1..Len(s)
    BY <2>1
  <2>4. Ids(t) = Ids(s) /\ (Doubled(t) <=> Doubled(s))
    BY <2>1, <2>3 DEF Ids, Doubled
  <2>5. Id(r) \in Ids(s)
    BY <1>4, Index
  <2>. QED
    BY <2>1, <2>2, <2>4, <2>5
<1>. QED
  BY <1>1, <1>3, <1>4

LEMMA ExtendedIs ==
  ASSUME NEW rows \in Seq(Row), NEW page \in Seq(Row)
  PROVE  /\ Extended(rows, page) \in Seq(Row)
         /\ Ids(Extended(rows, page)) = Ids(rows) \cup Ids(page)
         /\ ~Doubled(rows) => ~Doubled(Extended(rows, page))
<1>1. PICK f : /\ f[0] = rows
               /\ \A k \in 1..Len(page) : f[k] = Put(f[k - 1], page[k])
               /\ Extended(rows, page) = f[Len(page)]
  BY ExtendedInSteps
<1>. DEFINE T == {k \in 0..Len(page) :
                    /\ f[k] \in Seq(Row)
                    /\ Ids(f[k]) = Ids(rows) \cup IdsTo(page, k)
                    /\ ~Doubled(rows) => ~Doubled(f[k])}
<1>2. 0 \in T
  BY <1>1 DEF IdsTo
<1>3. ASSUME NEW k \in 1..Len(page), k - 1 \in T PROVE k \in T
  <2>1. /\ f[k - 1] \in Seq(Row) /\ Ids(f[k - 1]) = Ids(rows) \cup IdsTo(page, k - 1)
        /\ ~Doubled(rows) => ~Doubled(f[k - 1])
        /\ page[k] \in Row
    BY <1>3
  <2>2. f[k] = Put(f[k - 1], page[k])
    BY <1>1
  <2>3. /\ f[k] \in Seq(Row) /\ Ids(f[k]) = Ids(f[k - 1]) \cup {Id(page[k])}
        /\ ~Doubled(f[k - 1]) => ~Doubled(f[k])
    BY <2>1, <2>2, PutRow
  <2>4. \A i : i \in 1..k <=> i \in 1..(k - 1) \/ i = k
    OBVIOUS
  <2>5. IdsTo(page, k) = IdsTo(page, k - 1) \cup {Id(page[k])}
    BY <2>4 DEF IdsTo
  <2>. QED
    BY <2>1, <2>3, <2>5
<1>. HIDE DEF T
<1>4. Len(page) \in T
  <2>1. Len(page) \in Nat
    OBVIOUS
  <2>2. \A k \in 1..Len(page) : k - 1 \in T => k \in T
    BY <1>3
  <2>3. \A k \in 0..Len(page) : k \in T
    BY <1>2, <2>1, <2>2, InductionTo
  <2>. QED
    BY <2>1, <2>3
<1>5. IdsTo(page, Len(page)) = Ids(page)
  BY DEF IdsTo, Ids
<1>. QED
  BY <1>1, <1>4, <1>5 DEF T

LEMMA RemovedIs ==
  ASSUME NEW rows \in Seq(Row), ~Doubled(rows), NEW target
  PROVE  /\ Removed(rows, target) \in Seq(Row)
         /\ Ids(Removed(rows, target)) = Ids(rows) \cap Ids(target)
         /\ ~Doubled(Removed(rows, target))
<1>1. PICK f : /\ f[0] = <<>>
               /\ \A k \in 1..Len(rows) : f[k] = Kept(f[k - 1], rows[k], target)
               /\ Removed(rows, target) = f[Len(rows)]
  BY RemovedInSteps
<1>. DEFINE T == {k \in 0..Len(rows) :
                    /\ f[k] \in Seq(Row)
                    /\ Ids(f[k]) = IdsTo(rows, k) \cap Ids(target)
                    /\ ~Doubled(f[k])}
<1>2. 0 \in T
  <2>1. 0 \in 0..Len(rows)
    OBVIOUS
  <2>. QED
    BY <1>1, <2>1, NoRows, IdsToNone
<1>3. ASSUME NEW k \in 1..Len(rows), k - 1 \in T PROVE k \in T
  <2>1. /\ f[k - 1] \in Seq(Row) /\ Ids(f[k - 1]) = IdsTo(rows, k - 1) \cap Ids(target)
        /\ ~Doubled(f[k - 1]) /\ rows[k] \in Row
    BY <1>3
  <2>2. f[k] = IF Id(rows[k]) \in Ids(target) THEN Append(f[k - 1], rows[k]) ELSE f[k - 1]
    BY <1>1 DEF Kept
  <2>3. \A i : i \in 1..k <=> i \in 1..(k - 1) \/ i = k
    OBVIOUS
  <2>4. IdsTo(rows, k) = IdsTo(rows, k - 1) \cup {Id(rows[k])}
    BY <2>3 DEF IdsTo
  <2>5. Id(rows[k]) \notin IdsTo(rows, k - 1)
    <3>1. \A i \in 1..(k - 1) : i \in 1..Len(rows) /\ i # k
      OBVIOUS
    <3>. QED
      BY <3>1, Index DEF IdsTo
  <2>6. CASE Id(rows[k]) \in Ids(target)
    <3>1. /\ f[k] \in Seq(Row) /\ Ids(f[k]) = Ids(f[k - 1]) \cup {Id(rows[k])}
          /\ ~Doubled(f[k])
      BY <2>1, <2>2, <2>5, <2>6, AppendedRow
    <3>. QED
      BY <2>1, <2>4, <2>6, <3>1
  <2>7. CASE Id(rows[k]) \notin Ids(target)
    BY <2>1, <2>2, <2>4, <2>7
  <2>. QED
    BY <2>6, <2>7
<1>. HIDE DEF T
<1>4. Len(rows) \in T
  <2>1. Len(rows) \in Nat
    OBVIOUS
  <2>2. \A k \in 1..Len(rows) : k - 1 \in T => k \in T
    BY <1>3
  <2>3. \A k \in 0..Len(rows) : k \in T
    BY <1>2, <2>1, <2>2, InductionTo
  <2>. QED
    BY <2>1, <2>3
<1>5. IdsTo(rows, Len(rows)) = Ids(rows)
  BY DEF IdsTo, Ids
<1>. QED
  BY <1>1, <1>4, <1>5 DEF T

\* What the page has and the list has not is inserted at its place.
LEMMA InsertedIs ==
  ASSUME NEW rows \in Seq(Row), ~Doubled(rows), NEW target \in Seq(Row), ~Doubled(target)
  PROVE  /\ Inserted(rows, target) \in Seq(Row)
         /\ Ids(Inserted(rows, target)) = Ids(rows) \cup Ids(target)
         /\ ~Doubled(Inserted(rows, target))
<1>1. PICK f : /\ f[0] = rows
               /\ \A k \in 1..Len(target) : f[k] = Filled(f[k - 1], k, target)
               /\ Inserted(rows, target) = f[Len(target)]
  BY InsertedInSteps
<1>. DEFINE T == {k \in 0..Len(target) :
                    /\ f[k] \in Seq(Row)
                    /\ Ids(f[k]) = Ids(rows) \cup IdsTo(target, k)
                    /\ ~Doubled(f[k])}
<1>2. 0 \in T
  <2>1. 0 \in 0..Len(target)
    OBVIOUS
  <2>. QED
    BY <1>1, <2>1, IdsToNone
<1>3. ASSUME NEW k \in 1..Len(target), k - 1 \in T PROVE k \in T
  <2>. DEFINE s == f[k - 1]
  <2>1. /\ s \in Seq(Row) /\ Ids(s) = Ids(rows) \cup IdsTo(target, k - 1) /\ ~Doubled(s)
        /\ target[k] \in Row /\ k - 1 \in 0..Len(target) /\ k \in Nat
    BY <1>3
  <2>2. f[k] = IF Id(target[k]) \in Ids(s) THEN s ELSE InsertAt(s, k, target[k])
    BY <1>1 DEF Filled
  <2>. HIDE DEF s
  <2>3. \A i : i \in 1..k <=> i \in 1..(k - 1) \/ i = k
    OBVIOUS
  <2>4. IdsTo(target, k) = IdsTo(target, k - 1) \cup {Id(target[k])}
    BY <2>3 DEF IdsTo
  <2>5. k \in 1..Len(s) + 1
    <3>1. Cardinality(IdsTo(target, k - 1)) = k - 1
      BY <2>1, IdsCounted
    <3>2. Len(s) \in 0..Len(s) /\ Len(s) \in Nat
      BY <2>1
    <3>3. IsFiniteSet(Ids(s)) /\ Cardinality(Ids(s)) = Len(s)
      BY <2>1, <3>2, IdsCounted
    <3>4. Cardinality(IdsTo(target, k - 1)) <= Cardinality(Ids(s))
      BY <2>1, <3>3, FS_Subset
    <3>. QED
      BY <3>1, <3>2, <3>3, <3>4
  <2>6. CASE Id(target[k]) \in Ids(s)
    BY <2>1, <2>2, <2>4, <2>6
  <2>7. CASE Id(target[k]) \notin Ids(s)
    <3>1. /\ f[k] \in Seq(Row) /\ Ids(f[k]) = Ids(s) \cup {Id(target[k])}
          /\ ~Doubled(f[k])
      BY <2>1, <2>2, <2>5, <2>7, InsertedRow
    <3>. QED
      BY <2>1, <2>4, <3>1
  <2>. QED
    BY <2>6, <2>7
<1>. HIDE DEF T
<1>4. Len(target) \in T
  <2>1. Len(target) \in Nat
    OBVIOUS
  <2>2. \A k \in 1..Len(target) : k - 1 \in T => k \in T
    BY <1>3
  <2>3. \A k \in 0..Len(target) : k \in T
    BY <1>2, <2>1, <2>2, InductionTo
  <2>. QED
    BY <2>1, <2>3
<1>5. IdsTo(target, Len(target)) = Ids(target)
  BY DEF IdsTo, Ids
<1>. QED
  BY <1>1, <1>4, <1>5 DEF T

\* A list and a page without doubles that have the same ids are as long.
LEMMA SameIdsSameLength ==
  ASSUME NEW s \in Seq(Row), ~Doubled(s), NEW t \in Seq(Row), ~Doubled(t), Ids(s) = Ids(t)
  PROVE  Len(s) = Len(t)
<1>1. Len(s) \in 0..Len(s) /\ Len(t) \in 0..Len(t)
  OBVIOUS
<1>. QED
  BY <1>1, IdsCounted

\* Moving a row to its place leaves the rows before it alone.
LEMMA MovedRow ==
  ASSUME NEW target \in Seq(Row), ~Doubled(target), NEW k \in 1..Len(target),
         NEW s \in Seq(Row), ~Doubled(s), Len(s) = Len(target), Ids(s) = Ids(target),
         \A i \in 1..k - 1 : Id(s[i]) = Id(target[i])
  PROVE  LET t == Moved(s, k, target) IN
         /\ t \in Seq(Row) /\ ~Doubled(t) /\ Len(t) = Len(target) /\ Ids(t) = Ids(target)
         /\ \A i \in 1..k : Id(t[i]) = Id(target[i])
<1>. DEFINE from == RowOf(s, Id(target[k]), k)
<1>1. from \in 1..Len(s) /\ from >= k /\ Id(s[from]) = Id(target[k])
  <2>1. PICK m \in 1..Len(s) : Id(s[m]) = Id(target[k])
    <3>1. Id(target[k]) \in Ids(s)
      BY Index
    <3>. QED
      BY <3>1, Index
  <2>2. m >= k
    <3>1. CASE m \in 1..k - 1
      <4>1. m \in 1..Len(target) /\ m # k /\ Id(target[m]) = Id(target[k])
        BY <2>1, <3>1
      <4>. QED
        BY <4>1, Index
    <3>. QED
      BY <3>1
  <2>3. k \in Nat \ {0}
    OBVIOUS
  <2>. QED
    BY <2>1, <2>2, <2>3, RowFound
<1>. HIDE DEF from
<1>. DEFINE u == RemoveAt(s, from)
            t == InsertAt(u, k, s[from])
<1>2. Moved(s, k, target) = t
  <2>1. from # 0
    BY <1>1
  <2>. QED
    BY <2>1 DEF Moved, from
<1>3. /\ u \in Seq(Row) /\ Len(u) = Len(s) - 1 /\ ~Doubled(u)
      /\ Ids(u) = Ids(s) \ {Id(s[from])}
  BY <1>1, RemovedRow
<1>4. \A j \in 1..Len(s) - 1 : u[j] = IF j < from THEN s[j] ELSE s[j + 1]
  BY <1>1, Removal
<1>. HIDE DEF u
<1>5. k \in 1..Len(u) + 1 /\ s[from] \in Row
  BY <1>1, <1>3
<1>6. /\ t \in Seq(Row) /\ Len(t) = Len(u) + 1
      /\ Ids(t) = Ids(u) \cup {Id(s[from])}
      /\ ~Doubled(t)
  <2>1. Id(s[from]) \notin Ids(u)
    BY <1>3
  <2>. DEFINE r == s[from]
  <2>2. r \in Row
    BY <1>5
  <2>. HIDE DEF r
  <2>3. /\ InsertAt(u, k, r) \in Seq(Row) /\ Len(InsertAt(u, k, r)) = Len(u) + 1
        /\ Ids(InsertAt(u, k, r)) = Ids(u) \cup {Id(r)}
        /\ ~Doubled(InsertAt(u, k, r)) <=> ~Doubled(u) /\ Id(r) \notin Ids(u)
    BY <1>3, <1>5, <2>2, InsertedRow
  <2>. QED
    BY <1>3, <2>1, <2>3 DEF r
<1>7. \A j \in 1..Len(u) + 1 : t[j] =
        IF j < k THEN u[j] ELSE IF j = k THEN s[from] ELSE u[j - 1]
  <2>. DEFINE r == s[from]
  <2>1. r \in Row
    BY <1>5
  <2>. HIDE DEF r
  <2>2. \A j \in 1..Len(u) + 1 : InsertAt(u, k, r)[j] =
          IF j < k THEN u[j] ELSE IF j = k THEN r ELSE u[j - 1]
    BY <1>3, <1>5, <2>1, Insertion
  <2>. QED
    BY <2>2 DEF r
<1>. HIDE DEF t
<1>8. Id(s[from]) \in Ids(s)
  BY <1>1, Index
<1>9. ASSUME NEW i \in 1..k PROVE Id(t[i]) = Id(target[i])
  <2>1. CASE i = k
    BY <1>1, <1>5, <1>7, <2>1
  <2>2. CASE i # k
    <3>1. i \in 1..k - 1 /\ i \in 1..Len(s) - 1 /\ i < from /\ i < k /\ i \in 1..Len(u) + 1
      BY <1>1, <1>3, <2>2
    <3>2. t[i] = s[i]
      BY <1>4, <1>7, <3>1
    <3>. QED
      BY <3>1, <3>2
  <2>. QED
    BY <2>1, <2>2
<1>10. Len(t) = Len(target)
  BY <1>3, <1>6
<1>11. Ids(t) = Ids(target)
  BY <1>3, <1>6, <1>8
<1>. QED
  BY <1>2, <1>6, <1>9, <1>10, <1>11

\* The rows are moved until they are in the order of the page.
LEMMA ReorderedIs ==
  ASSUME NEW rows \in Seq(Row), ~Doubled(rows), NEW target \in Seq(Row), ~Doubled(target),
         Ids(rows) = Ids(target)
  PROVE  /\ Reordered(rows, target) \in Seq(Row)
         /\ Len(Reordered(rows, target)) = Len(target)
         /\ \A i \in 1..Len(target) : Id(Reordered(rows, target)[i]) = Id(target[i])
<1>1. PICK f : /\ f[0] = rows
               /\ \A k \in 1..Len(target) : f[k] = Moved(f[k - 1], k, target)
               /\ Reordered(rows, target) = f[Len(target)]
  BY ReorderedInSteps
<1>. DEFINE T == {k \in 0..Len(target) :
                    /\ f[k] \in Seq(Row) /\ ~Doubled(f[k])
                    /\ Len(f[k]) = Len(target) /\ Ids(f[k]) = Ids(target)
                    /\ \A i \in 1..k : Id(f[k][i]) = Id(target[i])}
<1>2. 0 \in T
  <2>1. 0 \in 0..Len(target) /\ 1..0 = {}
    OBVIOUS
  <2>2. Len(rows) = Len(target)
    BY SameIdsSameLength
  <2>. QED
    BY <1>1, <2>1, <2>2
<1>3. ASSUME NEW k \in 1..Len(target), k - 1 \in T PROVE k \in T
  <2>. DEFINE s == f[k - 1]
  <2>1. /\ s \in Seq(Row) /\ ~Doubled(s) /\ Len(s) = Len(target) /\ Ids(s) = Ids(target)
        /\ \A i \in 1..k - 1 : Id(s[i]) = Id(target[i])
    BY <1>3
  <2>2. f[k] = Moved(s, k, target)
    BY <1>1
  <2>. HIDE DEF s
  <2>3. /\ f[k] \in Seq(Row) /\ ~Doubled(f[k])
        /\ Len(f[k]) = Len(target) /\ Ids(f[k]) = Ids(target)
        /\ \A i \in 1..k : Id(f[k][i]) = Id(target[i])
    BY <2>1, <2>2, MovedRow
  <2>4. k \in 0..Len(target)
    OBVIOUS
  <2>. QED
    BY <2>3, <2>4
<1>. HIDE DEF T
<1>4. Len(target) \in T
  <2>1. Len(target) \in Nat
    OBVIOUS
  <2>2. \A k \in 1..Len(target) : k - 1 \in T => k \in T
    BY <1>3
  <2>3. \A k \in 0..Len(target) : k \in T
    BY <1>2, <2>1, <2>2, InductionTo
  <2>. QED
    BY <2>1, <2>3
<1>. QED
  BY <1>1, <1>4 DEF T

\* mergeArticles: rows removed, inserted, moved and overwritten one at a time are
\* in the end the page, whatever the list was. Only an id twice in the page, or
\* a row that is neither in the page nor to be removed, could spoil it.
THEOREM MergeIsTarget ==
  ASSUME NEW rows \in Seq(Row), ~Doubled(rows), NEW target \in Seq(Row), ~Doubled(target),
         NEW removing \in BOOLEAN, removing \/ Ids(rows) \subseteq Ids(target)
  PROVE  Merged(rows, target, removing) = target
<1>. DEFINE kept == IF removing THEN Removed(rows, target) ELSE rows
            all  == Inserted(kept, target)
            done == Reordered(all, target)
<1>1. kept \in Seq(Row) /\ ~Doubled(kept) /\ Ids(kept) \subseteq Ids(target)
  BY RemovedIs
<1>. HIDE DEF kept
<1>2. all \in Seq(Row) /\ ~Doubled(all) /\ Ids(all) = Ids(target)
  <2>1. all \in Seq(Row) /\ ~Doubled(all) /\ Ids(all) = Ids(kept) \cup Ids(target)
    BY <1>1, InsertedIs
  <2>. QED
    BY <1>1, <2>1
<1>. HIDE DEF all
<1>3. /\ done \in Seq(Row) /\ Len(done) = Len(target)
      /\ \A i \in 1..Len(target) : Id(done[i]) = Id(target[i])
  BY <1>2, ReorderedIs
<1>4. Merged(rows, target, removing) = Copied(done, target)
  BY DEF Merged, kept, all
<1>. HIDE DEF done
<1>5. DOMAIN done = 1..Len(target) /\ DOMAIN target = 1..Len(target)
  BY <1>3
<1>6. Copied(done, target) = [i \in 1..Len(target) |-> target[i]]
  BY <1>3, <1>5 DEF Copied
<1>7. target = [i \in 1..Len(target) |-> target[i]]
  OBVIOUS
<1>. QED
  BY <1>4, <1>6, <1>7

\* What the list is to become is in order, has nothing but the page and what the
\* list had, and keeps the article that is being read; it has an id twice only
\* if the page that replaces the list has.
LEMMA TargetIs ==
  ASSUME NEW rows \in Seq(Row), ~Doubled(rows), NEW n \in 0..Len(rows), NEW page \in Seq(Row),
         NEW removing \in BOOLEAN
  PROVE  LET t == Target(rows, n, page, removing) IN
         /\ t \in Seq(Row) /\ (~Doubled(t) => InOrder(t))
         /\ Ids(t) \subseteq Ids(rows) \cup Ids(page)
         /\ removing \/ Ids(rows) \subseteq Ids(t)
         /\ n # 0 => Id(rows[n]) \in Ids(t)
         /\ Doubled(t) => removing /\ Doubled(page)
<1>. DEFINE base == IF removing THEN page ELSE Extended(rows, page)
            kept == IF removing /\ n # 0 /\ Id(rows[n]) \notin Ids(page)
                      THEN <<rows[n]>> ELSE <<>>
            all  == base \o kept
<1>1. Target(rows, n, page, removing) = Sorted(all)
  BY DEF Target
<1>2. /\ base \in Seq(Row) /\ Ids(page) \subseteq Ids(base)
      /\ Ids(base) \subseteq Ids(rows) \cup Ids(page)
      /\ ~removing => ~Doubled(base) /\ Ids(rows) \subseteq Ids(base)
      /\ removing => base = page
  BY ExtendedIs
<1>. HIDE DEF base
<1>3. n # 0 => rows[n] \in Row /\ Id(rows[n]) \in Ids(rows)
  BY Index
<1>4. /\ all \in Seq(Row) /\ Ids(all) \subseteq Ids(rows) \cup Ids(page)
      /\ Ids(base) \subseteq Ids(all)
      /\ n # 0 => Id(rows[n]) \in Ids(all)
      /\ ~Doubled(base) => ~Doubled(all)
  <2>1. CASE removing /\ n # 0 /\ Id(rows[n]) \notin Ids(page)
    <3>1. all = Append(base, rows[n])
      BY <1>2, <1>3, <2>1
    <3>. HIDE DEF all
    <3>2. all \in Seq(Row) /\ Ids(all) = Ids(base) \cup {Id(rows[n])}
      BY <1>2, <1>3, <2>1, <3>1, AppendedRow
    <3>3. ~Doubled(base) => ~Doubled(all)
      BY <1>2, <1>3, <2>1, <3>1, AppendedRow
    <3>. QED
      BY <1>2, <1>3, <2>1, <3>2, <3>3
  <2>2. CASE ~(removing /\ n # 0 /\ Id(rows[n]) \notin Ids(page))
    <3>1. all = base
      BY <1>2, <2>2
    <3>. HIDE DEF all
    <3>. QED
      BY <1>2, <1>3, <2>2, <3>1
  <2>. QED
    BY <2>1, <2>2
<1>. HIDE DEF all
<1>5. /\ Sorted(all) \in Seq(Row) /\ Ids(Sorted(all)) = Ids(all)
      /\ Doubled(Sorted(all)) <=> Doubled(all)
      /\ ~Doubled(all) => InOrder(Sorted(all))
  BY <1>4, SortedIs
<1>. QED
  BY <1>1, <1>2, <1>4, <1>5

-----------------------------------------------------------------------------
(* Bags                                                                      *)

LEMMA Added ==
  ASSUME NEW bag, IsABag(bag), NEW x
  PROVE  IsABag(BagAdd(bag, x)) /\ BagToSet(BagAdd(bag, x)) = BagToSet(bag) \cup {x}
<1>. DEFINE b == BagAdd(bag, x)
<1>1. b = [e \in DOMAIN bag \cup {x} |-> (IF e \in DOMAIN bag THEN bag[e] ELSE 0)
                                         + (IF e \in {x} THEN 1 ELSE 0)]
  BY DEF BagAdd, (+), SetToBag
<1>. HIDE DEF b
<1>2. DOMAIN b = DOMAIN bag \cup {x}
  BY <1>1
<1>3. \A e \in DOMAIN bag : bag[e] \in Nat /\ bag[e] > 0
  BY DEF IsABag
<1>4. \A e \in DOMAIN b : b[e] \in {n \in Nat : n > 0}
  BY <1>1, <1>2, <1>3
<1>5. b = [e \in DOMAIN b |-> b[e]]
  BY <1>1
<1>. QED
  BY <1>2, <1>4, <1>5 DEF IsABag, BagToSet, b

LEMMA AddedSet ==
  ASSUME NEW bag, IsABag(bag), NEW X
  PROVE  /\ IsABag(bag (+) SetToBag(X))
         /\ BagToSet(bag (+) SetToBag(X)) = BagToSet(bag) \cup X
<1>. DEFINE b == bag (+) SetToBag(X)
<1>1. b = [e \in DOMAIN bag \cup X |-> (IF e \in DOMAIN bag THEN bag[e] ELSE 0)
                                       + (IF e \in X THEN 1 ELSE 0)]
  BY DEF (+), SetToBag
<1>. HIDE DEF b
<1>2. DOMAIN b = DOMAIN bag \cup X
  BY <1>1
<1>3. \A e \in DOMAIN bag : bag[e] \in Nat /\ bag[e] > 0
  BY DEF IsABag
<1>4. \A e \in DOMAIN b : b[e] \in {n \in Nat : n > 0}
  BY <1>1, <1>2, <1>3
<1>5. b = [e \in DOMAIN b |-> b[e]]
  BY <1>1
<1>. QED
  BY <1>2, <1>4, <1>5 DEF IsABag, BagToSet, b

LEMMA Taken ==
  ASSUME NEW bag, IsABag(bag), NEW x
  PROVE  /\ IsABag(BagRemove(bag, x))
         /\ BagToSet(BagRemove(bag, x)) \subseteq BagToSet(bag)
         /\ BagToSet(bag) \ {x} \subseteq BagToSet(BagRemove(bag, x))
<1>. DEFINE less == [e \in DOMAIN bag |-> IF e \in {x} THEN bag[e] - 1 ELSE bag[e]]
            b    == BagRemove(bag, x)
<1>1. b = [e \in {d \in DOMAIN less : less[d] > 0} |-> less[e]]
  <2>1. less = [e \in DOMAIN bag |-> IF e \in DOMAIN SetToBag({x})
                                       THEN bag[e] - SetToBag({x})[e] ELSE bag[e]]
    BY DEF SetToBag
  <2>. QED
    BY <2>1 DEF BagRemove, (-)
<1>2. \A e \in DOMAIN bag : bag[e] \in Nat /\ bag[e] > 0
  BY DEF IsABag
<1>3. DOMAIN less = DOMAIN bag /\ \A e \in DOMAIN bag : less[e] \in Int /\ (e # x => less[e] > 0)
  BY <1>2
<1>. HIDE DEF b, less
<1>4. /\ DOMAIN b = {d \in DOMAIN less : less[d] > 0}
      /\ \A e \in DOMAIN b : b[e] = less[e]
      /\ b = [e \in DOMAIN b |-> b[e]]
  BY <1>1
<1>5. \A e \in DOMAIN b : b[e] \in {n \in Nat : n > 0}
  BY <1>3, <1>4
<1>6. IsABag(b)
  BY <1>4, <1>5 DEF IsABag
<1>7. DOMAIN b \subseteq DOMAIN bag /\ DOMAIN bag \ {x} \subseteq DOMAIN b
  BY <1>3, <1>4
<1>. QED
  BY <1>6, <1>7 DEF BagToSet, b

LEMMA Emptied ==
  /\ IsABag(EmptyBag) /\ BagToSet(EmptyBag) = {}
  /\ \A x : IsABag(SetToBag({x})) /\ BagToSet(SetToBag({x})) = {x}
<1>1. BagToSet(EmptyBag) = {} /\ \A x : BagToSet(SetToBag({x})) = {x}
  BY DEF BagToSet, EmptyBag, SetToBag
<1>2. \A X : SetToBag(X) \in [X -> {n \in Nat : n > 0}] /\ DOMAIN SetToBag(X) = X
  BY DEF SetToBag
<1>. QED
  BY <1>1, <1>2 DEF IsABag, EmptyBag

\* One job, or what becomes of it, in the place of another.
LEMMA Replaced ==
  ASSUME NEW bag, IsABag(bag), NEW x, NEW y
  PROVE  /\ IsABag(BagAdd(BagRemove(bag, x), y))
         /\ BagToSet(BagAdd(BagRemove(bag, x), y)) \subseteq BagToSet(bag) \cup {y}
         /\ (BagToSet(bag) \ {x}) \cup {y} \subseteq BagToSet(BagAdd(BagRemove(bag, x), y))
<1>1. /\ IsABag(BagRemove(bag, x))
      /\ BagToSet(BagRemove(bag, x)) \subseteq BagToSet(bag)
      /\ BagToSet(bag) \ {x} \subseteq BagToSet(BagRemove(bag, x))
  BY Taken
<1>2. /\ IsABag(BagAdd(BagRemove(bag, x), y))
      /\ BagToSet(BagAdd(BagRemove(bag, x), y)) = BagToSet(BagRemove(bag, x)) \cup {y}
  BY <1>1, Added
<1>. QED
  BY <1>1, <1>2

-----------------------------------------------------------------------------
(* Types                                                                     *)

TablesTyped ==
  /\ DOMAIN articles \subseteq Articles /\ articles \in [DOMAIN articles -> BOOLEAN]
  /\ DOMAIN queued \subseteq Articles /\ queued \in [DOMAIN queued -> BOOLEAN]

NoteType == [node : Nodes \cup {Everywhere}, from : {"own", "other", "scheduler"}]

NotesTyped == IsABag(notes) /\ BagToSet(notes) \subseteq NoteType

\* Rows that belong to a view
OfView(v, rows) ==
  \A i \in DOMAIN rows :
    /\ rows[i].copy = (v.node = Queue) /\ rows[i].article \in Of(v.node) \cap Titles[v.query]
    /\ ~(v.unread /\ rows[i].read)

ListTyped ==
  view \in Views /\ list \in Seq(Row) /\ ~Doubled(list) /\ row \in 0..Len(list)

Stored == [rows : Seq(Row), next : Nat, more : BOOLEAN]

CacheTyped ==
  /\ DOMAIN cache \subseteq Views
  /\ \A v \in DOMAIN cache : cache[v] \in Stored /\ OfView(v, cache[v].rows)

PagerTyped == loading \in BOOLEAN /\ more \in BOOLEAN /\ next \in Nat

LapsesType ==
  [missed : BOOLEAN, writes : Nat, based : Nat, overlap : BOOLEAN, stuck : BOOLEAN,
   wrong : BOOLEAN, commits : Nat, counted : Nat, silent : Nat]

HistoryTyped == lapses \in LapsesType /\ count \in Nat /\ broken \in BOOLEAN

PageAsked  == [job : {"page"}, state : {"asked"}, view : Views, append : BOOLEAN, offset : Nat]
PageDone   == [job : {"page"}, state : {"done"}, view : Views, append : BOOLEAN,
               rows : Seq(Row), next : Nat, more : BOOLEAN, writes : Int]
PageLost   == [job : {"page"}, state : {"failed"}, view : Views, append : BOOLEAN]
CountOpen  == [job : {"count"}, state : {"asked", "failed"}]
CountDone  == [job : {"count", "connect"}, state : {"done"}, value : Nat, commits : Nat]
Connecting == [job : {"connect"}, state : {"asked"}]
Refreshing == [job : {"refresh"}, state : {"asked", "done", "failed"}, feed : Feeds]
Reloading  == [job : {"reload"}, state : {"checked"}, view : Views]
Writing    == [job : {"write"}, state : {"asked", "done", "failed"},
               op : {"read", "unread", "queue", "unqueue", "all"}, node : Nodes,
               article : Articles \cup {0}, copy : BOOLEAN]

JobType(j) ==
  \/ j \in PageAsked
  \/ j \in PageDone /\ OfView(j.view, j.rows) /\ ~Doubled(j.rows)
  \/ j \in PageLost \/ j \in CountOpen \/ j \in CountDone \/ j \in Connecting
  \/ j \in Refreshing \/ j \in Reloading \/ j \in Writing

JobsTyped(bag) == IsABag(bag) /\ \A j \in BagToSet(bag) : JobType(j)

\* What may still be handled
AstrayTyped == IsABag(astray) /\ BagToSet(astray) \subseteq Writing \cup Refreshing

Typed ==
  /\ TablesTyped /\ NotesTyped /\ ListTyped /\ CacheTyped /\ PagerTyped /\ HistoryTyped
  /\ JobsTyped(jobs) /\ left \in Scenario

\* What a job is, by its name and state.
LEMMA JobKinds ==
  ASSUME NEW j, JobType(j)
  PROVE  /\ j.job = "page" /\ j.state = "asked" => j \in PageAsked
         /\ j.job = "page" /\ j.state = "done" =>
              j \in PageDone /\ OfView(j.view, j.rows) /\ ~Doubled(j.rows)
         /\ j.job = "page" /\ j.state = "failed" => j \in PageLost
         /\ j.job = "count" /\ j.state # "done" => j \in CountOpen
         /\ j.job \in {"count", "connect"} /\ j.state = "done" => j \in CountDone
         /\ j.job = "connect" /\ j.state # "done" => j \in Connecting
         /\ j.job = "refresh" => j \in Refreshing
         /\ j.job = "reload" => j \in Reloading
         /\ j.job = "write" => j \in Writing
BY DEF JobType, PageAsked, PageDone, PageLost, CountOpen, CountDone, Connecting, Refreshing,
       Reloading, Writing

LEMMA ViewParts ==
  \A v \in Views : v.node \in Nodes /\ v.query \in DOMAIN Titles /\ v.unread \in BOOLEAN
BY DEF Views

LEMMA FeedsAre ==
  /\ Feeds \subseteq Nodes /\ DOMAIN Holds \subseteq Nodes /\ Root \in Nodes /\ Queue \in Nodes
  /\ \A a \in Articles : FeedOf(a) \in Feeds /\ a \in Holds[FeedOf(a)]
  /\ \A n \in Nodes : Of(n) \subseteq Articles
  /\ Of(Queue) = Articles /\ Of(Root) = Articles
  /\ Queue \notin Feeds /\ Root \notin Feeds
<1>1. /\ Feeds \subseteq Nodes /\ DOMAIN Holds \subseteq Nodes /\ Root \in Nodes /\ Queue \in Nodes
  BY DEF Feeds, Nodes
<1>2. \A a \in Articles : FeedOf(a) \in Feeds /\ a \in Holds[FeedOf(a)]
  <2>1. TAKE a \in Articles
  <2>2. \E f \in Feeds : a \in Holds[f]
    BY PaneAssumption
  <2>. QED
    BY <2>2 DEF FeedOf
<1>3. \A n : Of(n) \subseteq Articles
  BY PaneAssumption DEF Of
<1>4. Of(Queue) = Articles /\ Of(Root) = Articles /\ Queue \notin Feeds /\ Root \notin Feeds
  BY PaneAssumption DEF Of, Feeds
<1>. QED
  BY <1>1, <1>2, <1>3, <1>4

\* A view's rows at the server: the article tells one from another.
LEMMA ListedAre ==
  ASSUME TablesTyped, NEW v \in Views
  PROVE  /\ IsFiniteSet(Listed(v)) /\ Listed(v) \subseteq Row
         /\ \A r \in Listed(v) : /\ r.copy = (v.node = Queue)
                                 /\ r.article \in Of(v.node) \cap Titles[v.query]
                                 /\ ~(v.unread /\ r.read)
         /\ \A r, s \in Listed(v) : r.article = s.article => r = s
<1>. DEFINE L == Listed(v)
<1>1. \A r \in L : r \in Rows(v.node) /\ r.article \in Titles[v.query] /\ ~(v.unread /\ r.read)
  BY DEF Listed
<1>2. ASSUME NEW r \in Rows(v.node)
      PROVE  /\ r \in Row /\ r.copy = (v.node = Queue) /\ r.article \in Of(v.node)
             /\ \A s \in Rows(v.node) : r.article = s.article => r = s
  <2>1. CASE v.node = Queue
    <3>1. Rows(v.node) = {[article |-> a, copy |-> TRUE, read |-> queued[a], queued |-> TRUE] :
                            a \in DOMAIN queued}
      BY <2>1 DEF Rows
    <3>2. \A a \in DOMAIN queued : a \in Articles /\ queued[a] \in BOOLEAN
      BY DEF TablesTyped
    <3>3. PICK a \in DOMAIN queued :
            r = [article |-> a, copy |-> TRUE, read |-> queued[a], queued |-> TRUE]
      BY <3>1
    <3>4. r \in Row /\ r.copy = (v.node = Queue) /\ r.article \in Of(v.node)
      BY <2>1, <3>2, <3>3, FeedsAre DEF Row
    <3>5. ASSUME NEW s \in Rows(v.node), r.article = s.article PROVE r = s
      <4>1. PICK b \in DOMAIN queued :
              s = [article |-> b, copy |-> TRUE, read |-> queued[b], queued |-> TRUE]
        BY <3>1
      <4>2. a = b
        BY <3>3, <3>5, <4>1
      <4>. QED
        BY <3>3, <4>1, <4>2
    <3>. QED
      BY <3>4, <3>5
  <2>2. CASE v.node # Queue
    <3>1. Rows(v.node) = {[article |-> a, copy |-> FALSE, read |-> articles[a],
                           queued |-> a \in DOMAIN queued] : a \in DOMAIN articles \cap Of(v.node)}
      BY <2>2 DEF Rows
    <3>2. \A a \in DOMAIN articles : a \in Articles /\ articles[a] \in BOOLEAN
      BY DEF TablesTyped
    <3>3. PICK a \in DOMAIN articles \cap Of(v.node) :
            r = [article |-> a, copy |-> FALSE, read |-> articles[a],
                 queued |-> a \in DOMAIN queued]
      BY <3>1
    <3>4. r \in Row /\ r.copy = (v.node = Queue) /\ r.article \in Of(v.node)
      <4>1. r.copy = FALSE /\ r.article = a
        BY <3>3
      <4>2. a \in Articles /\ a \in Of(v.node) /\ articles[a] \in BOOLEAN
        BY <3>2
      <4>3. r \in Row
        <5>1. (a \in DOMAIN queued) \in BOOLEAN
          OBVIOUS
        <5>. QED
          BY <3>3, <4>2, <5>1 DEF Row
      <4>4. (v.node = Queue) = FALSE
        BY <2>2
      <4>. QED
        BY <4>1, <4>2, <4>3, <4>4
    <3>5. ASSUME NEW s \in Rows(v.node), r.article = s.article PROVE r = s
      <4>1. PICK b \in DOMAIN articles \cap Of(v.node) :
              s = [article |-> b, copy |-> FALSE, read |-> articles[b],
                 queued |-> b \in DOMAIN queued]
        BY <3>1
      <4>2. a = b
        BY <3>3, <3>5, <4>1
      <4>. QED
        BY <3>3, <4>1, <4>2
    <3>. QED
      BY <3>4, <3>5
  <2>. QED
    BY <2>1, <2>2
<1>3. L \subseteq Row /\ \A r, s \in L : r.article = s.article => r = s
  BY <1>1, <1>2
<1>4. \A r \in L : /\ r.copy = (v.node = Queue) /\ r.article \in Of(v.node) \cap Titles[v.query]
                  /\ ~(v.unread /\ r.read)
  BY <1>1, <1>2
<1>. HIDE DEF L
<1>5. IsFiniteSet(L)
  <2>. DEFINE g == [r \in L |-> r.article]
  <2>1. \A r \in L : r.article \in Articles
    BY <1>3 DEF Row
  <2>2. g \in [L -> Articles] /\ DOMAIN g = L /\ \A r, s \in L : g[r] = g[s] => r = s
    BY <1>3, <2>1
  <2>. HIDE DEF g
  <2>3. g \in Injection(L, Articles)
    BY <2>2 DEF Injection, IsInjective
  <2>. QED
    BY <2>3, ListAssumption, FS_Injection
<1>. QED
  BY <1>3, <1>4, <1>5 DEF L

\* A finite set in a strict total order is listed by the number of those before.
LEMMA ListingInOrder ==
  ASSUME TablesTyped, NEW v \in Views
  PROVE  LET all == Listing(v) IN
         /\ all \in Seq(Row) /\ OfView(v, all) /\ ~Doubled(all)
         /\ \A i \in 1..Len(all) :
              /\ all[i] \in Listed(v)
              /\ Cardinality({s \in Listed(v) : ListedBefore(s, all[i])}) = i - 1
         /\ \A r \in Listed(v) : \E i \in 1..Len(all) : r = all[i]
<1>. DEFINE L     == Listed(v)
            n     == Cardinality(L)
            up(r) == {s \in L : ListedBefore(s, r)}
            place(r) == Cardinality(up(r)) + 1
<1>1. /\ IsFiniteSet(L) /\ L \subseteq Row
      /\ \A r \in L : /\ r.copy = (v.node = Queue) /\ r.article \in Of(v.node) \cap Titles[v.query]
                     /\ ~(v.unread /\ r.read)
      /\ \A r, s \in L : r.article = s.article => r = s
  BY ListedAre
<1>2. Listing(v) = [i \in 1..n |-> CHOOSE r \in L : place(r) = i]
  BY DEF Listing
<1>3. /\ \A r \in L : ~ListedBefore(r, r)
      /\ \A r, s \in L : r # s => ListedBefore(r, s) \/ ListedBefore(s, r)
      /\ \A r, s, t \in L : ListedBefore(r, s) /\ ListedBefore(s, t) => ListedBefore(r, t)
  <2>1. \A r \in L : r.article \in Nat /\ Published[r.article] \in Nat
    BY <1>1, ListAssumption DEF Row
  <2>. QED
    BY <1>1, <2>1 DEF ListedBefore
<1>. HIDE DEF L
<1>4. n \in Nat
  BY <1>1, FS_CardinalityType
<1>. HIDE DEF n
<1>5. ASSUME NEW r \in L
      PROVE  place(r) \in 1..n /\ Cardinality(up(r)) \in Nat /\ IsFiniteSet(up(r))
  <2>1. IsFiniteSet(L \ {r}) /\ Cardinality(L \ {r}) = n - 1
    BY <1>1, FS_RemoveElement DEF n
  <2>2. up(r) \in SUBSET (L \ {r})
    BY <1>3
  <2>3. IsFiniteSet(up(r)) /\ Cardinality(up(r)) <= n - 1
    BY <2>1, <2>2, FS_Subset
  <2>4. Cardinality(up(r)) \in Nat
    BY <2>3, FS_CardinalityType
  <2>. QED
    BY <1>4, <2>3, <2>4
<1>6. ASSUME NEW r \in L, NEW s \in L, ListedBefore(r, s)
      PROVE  place(r) # place(s)
  <2>1. up(r) \in SUBSET up(s) /\ r \in up(s) /\ r \notin up(r)
    BY <1>3, <1>6
  <2>2. Cardinality(up(r)) # Cardinality(up(s))
    BY <1>5, <2>1, FS_Subset
  <2>. QED
    BY <1>5, <2>2
<1>. DEFINE g == [r \in L |-> place(r)]
<1>7. g \in Surjection(L, 1..n)
  <2>1. g \in [L -> 1..n] /\ DOMAIN g = L
    BY <1>5
  <2>2. \A r, s \in L : g[r] = g[s] => r = s
    BY <1>3, <1>6
  <2>. HIDE DEF g
  <2>3. g \in Injection(L, 1..n)
    BY <2>1, <2>2 DEF Injection, IsInjective
  <2>4. IsFiniteSet(1..n) /\ Cardinality(1..n) = Cardinality(L)
    BY <1>4, FS_Interval DEF n
  <2>. QED
    BY <2>3, <2>4, FS_Injection
<1>8. ASSUME NEW i \in 1..n PROVE \E r \in L : place(r) = i
  BY <1>7 DEF Surjection
<1>. HIDE DEF g, place
<1>. DEFINE all == Listing(v)
<1>9. \A i \in 1..n : all[i] \in L /\ place(all[i]) = i
  BY <1>2, <1>8
<1>10. all = [i \in 1..n |-> all[i]] /\ DOMAIN all = 1..n
  BY <1>2
<1>. HIDE DEF all
<1>11. all \in Seq(Row) /\ Len(all) = n
  <2>1. \A i \in 1..n : all[i] \in Row
    BY <1>1, <1>9
  <2>. QED
    BY <1>4, <1>10, <2>1
<1>12. OfView(v, all)
  BY <1>1, <1>9, <1>10 DEF OfView
<1>13. ~Doubled(all)
  <2>1. \A i, j \in 1..n : Id(all[i]) = Id(all[j]) => i = j
    <3>1. TAKE i \in 1..n, j \in 1..n
    <3>2. HAVE Id(all[i]) = Id(all[j])
    <3>3. all[i].article = all[j].article
      BY <3>2 DEF Id
    <3>4. all[i] = all[j]
      BY <1>1, <1>9, <3>3
    <3>. QED
      BY <1>9, <3>4
  <2>. QED
    BY <1>11, <2>1, Index
<1>14. \A r \in L : \E i \in 1..n : r = all[i]
  <2>1. TAKE r \in L
  <2>2. place(r) \in 1..n
    BY <1>5
  <2>3. all[place(r)] \in L /\ place(all[place(r)]) = place(r)
    BY <1>9, <2>2
  <2>4. r = all[place(r)]
    BY <1>3, <1>6, <2>3
  <2>. QED
    BY <2>2, <2>4
<1>15. \A i \in 1..n : all[i] \in L /\ Cardinality(up(all[i])) = i - 1
  <2>1. TAKE i \in 1..n
  <2>2. all[i] \in L /\ place(all[i]) = i
    BY <1>9
  <2>3. Cardinality(up(all[i])) \in Nat
    BY <1>5, <2>2
  <2>. QED
    BY <2>2, <2>3 DEF place
<1>. QED
  BY <1>11, <1>12, <1>13, <1>14, <1>15 DEF all, L

LEMMA ListingIs ==
  ASSUME TablesTyped, NEW v \in Views
  PROVE  Listing(v) \in Seq(Row) /\ OfView(v, Listing(v)) /\ ~Doubled(Listing(v))
BY ListingInOrder

LEMMA UnreadIs ==
  ASSUME TablesTyped
  PROVE  Unread \in Nat
<1>1. {a \in DOMAIN articles : ~articles[a]} \in SUBSET Articles
  BY DEF TablesTyped
<1>2. IsFiniteSet({a \in DOMAIN articles : ~articles[a]})
  BY <1>1, ListAssumption, FS_Subset
<1>. QED
  BY <1>2, FS_CardinalityType DEF Unread

\* A page is a part of the listing.
LEMMA PartIs ==
  ASSUME NEW all \in Seq(Row), ~Doubled(all), NEW v, OfView(v, all),
         NEW m \in Nat, NEW n \in Nat, n <= Len(all)
  PROVE  LET part == SubSeq(all, m + 1, n) IN
         part \in Seq(Row) /\ ~Doubled(part) /\ OfView(v, part) /\ Len(part) \in Nat
<1>. DEFINE part == SubSeq(all, m + 1, n)
<1>1. /\ part \in Seq(Row)
      /\ Len(part) = IF m + 1 <= n THEN n - (m + 1) + 1 ELSE 0
      /\ \A i \in 1..n - (m + 1) + 1 : part[i] = all[m + 1 + i - 1]
  <2>1. \A i \in m + 1..n : all[i] \in Row
    OBVIOUS
  <2>. QED
    BY <2>1, SubSeqProperties
<1>. HIDE DEF part
<1>2. \A i \in 1..Len(part) : m + i \in 1..Len(all) /\ part[i] = all[m + i]
  BY <1>1
<1>3. ~Doubled(part)
  <2>1. \A i, j \in 1..Len(part) : Id(part[i]) = Id(part[j]) => i = j
    <3>1. TAKE i \in 1..Len(part), j \in 1..Len(part)
    <3>2. HAVE Id(part[i]) = Id(part[j])
    <3>3. m + i = m + j
      BY <1>2, <3>2, Index
    <3>. QED
      BY <3>3
  <2>. QED
    BY <1>1, <2>1, Index
<1>4. OfView(v, part)
  <2>1. DOMAIN part = 1..Len(part) /\ DOMAIN all = 1..Len(all)
    BY <1>1
  <2>. QED
    BY <1>2, <2>1 DEF OfView
<1>. QED
  BY <1>1, <1>3, <1>4 DEF part

\* Pages put together are of the same view; an id is there twice only if one of
\* them had it twice or they overlap.
LEMMA Together ==
  ASSUME NEW s \in Seq(Row), NEW t \in Seq(Row), NEW v, OfView(v, s), OfView(v, t)
  PROVE  /\ s \o t \in Seq(Row) /\ OfView(v, s \o t)
         /\ Doubled(s \o t) => Doubled(s) \/ Doubled(t) \/ Ids(t) \cap Ids(s) # {}
<1>. DEFINE u == s \o t
<1>1. /\ u \in Seq(Row) /\ Len(u) = Len(s) + Len(t)
      /\ \A i \in 1..Len(s) + Len(t) : u[i] = IF i <= Len(s) THEN s[i] ELSE t[i - Len(s)]
  BY ConcatProperties
<1>. HIDE DEF u
<1>2. \A i \in 1..Len(u) : \/ i \in 1..Len(s) /\ u[i] = s[i]
                           \/ i - Len(s) \in 1..Len(t) /\ u[i] = t[i - Len(s)]
  BY <1>1
<1>3. DOMAIN u = 1..Len(u) /\ DOMAIN s = 1..Len(s) /\ DOMAIN t = 1..Len(t)
  BY <1>1
<1>4. OfView(v, u)
  <2>1. SUFFICES ASSUME NEW i \in 1..Len(u)
                 PROVE  /\ u[i].copy = (v.node = Queue)
                        /\ u[i].article \in Of(v.node) \cap Titles[v.query]
                        /\ ~(v.unread /\ u[i].read)
    BY <1>3 DEF OfView
  <2>2. CASE i \in 1..Len(s) /\ u[i] = s[i]
    BY <1>3, <2>2 DEF OfView
  <2>3. CASE i - Len(s) \in 1..Len(t) /\ u[i] = t[i - Len(s)]
    <3>1. PICK k \in 1..Len(t) : u[i] = t[k]
      BY <2>3
    <3>. QED
      BY <1>3, <3>1 DEF OfView
  <2>. QED
    BY <1>2, <2>1, <2>2, <2>3
<1>5. ASSUME ~Doubled(s), ~Doubled(t), Ids(t) \cap Ids(s) = {}
      PROVE  ~Doubled(u)
  <2>1. /\ \A i, j \in 1..Len(s) : Id(s[i]) = Id(s[j]) => i = j
        /\ \A i, j \in 1..Len(t) : Id(t[i]) = Id(t[j]) => i = j
        /\ \A i \in 1..Len(s), j \in 1..Len(t) : Id(s[i]) # Id(t[j])
    BY <1>5, Index
  <2>2. ASSUME NEW i \in 1..Len(u), NEW j \in 1..Len(u), Id(u[i]) = Id(u[j])
        PROVE  i = j
    <3>1. Len(s) \in Nat
      OBVIOUS
    <3>2. CASE i \in 1..Len(s) /\ u[i] = s[i]
      BY <1>2, <2>1, <2>2, <3>2
    <3>3. CASE i - Len(s) \in 1..Len(t) /\ u[i] = t[i - Len(s)]
      <4>1. j - Len(s) \in 1..Len(t) /\ u[j] = t[j - Len(s)]
        BY <1>2, <2>1, <2>2, <3>3
      <4>2. i - Len(s) = j - Len(s)
        BY <2>1, <2>2, <3>3, <4>1
      <4>. QED
        BY <3>1, <4>2
    <3>. QED
      BY <1>2, <3>2, <3>3
  <2>. QED
    BY <1>1, <2>2, Index
<1>. QED
  BY <1>1, <1>4, <1>5 DEF u

-----------------------------------------------------------------------------
(* What the handlers do                                                      *)

\* A flag changes in place.
LEMMA FlagIs ==
  ASSUME NEW s \in Seq(Row), NEW i \in DOMAIN s, NEW flag \in {"read", "queued"},
         NEW value \in BOOLEAN
  PROVE  LET t == Flag(s, i, flag, value) IN
         t \in Seq(Row) /\ Len(t) = Len(s) /\ Order(t) = Order(s)
<1>. DEFINE r == IF flag = "read" THEN [s[i] EXCEPT !.read = value]
                 ELSE [s[i] EXCEPT !.queued = value]
            t == [s EXCEPT ![i] = r]
<1>1. Flag(s, i, flag, value) = t
  BY DEF Flag
<1>2. s[i] \in Row
  OBVIOUS
<1>3. r \in Row /\ Id(r) = Id(s[i])
  BY <1>2 DEF Row, Id
<1>. HIDE DEF r
<1>4. t \in Seq(Row) /\ Len(t) = Len(s) /\ DOMAIN t = DOMAIN s
  BY <1>3
<1>5. \A k \in DOMAIN s : Id(t[k]) = Id(s[k])
  BY <1>3
<1>. HIDE DEF t
<1>6. Order(t) = Order(s)
  BY <1>4, <1>5 DEF Order
<1>. QED
  BY <1>1, <1>4, <1>6

LEMMA AllReadIs ==
  ASSUME NEW s \in Seq(Row)
  PROVE  AllRead(s) \in Seq(Row) /\ Len(AllRead(s)) = Len(s) /\ Order(AllRead(s)) = Order(s)
<1>. DEFINE t == AllRead(s)
<1>1. \A i \in 1..Len(s) : /\ [s[i] EXCEPT !.read = TRUE] \in Row
                           /\ Id([s[i] EXCEPT !.read = TRUE]) = Id(s[i])
  <2>1. TAKE i \in 1..Len(s)
  <2>2. s[i] \in Row
    OBVIOUS
  <2>. QED
    BY <2>2 DEF Row, Id
<1>2. t = [i \in 1..Len(s) |-> [s[i] EXCEPT !.read = TRUE]]
  BY DEF AllRead
<1>3. t \in Seq(Row) /\ Len(t) = Len(s) /\ DOMAIN t = DOMAIN s
  BY <1>1, <1>2
<1>4. \A k \in DOMAIN s : Id(t[k]) = Id(s[k])
  BY <1>1, <1>2
<1>. HIDE DEF t
<1>5. Order(t) = Order(s)
  BY <1>3, <1>4 DEF Order
<1>. QED
  BY <1>3, <1>5 DEF t

\* A list in the same order has the same ids.
LEMMA OrderTells ==
  ASSUME NEW s \in Seq(Row), NEW t \in Seq(Row), Order(t) = Order(s)
  PROVE  /\ Ids(t) = Ids(s) /\ (Doubled(t) <=> Doubled(s)) /\ Len(t) = Len(s)
<1>1. /\ DOMAIN t = DOMAIN s /\ \A i \in DOMAIN s : Id(t[i]) = Id(s[i])
      /\ DOMAIN s = 1..Len(s) /\ DOMAIN t = 1..Len(t) /\ Len(s) \in Nat /\ Len(t) \in Nat
  BY DEF Order
<1>2. Ids(t) = Ids(s) /\ (Doubled(t) <=> Doubled(s))
  BY <1>1 DEF Ids, Doubled
<1>3. Len(t) = Len(s)
  BY <1>1
<1>. QED
  BY <1>2, <1>3

\* A merge leaves the list as it was or makes it a list in order that has the
\* selection.
LEMMA MergeIs ==
  ASSUME ListTyped, broken \in BOOLEAN, NEW page \in Seq(Row), NEW removing \in BOOLEAN,
         Merge(page, removing)
  PROVE  /\ list' \in Seq(Row) /\ ~Doubled(list') /\ row' \in 0..Len(list')
         /\ broken' \in BOOLEAN
         /\ broken' => broken \/ (removing /\ Doubled(page))
         /\ Ids(list') \subseteq Ids(list) \cup Ids(page)
         /\ \/ list' = list /\ row' = row
            \/ InOrder(list') /\ (row # 0 => row' # 0 /\ Id(list'[row']) = Id(list[row]))
<1>. DEFINE target == Target(list, row, page, removing)
<1>1. /\ target \in Seq(Row) /\ (~Doubled(target) => InOrder(target))
      /\ Ids(target) \subseteq Ids(list) \cup Ids(page)
      /\ removing \/ Ids(list) \subseteq Ids(target)
      /\ row # 0 => Id(list[row]) \in Ids(target)
      /\ Doubled(target) => removing /\ Doubled(page)
  BY TargetIs DEF ListTyped
<1>2. IF Doubled(target)
        THEN broken' = TRUE /\ UNCHANGED <<list, row>>
        ELSE /\ list' = Merged(list, target, removing)
             /\ row' = SelectedAfter(list, row, list')
             /\ UNCHANGED broken
  BY DEF Merge
<1>. HIDE DEF target
<1>3. CASE Doubled(target)
  BY <1>1, <1>2, <1>3 DEF ListTyped
<1>4. CASE ~Doubled(target)
  <2>1. list' = target
    BY <1>1, <1>2, <1>4, MergeIsTarget DEF ListTyped
  <2>2. row' = SelectedAfter(list, row, target) /\ broken' = broken
    BY <1>2, <1>4, <2>1
  <2>. DEFINE i == IF row = 0 THEN 0 ELSE RowOf(target, Id(list[row]), 1)
  <2>3. /\ row # 0 => i \in 1..Len(target) /\ Id(target[i]) = Id(list[row])
        /\ row = 0 => i = 0
    <3>1. row # 0 => \E k \in 1..Len(target) : Id(target[k]) = Id(list[row])
      BY <1>1, Index
    <3>. QED
      BY <1>1, <3>1, RowFound
  <2>4. row' = IF i = 0 /\ target # <<>> THEN 1 ELSE i
    BY <2>2 DEF SelectedAfter
  <2>. HIDE DEF i
  <2>5. row' \in 0..Len(target)
    <3>1. target # <<>> => Len(target) >= 1
      BY <1>1
    <3>2. Len(target) \in Nat
      BY <1>1
    <3>. QED
      BY <2>3, <2>4, <3>1, <3>2
  <2>6. row # 0 => row' # 0 /\ Id(target[row']) = Id(list[row])
    BY <1>1, <2>3, <2>4
  <2>. QED
    BY <1>1, <1>4, <2>1, <2>2, <2>5, <2>6
<1>. QED
  BY <1>3, <1>4

\* A page is asked for, unless one is being loaded.
LEMMA LoadPageIs ==
  ASSUME PagerTyped, lapses \in LapsesType, NEW v \in Views, NEW append \in BOOLEAN,
         NEW rest, JobsTyped(rest), NEW history \in LapsesType,
         LoadPage(v, append, rest, history)
  PROVE  /\ PagerTyped' /\ JobsTyped(jobs') /\ lapses' \in LapsesType
         /\ BagToSet(rest) \subseteq BagToSet(jobs')
         /\ \A j \in BagToSet(jobs') : j \in BagToSet(rest) \/ j \in PageAsked
         /\ loading' => loading \/ \E j \in BagToSet(jobs') : j.job = "page"
         /\ /\ lapses'.stuck = history.stuck /\ lapses'.overlap = history.overlap
            /\ lapses'.wrong = history.wrong /\ lapses'.commits = history.commits
            /\ lapses'.counted = history.counted /\ lapses'.silent = history.silent
<1>. DEFINE p == PageJob(v, append, IF append THEN next ELSE 0)
<1>1. p \in PageAsked /\ p.job = "page"
  BY DEF PageJob, PageAsked, PagerTyped
<1>2. IF loading THEN jobs' = rest /\ UNCHANGED pager
      ELSE /\ jobs' = BagAdd(rest, p) /\ loading' = TRUE
           /\ next' = IF append THEN next ELSE 0
           /\ more' = (append /\ more)
  BY DEF LoadPage
<1>. HIDE DEF p
<1>3. PagerTyped'
  <2>1. CASE loading
    BY <1>2, <2>1 DEF PagerTyped, pager
  <2>2. CASE ~loading
    <3>1. loading' = TRUE /\ next' = (IF append THEN next ELSE 0) /\ more' = (append /\ more)
      BY <1>2, <2>2
    <3>2. next' \in Nat
      BY <3>1 DEF PagerTyped
    <3>. QED
      BY <3>1, <3>2 DEF PagerTyped
  <2>. QED
    BY <2>1, <2>2
<1>4. lapses' = IF append THEN history ELSE [history EXCEPT !.missed = loading \/ Paging]
  BY DEF LoadPage
<1>5. /\ lapses' \in LapsesType
      /\ lapses'.stuck = history.stuck /\ lapses'.overlap = history.overlap
      /\ lapses'.wrong = history.wrong /\ lapses'.commits = history.commits
      /\ lapses'.counted = history.counted /\ lapses'.silent = history.silent
  <2>1. (loading \/ Paging) \in BOOLEAN
    OBVIOUS
  <2>2. CASE append
    BY <1>4, <2>2
  <2>3. CASE ~append
    BY <1>4, <2>1, <2>3 DEF LapsesType
  <2>. QED
    BY <2>2, <2>3
<1>6. CASE loading
  <2>1. jobs' = rest
    BY <1>2, <1>6
  <2>. QED
    BY <1>3, <1>6, <1>5, <2>1
<1>7. CASE ~loading
  <2>1. IsABag(BagAdd(rest, p)) /\ BagToSet(BagAdd(rest, p)) = BagToSet(rest) \cup {p}
    BY Added DEF JobsTyped
  <2>2. JobsTyped(jobs')
    BY <1>1, <1>2, <1>7, <2>1 DEF JobsTyped, JobType
  <2>3. /\ BagToSet(rest) \subseteq BagToSet(jobs')
        /\ \A j \in BagToSet(jobs') : j \in BagToSet(rest) \/ j \in PageAsked
        /\ \E j \in BagToSet(jobs') : j.job = "page"
    BY <1>1, <1>2, <1>7, <2>1
  <2>. QED
    BY <1>3, <1>5, <2>2, <2>3
<1>. QED
  BY <1>6, <1>7

LEMMA WriteForIs ==
  ASSUME view \in Views, NEW r \in Row, NEW op \in {"read", "unread", "queue", "unqueue"}
  PROVE  /\ WriteFor(op, r) \in Writing
         /\ WriteFor(op, r).job = "write" /\ WriteFor(op, r).op = op
         /\ WriteFor(op, r).state = "asked"
<1>1. r.article \in Articles /\ r.copy \in BOOLEAN
  BY DEF Row
<1>2. NodeFor(r) \in Nodes
  BY <1>1, FeedsAre DEF NodeFor
<1>. QED
  BY <1>1, <1>2 DEF WriteFor, WriteJob, Writing

LEMMA WroteIs ==
  ASSUME lapses \in LapsesType, NEW w
  PROVE  /\ Wrote(w) \in LapsesType
         /\ /\ Wrote(w).stuck = lapses.stuck /\ Wrote(w).overlap = lapses.overlap
            /\ Wrote(w).wrong = lapses.wrong /\ Wrote(w).commits = lapses.commits
            /\ Wrote(w).counted = lapses.counted /\ Wrote(w).silent = lapses.silent
<1>. DEFINE m == lapses.missed \/ Crossing(w)
<1>1. m \in BOOLEAN
  OBVIOUS
<1>2. Wrote(w) = [lapses EXCEPT !.writes = lapses.writes + 1, !.missed = m]
  BY DEF Wrote
<1>. HIDE DEF m
<1>3. lapses.writes + 1 \in Nat
  BY DEF LapsesType
<1>4. Wrote(w) \in LapsesType
  BY <1>1, <1>2, <1>3 DEF LapsesType
<1>. QED
  BY <1>2, <1>4 DEF LapsesType

LEMMA MissedIs ==
  ASSUME lapses \in LapsesType, NEW so \in BOOLEAN
  PROVE  /\ Missed(so) \in LapsesType
         /\ Missed(so).stuck = lapses.stuck /\ Missed(so).overlap = lapses.overlap
         /\ Missed(so).wrong = lapses.wrong /\ Missed(so).commits = lapses.commits
         /\ Missed(so).counted = lapses.counted /\ Missed(so).silent = lapses.silent
BY DEF Missed, LapsesType

LEMMA LessIs ==
  ASSUME NEW n \in Nat, NEW k \in Nat
  PROVE  Less(n, k) \in Nat
BY DEF Less

LEMMA SpendIs ==
  ASSUME left \in Scenario
  PROVE  /\ left.nodes \subseteq Nodes
         /\ \A op : Spend(op) => left' \in Scenario
         /\ \A op : SpendChange(op) => left' \in Scenario
         /\ left.faults > 0 => [left EXCEPT !.faults = @ - 1] \in Scenario
BY DEF Scenario, Spend, SpendChange

\* What a request makes of the tables, and who is told of it.
LEMMA WritesTyped ==
  ASSUME TablesTyped, NEW w \in Writing
  PROVE  /\ DOMAIN ArticlesAfter(w) \subseteq Articles
         /\ ArticlesAfter(w) \in [DOMAIN ArticlesAfter(w) -> BOOLEAN]
         /\ DOMAIN QueuedAfter(w) \subseteq Articles
         /\ QueuedAfter(w) \in [DOMAIN QueuedAfter(w) -> BOOLEAN]
         /\ Told(w) \subseteq Nodes \cup {Everywhere}
<1>1. /\ DOMAIN articles \subseteq Articles /\ articles \in [DOMAIN articles -> BOOLEAN]
      /\ DOMAIN queued \subseteq Articles /\ queued \in [DOMAIN queued -> BOOLEAN]
  BY DEF TablesTyped
<1>2. w.op \in {"read", "unread", "queue", "unqueue", "all"} /\ w.node \in Nodes
  BY DEF Writing
<1>3. \A table, some : \A read \in BOOLEAN :
        table \in [DOMAIN table -> BOOLEAN] =>
          /\ Flagged(table, some, read) \in [DOMAIN table -> BOOLEAN]
          /\ DOMAIN Flagged(table, some, read) = DOMAIN table
  BY DEF Flagged
<1>. DEFINE keeps(t, u) == t \in [DOMAIN u -> BOOLEAN] /\ DOMAIN t = DOMAIN u
<1>4. keeps(ArticlesAfter(w), articles)
  <2>1. \/ ArticlesAfter(w) = articles
        \/ \E some : \E read \in BOOLEAN : ArticlesAfter(w) = Flagged(articles, some, read)
    BY <1>2 DEF ArticlesAfter
  <2>. QED
    BY <1>1, <1>3, <2>1
<1>5. /\ DOMAIN QueuedAfter(w) \subseteq Articles
      /\ QueuedAfter(w) \in [DOMAIN QueuedAfter(w) -> BOOLEAN]
  <2>1. CASE w.op \in {"read", "unread", "all"}
    <3>1. keeps(QueuedAfter(w), queued)
      <4>1. \/ QueuedAfter(w) = queued
            \/ \E some : \E read \in BOOLEAN : QueuedAfter(w) = Flagged(queued, some, read)
        BY <2>1 DEF QueuedAfter
      <4>. QED
        BY <1>1, <1>3, <4>1
    <3>. QED
      BY <1>1, <3>1
  <2>2. CASE w.op = "queue"
    <3>1. PICK new : new \subseteq DOMAIN articles /\
            QueuedAfter(w) = [a \in DOMAIN queued \cup new |->
                                IF a \in DOMAIN queued THEN queued[a] ELSE articles[a]]
      BY <2>2 DEF QueuedAfter
    <3>2. \A a \in DOMAIN queued \cup new :
            (IF a \in DOMAIN queued THEN queued[a] ELSE articles[a]) \in BOOLEAN
      BY <1>1, <3>1
    <3>. QED
      BY <1>1, <3>1, <3>2
  <2>3. CASE w.op = "unqueue"
    <3>1. QueuedAfter(w) = [a \in DOMAIN queued \ Found(w) |-> queued[a]]
      BY <2>3 DEF QueuedAfter, Restrict
    <3>. QED
      BY <1>1, <3>1
  <2>. QED
    BY <1>2, <2>1, <2>2, <2>3
<1>6. Told(w) \subseteq Nodes \cup {Everywhere}
  BY <1>2, FeedsAre DEF Told
<1>. QED
  BY <1>1, <1>4, <1>5, <1>6

LEMMA NotifyIs ==
  ASSUME NotesTyped, NEW nodes, nodes \subseteq Nodes \cup {Everywhere},
         NEW from \in {"own", "other", "scheduler"}, Notify(nodes, from)
  PROVE  /\ NotesTyped' /\ BagToSet(notes) \subseteq BagToSet(notes')
         /\ Offline \/ nodes = {} \/ BagToSet(notes') # {}
<1>. DEFINE N == {Note(n, from) : n \in nodes}
<1>1. N \subseteq NoteType /\ (nodes # {} => N # {})
  <2>1. \A n \in nodes : Note(n, from) \in NoteType
    BY DEF Note, NoteType
  <2>. QED
    BY <2>1
<1>. HIDE DEF N
<1>2. notes' = IF Offline THEN notes ELSE notes (+) SetToBag(N)
  BY DEF Notify, N
<1>3. IsABag(notes (+) SetToBag(N)) /\ BagToSet(notes (+) SetToBag(N)) = BagToSet(notes) \cup N
  BY AddedSet DEF NotesTyped
<1>4. NotesTyped'
  BY <1>1, <1>2, <1>3 DEF NotesTyped
<1>. QED
  BY <1>1, <1>2, <1>3, <1>4

-----------------------------------------------------------------------------
(* Types are kept                                                            *)

LEMMA Same ==
  /\ TablesTyped /\ UNCHANGED tables => TablesTyped'
  /\ NotesTyped /\ UNCHANGED notes => NotesTyped'
  /\ ListTyped /\ UNCHANGED <<view, list, row>> => ListTyped'
  /\ CacheTyped /\ UNCHANGED cache => CacheTyped'
  /\ PagerTyped /\ UNCHANGED pager => PagerTyped'
  /\ HistoryTyped /\ UNCHANGED <<lapses, count, broken>> => HistoryTyped'
  /\ JobsTyped(jobs) /\ UNCHANGED jobs => JobsTyped(jobs')
BY DEF TablesTyped, NotesTyped, ListTyped, CacheTyped, PagerTyped, HistoryTyped, tables, pager

\* A job more, a job less, and a job in the place of another
LEMMA JobsAre ==
  ASSUME NEW bag, JobsTyped(bag)
  PROVE  /\ \A j : JobsTyped(BagRemove(bag, j))
         /\ \A k : JobType(k) => JobsTyped(BagAdd(bag, k))
         /\ \A j, k : JobType(k) => JobsTyped(BagAdd(BagRemove(bag, j), k))
<1>1. \A j : JobsTyped(BagRemove(bag, j))
  BY Taken DEF JobsTyped
<1>2. ASSUME NEW b, JobsTyped(b), NEW k, JobType(k) PROVE JobsTyped(BagAdd(b, k))
  BY <1>2, Added DEF JobsTyped
<1>. QED
  BY <1>1, <1>2

LEMMA NewJobs ==
  /\ JobType(CountJob) /\ JobType(ConnectJob)
  /\ \A f \in Feeds : JobType(RefreshJob(f))
  /\ \A v \in Views : /\ JobType(ReloadJob(v))
                      /\ \A append \in BOOLEAN : JobType(PageJob(v, append, 0))
  /\ \A w \in Writing : JobType(w)
  /\ \A n \in Nodes : WriteJob("all", n, 0, FALSE) \in Writing
<1>1. JobType(CountJob)
  BY DEF CountJob, JobType, CountOpen
<1>2. JobType(ConnectJob)
  BY DEF ConnectJob, JobType, Connecting
<1>3. \A f \in Feeds : JobType(RefreshJob(f))
  BY DEF RefreshJob, JobType, Refreshing
<1>4. \A v \in Views : JobType(ReloadJob(v))
  BY DEF ReloadJob, JobType, Reloading
<1>5. \A v \in Views : \A append \in BOOLEAN : JobType(PageJob(v, append, 0))
  BY DEF PageJob, JobType, PageAsked
<1>6. \A w \in Writing : JobType(w)
  BY DEF JobType
<1>7. \A n \in Nodes : WriteJob("all", n, 0, FALSE) \in Writing
  BY DEF WriteJob, Writing
<1>. QED
  BY <1>1, <1>2, <1>3, <1>4, <1>5, <1>6, <1>7

LEMMA TypedAtFirst ==
  ASSUME Init
  PROVE  Typed
<1>1. left \in Scenario
  BY ScenarioAssumption DEF Init
<1>2. TablesTyped
  <2>1. articles \in UNION {[S -> BOOLEAN] : S \in SUBSET Articles}
    BY <1>1 DEF Init, Scenario
  <2>. QED
    BY <2>1 DEF Init, TablesTyped
<1>3. NotesTyped
  BY Emptied DEF Init, NotesTyped
<1>4. view \in Views
  BY FeedsAre, PaneAssumption DEF Init, Views
<1>5. ListTyped
  BY <1>4, NoRows DEF Init, ListTyped
<1>6. CacheTyped /\ PagerTyped
  BY DEF Init, CacheTyped, PagerTyped
<1>7. HistoryTyped
  BY <1>2, UnreadIs DEF Init, HistoryTyped, NoLapses, LapsesType
<1>8. JobsTyped(jobs)
  <2>1. jobs = SetToBag({PageJob(view, FALSE, 0)}) /\ JobType(PageJob(view, FALSE, 0))
    BY <1>4, NewJobs DEF Init
  <2>2. IsABag(jobs) /\ BagToSet(jobs) = {PageJob(view, FALSE, 0)}
    BY <2>1, Emptied
  <2>. QED
    BY <2>1, <2>2 DEF JobsTyped
<1>. QED
  BY <1>1, <1>2, <1>3, <1>5, <1>6, <1>7, <1>8 DEF Typed

\* The user
LEMMA TypedByUser ==
  ASSUME Typed, UserActs
  PROVE  Typed'
<1>1. /\ TablesTyped /\ NotesTyped /\ ListTyped /\ CacheTyped /\ PagerTyped /\ HistoryTyped
      /\ JobsTyped(jobs) /\ left \in Scenario /\ lapses \in LapsesType /\ view \in Views
      /\ IsABag(jobs) /\ list \in Seq(Row) /\ row \in 0..Len(list) /\ count \in Nat
  BY DEF Typed, HistoryTyped, ListTyped, JobsTyped
<1>2. UNCHANGED tables /\ UNCHANGED notes /\ UNCHANGED cache /\ UNCHANGED broken
  BY DEF UserActs, SelectNode, MarkAllArticlesRead, SearchArticles, ToggleShowingReadArticles,
         LoadMoreArticles, SelectArticle, MarkSelectedArticleUnread, ToggleSelectedArticleQueued,
         RefreshFeed, pane
<1>3. TablesTyped' /\ NotesTyped' /\ CacheTyped'
  BY <1>1, <1>2, Same
<1>4. left' \in Scenario
  BY <1>1, SpendIs
     DEF UserActs, SelectNode, MarkAllArticlesRead, SearchArticles, ToggleShowingReadArticles,
         LoadMoreArticles, SelectArticle, MarkSelectedArticleUnread, ToggleSelectedArticleQueued,
         RefreshFeed
<1>. DEFINE Kept4 == ListTyped' /\ PagerTyped' /\ HistoryTyped' /\ JobsTyped(jobs')
<1>5. ASSUME NEW v \in Views, view' = v, UNCHANGED list, row' \in {0, row}, UNCHANGED count,
             LoadPage(v, FALSE, jobs, lapses)
      PROVE  Kept4
  <2>1. PagerTyped' /\ JobsTyped(jobs') /\ lapses' \in LapsesType
    BY <1>1, <1>5, LoadPageIs
  <2>2. ListTyped'
    BY <1>1, <1>5 DEF ListTyped
  <2>. QED
    BY <1>1, <1>2, <1>5, <2>1, <2>2 DEF HistoryTyped
<1>6. ASSUME NEW n \in left.nodes, SelectNode(n) PROVE Kept4
  <2>1. [view EXCEPT !.node = n] \in Views
    BY <1>1, SpendIs DEF Views
  <2>. QED
    BY <1>5, <1>6, <2>1 DEF SelectNode
<1>7. ASSUME NEW q \in DOMAIN Titles, SearchArticles(q) PROVE Kept4
  <2>1. [view EXCEPT !.query = q] \in Views
    BY <1>1 DEF Views
  <2>. QED
    BY <1>5, <1>7, <2>1 DEF SearchArticles
<1>8. ASSUME ToggleShowingReadArticles PROVE Kept4
  <2>1. [view EXCEPT !.unread = ~@] \in Views
    BY <1>1 DEF Views
  <2>. QED
    BY <1>5, <1>8, <2>1 DEF ToggleShowingReadArticles
<1>9. ASSUME LoadMoreArticles PROVE Kept4
  <2>1. LoadPage(view, TRUE, jobs, lapses) /\ UNCHANGED <<view, list, row, count>>
    BY <1>9 DEF LoadMoreArticles, pane
  <2>2. PagerTyped' /\ JobsTyped(jobs') /\ lapses' \in LapsesType
    BY <1>1, <2>1, LoadPageIs
  <2>. QED
    BY <1>1, <1>2, <2>1, <2>2, Same DEF HistoryTyped
<1>. DEFINE Marked(w) == /\ JobsTyped(BagAdd(jobs, w))
                         /\ Wrote(w) \in LapsesType
<1>10. ASSUME NEW op \in {"read", "unread", "queue", "unqueue"}, NEW i \in 1..Len(list)
       PROVE  Marked(WriteFor(op, list[i]))
  BY <1>1, WriteForIs, NewJobs, JobsAre, WroteIs
<1>11. ASSUME NEW i \in 1..Len(list), NEW flag \in {"read", "queued"}, NEW value \in BOOLEAN,
              list' = Flag(list, i, flag, value), UNCHANGED view, row' \in {i, row}
       PROVE  ListTyped'
  <2>1. i \in DOMAIN list
    BY <1>1
  <2>2. list' \in Seq(Row) /\ Len(list') = Len(list) /\ Order(list') = Order(list)
    BY <1>1, <1>11, <2>1, FlagIs
  <2>3. ~Doubled(list')
    BY <1>1, <2>2, OrderTells DEF ListTyped
  <2>. QED
    BY <1>1, <1>11, <2>2, <2>3 DEF ListTyped
<1>12. ASSUME NEW i \in DOMAIN list, SelectArticle(i) PROVE Kept4
  <2>1. i \in 1..Len(list) /\ row' = i /\ UNCHANGED view /\ PagerTyped'
    BY <1>1, <1>12, Same DEF SelectArticle
  <2>2. CASE list[i].read
    <3>1. UNCHANGED <<list, count, jobs, lapses>>
      BY <1>12, <2>2 DEF SelectArticle
    <3>. QED
      BY <1>1, <1>2, <2>1, <3>1, Same DEF ListTyped, HistoryTyped
  <2>3. CASE ~list[i].read
    <3>1. /\ list' = Flag(list, i, "read", TRUE) /\ count' = Less(count, 1)
          /\ jobs' = BagAdd(jobs, WriteFor("read", list[i]))
          /\ lapses' = Wrote(WriteFor("read", list[i]))
      BY <1>12, <2>3 DEF SelectArticle
    <3>2. Marked(WriteFor("read", list[i])) /\ ListTyped'
      BY <1>10, <1>11, <2>1, <3>1
    <3>. QED
      BY <1>1, <1>2, <2>1, <3>1, <3>2, LessIs DEF HistoryTyped
  <2>. QED
    BY <2>2, <2>3
<1>13. ASSUME MarkSelectedArticleUnread PROVE Kept4
  <2>1. /\ row \in 1..Len(list) /\ list' = Flag(list, row, "read", FALSE) /\ count' = count + 1
        /\ jobs' = BagAdd(jobs, WriteFor("unread", list[row]))
        /\ lapses' = Wrote(WriteFor("unread", list[row]))
        /\ UNCHANGED <<view, row, broken, pager>>
    BY <1>1, <1>13 DEF MarkSelectedArticleUnread
  <2>2. Marked(WriteFor("unread", list[row])) /\ ListTyped'
    BY <1>10, <1>11, <2>1
  <2>. QED
    BY <1>1, <1>2, <2>1, <2>2, Same DEF HistoryTyped
<1>14. ASSUME ToggleSelectedArticleQueued PROVE Kept4
  <2>. DEFINE was == list[row].queued
              job == WriteFor(IF was THEN "unqueue" ELSE "queue", list[row])
  <2>1. /\ row \in 1..Len(list) /\ list' = Flag(list, row, "queued", ~was)
        /\ IF was /\ view.node = Queue
             THEN LoadPage(view, FALSE, BagAdd(jobs, job), Wrote(job))
             ELSE jobs' = BagAdd(jobs, job) /\ lapses' = Wrote(job) /\ UNCHANGED pager
        /\ UNCHANGED <<view, row, count>>
    <3>1. row \in 1..Len(list)
      BY <1>1, <1>14 DEF ToggleSelectedArticleQueued
    <3>. QED
      BY <1>14, <3>1 DEF ToggleSelectedArticleQueued
  <2>2. Marked(job) /\ (~was) \in BOOLEAN
    <3>1. CASE was
      BY <1>10, <2>1, <3>1
    <3>2. CASE ~was
      BY <1>10, <2>1, <3>2
    <3>. QED
      BY <3>1, <3>2
  <2>3. ListTyped'
    BY <1>11, <2>1, <2>2
  <2>. HIDE DEF was, job
  <2>4. PagerTyped' /\ JobsTyped(jobs') /\ lapses' \in LapsesType
    <3>1. CASE was /\ view.node = Queue
      BY <1>1, <2>1, <2>2, <3>1, LoadPageIs
    <3>2. CASE ~(was /\ view.node = Queue)
      BY <1>1, <2>1, <2>2, <3>2, Same
    <3>. QED
      BY <3>1, <3>2
  <2>. QED
    BY <1>1, <1>2, <2>1, <2>3, <2>4 DEF HistoryTyped
<1>15. ASSUME NEW n \in left.nodes, MarkAllArticlesRead(n) PROVE Kept4
  <2>. DEFINE job == WriteJob("all", n, 0, FALSE)
  <2>1. /\ list' \in {list, AllRead(list)} /\ UNCHANGED <<view, row, broken, pager>>
        /\ count' \in {count, Less(count, Cardinality(UnreadRows(list)))}
        /\ jobs' = BagAdd(jobs, job)
        /\ \E so \in BOOLEAN : lapses' = [Wrote(job) EXCEPT !.missed = Wrote(job).missed \/ so]
    BY <1>15 DEF MarkAllArticlesRead
  <2>2. JobsTyped(jobs') /\ lapses' \in LapsesType
    <3>1. Marked(job)
      BY <1>1, SpendIs, NewJobs, JobsAre, WroteIs
    <3>. HIDE DEF job
    <3>. QED
      BY <2>1, <3>1 DEF LapsesType
  <2>3. ListTyped'
    <3>1. list' \in Seq(Row) /\ Len(list') = Len(list) /\ Order(list') = Order(list)
      BY <1>1, <2>1, AllReadIs
    <3>2. ~Doubled(list')
      BY <1>1, <3>1, OrderTells DEF ListTyped
    <3>. QED
      BY <1>1, <2>1, <3>1, <3>2 DEF ListTyped
  <2>4. count' \in Nat
    <3>1. UnreadRows(list) \in SUBSET (1..Len(list)) /\ Len(list) \in Nat
      BY <1>1 DEF UnreadRows
    <3>2. IsFiniteSet(UnreadRows(list))
      <4>1. IsFiniteSet(1..Len(list))
        BY <3>1, FS_Interval
      <4>. QED
        BY <3>1, <4>1, FS_Subset
    <3>3. Cardinality(UnreadRows(list)) \in Nat
      BY <3>2, FS_CardinalityType
    <3>. QED
      BY <1>1, <2>1, <3>3, LessIs
  <2>. QED
    BY <1>1, <1>2, <2>1, <2>2, <2>3, <2>4, Same DEF HistoryTyped
<1>16. ASSUME NEW f \in Feeds, RefreshFeed(f) PROVE Kept4
  <2>1. jobs' = BagAdd(jobs, RefreshJob(f)) /\ UNCHANGED <<view, list, row, count, pager, lapses>>
    BY <1>16 DEF RefreshFeed, pane
  <2>. QED
    BY <1>1, <1>2, <2>1, NewJobs, JobsAre, Same
<1>17. Kept4
  BY <1>6, <1>7, <1>8, <1>9, <1>12, <1>13, <1>14, <1>15, <1>16 DEF UserActs
<1>. QED
  BY <1>3, <1>4, <1>17 DEF Typed, JobsTyped

TypedNow ==
  /\ TablesTyped /\ NotesTyped /\ ListTyped /\ CacheTyped /\ PagerTyped /\ HistoryTyped
  /\ JobsTyped(jobs) /\ left \in Scenario /\ lapses \in LapsesType /\ view \in Views
  /\ IsABag(jobs) /\ list \in Seq(Row) /\ row \in 0..Len(list) /\ count \in Nat
  /\ broken \in BOOLEAN /\ lapses.missed \in BOOLEAN

LEMMA TypedParts ==
  ASSUME Typed
  PROVE  TypedNow
BY DEF Typed, TypedNow, HistoryTyped, ListTyped, JobsTyped, LapsesType

LEMMA CachedIs ==
  ASSUME CacheTyped, view \in Views, NEW rows \in Seq(Row), OfView(view, rows)
  PROVE  /\ CachedWith(rows) \in Seq(Row) /\ OfView(view, CachedWith(rows))
         /\ Doubled(CachedWith(rows)) =>
              \/ \E v \in DOMAIN cache : Doubled(cache[v].rows)
              \/ Doubled(rows)
              \/ Ids(rows) \cap Ids(CachedWith(<<>>)) # {}
<1>1. CASE view \in DOMAIN cache
  <2>1. cache[view].rows \in Seq(Row) /\ OfView(view, cache[view].rows)
    BY <1>1 DEF CacheTyped, Stored
  <2>2. CachedWith(rows) = cache[view].rows \o rows /\ CachedWith(<<>>) = cache[view].rows
    BY <1>1, <2>1 DEF CachedWith
  <2>. QED
    BY <1>1, <2>1, <2>2, Together
<1>2. CASE view \notin DOMAIN cache
  BY <1>2 DEF CachedWith
<1>. QED
  BY <1>1, <1>2

\* What is shown instead of a page
LEMMA SubstituteIs ==
  ASSUME CacheTyped, view \in Views
  PROVE  /\ Substitute \in Stored /\ OfView(view, Substitute.rows)
         /\ Doubled(Substitute.rows) => \E v \in DOMAIN cache : Doubled(cache[v].rows)
<1>1. CASE view \in DOMAIN cache
  BY <1>1 DEF CacheTyped, Substitute
<1>2. CASE view \notin DOMAIN cache
  BY <1>2, NoRows DEF Substitute, Stored, OfView
<1>. QED
  BY <1>1, <1>2

LEMMA CountedIs ==
  ASSUME lapses \in LapsesType, NEW j \in CountDone
  PROVE  Counted(j, lapses) \in LapsesType
<1>1. (j.commits < lapses.counted \/ j.commits < lapses.silent) \in BOOLEAN
  OBVIOUS
<1>2. (IF j.commits > lapses.counted THEN j.commits ELSE lapses.counted) \in Nat
  BY DEF LapsesType, CountDone
<1>. QED
  BY <1>1, <1>2 DEF LapsesType, Counted

\* The device
LEMMA TypedByDevice ==
  ASSUME Typed, NEW j \in Jobs, DeviceActs(j)
  PROVE  Typed'
<1>1. TypedNow /\ JobType(j)
  BY TypedParts DEF Typed, JobsTyped, Jobs
<1>2. JobsTyped(BagRemove(jobs, j))
  BY <1>1, JobsAre DEF TypedNow
<1>3. UNCHANGED tables /\ UNCHANGED left /\ UNCHANGED view
  BY DEF DeviceActs, UsePage, PageFailed, FinishWrite, ReloadByThread, FinishRefresh, UseCount,
         UseConnection, pane
<1>4. TablesTyped' /\ left' \in Scenario
  BY <1>1, <1>3, Same DEF TypedNow
<1>. DEFINE Kept6 == /\ NotesTyped' /\ ListTyped' /\ CacheTyped' /\ PagerTyped' /\ HistoryTyped'
                     /\ JobsTyped(jobs')
<1>5. ASSUME UsePage(j) PROVE Kept6
  <2>1. /\ j \in PageDone /\ OfView(j.view, j.rows) /\ ~Doubled(j.rows)
        /\ j.rows \in Seq(Row) /\ j.next \in Nat /\ j.more \in BOOLEAN /\ j.append \in BOOLEAN
    BY <1>1, <1>5, JobKinds DEF UsePage, PageDone
  <2>2. /\ jobs' = BagRemove(jobs, j) /\ loading' = FALSE /\ UNCHANGED notes /\ UNCHANGED count
    BY <1>5 DEF UsePage, LoadingAfter
  <2>3. NotesTyped' /\ JobsTyped(jobs')
    BY <1>1, <1>2, <2>2, Same DEF TypedNow
  <2>4. CASE j.view = view
    <3>1. /\ Merge(j.rows, ~j.append)
          /\ cache' = Cached(view, [rows |-> CacheAfter(j), next |-> j.next, more |-> j.more])
          /\ next' = j.next /\ more' = j.more
          /\ lapses' = [lapses EXCEPT
               !.missed = @ \/ Overtook(j),
               !.based = IF j.append THEN @ ELSE lapses.writes,
               !.overlap = @ \/ (j.append /\ Ids(j.rows) \cap Ids(CachedWith(<<>>)) # {}),
               !.stuck = FALSE]
      BY <1>5, <2>4 DEF UsePage, IsForView
    <3>2. ListTyped' /\ broken' \in BOOLEAN
      <4>1. (~j.append) \in BOOLEAN
        OBVIOUS
      <4>2. list' \in Seq(Row) /\ ~Doubled(list') /\ row' \in 0..Len(list') /\ broken' \in BOOLEAN
        BY <1>1, <2>1, <3>1, <4>1, MergeIs DEF TypedNow
      <4>. QED
        BY <1>1, <1>3, <4>2 DEF ListTyped, TypedNow
    <3>3. CacheTyped'
      <4>1. CacheAfter(j) \in Seq(Row) /\ OfView(view, CacheAfter(j))
        BY <1>1, <2>1, <2>4, CachedIs DEF CacheAfter, TypedNow
      <4>. DEFINE p == [rows |-> CacheAfter(j), next |-> j.next, more |-> j.more]
      <4>2. p \in Stored /\ OfView(view, p.rows)
        BY <2>1, <4>1 DEF Stored
      <4>. HIDE DEF p
      <4>3. cache' = [w \in DOMAIN cache \cup {view} |-> IF w = view THEN p ELSE cache[w]]
        BY <3>1 DEF Cached, p
      <4>4. DOMAIN cache' = DOMAIN cache \cup {view}
        BY <4>3
      <4>5. \A w \in DOMAIN cache' : cache'[w] \in Stored /\ OfView(w, cache'[w].rows)
        BY <1>1, <4>2, <4>3, <4>4 DEF CacheTyped, TypedNow
      <4>. QED
        BY <1>1, <4>4, <4>5 DEF CacheTyped, TypedNow
    <3>4. lapses' \in LapsesType
      <4>1. (lapses.missed \/ Overtook(j)) \in BOOLEAN
        OBVIOUS
      <4>2. (IF j.append THEN lapses.based ELSE lapses.writes) \in Nat
        BY <1>1 DEF TypedNow, LapsesType
      <4>3. (lapses.overlap \/ (j.append /\ Ids(j.rows) \cap Ids(CachedWith(<<>>)) # {}))
              \in BOOLEAN
        OBVIOUS
      <4>. QED
        BY <1>1, <3>1, <4>1, <4>2, <4>3 DEF TypedNow, LapsesType
    <3>. QED
      BY <1>1, <2>1, <2>2, <2>3, <3>1, <3>2, <3>3, <3>4 DEF PagerTyped, HistoryTyped, TypedNow
  <2>5. CASE j.view # view
    <3>1. /\ lapses' = [lapses EXCEPT !.missed = TRUE, !.stuck = FALSE]
          /\ UNCHANGED <<list, row, cache, broken, next, more>>
      BY <1>5, <2>5 DEF UsePage, IsForView
    <3>2. lapses' \in LapsesType
      BY <1>1, <3>1 DEF TypedNow, LapsesType
    <3>. QED
      BY <1>1, <1>3, <2>2, <2>3, <3>1, <3>2, Same DEF PagerTyped, HistoryTyped, TypedNow
  <2>. QED
    BY <2>4, <2>5
<1>6. ASSUME PageFailed(j) PROVE Kept6
  <2>. DEFINE rest == BagRemove(jobs, j)
  <2>1. j.append \in BOOLEAN
    BY <1>1, <1>6, JobKinds DEF PageFailed, PageLost
  <2>2. UNCHANGED cache /\ UNCHANGED count /\ CacheTyped'
    BY <1>1, <1>6, Same DEF PageFailed, TypedNow
  <2>3. CASE ~IsForView(j)
    <3>1. /\ jobs' = rest /\ UNCHANGED <<list, row, broken, pager, notes>>
          /\ \E so \in BOOLEAN : lapses' = [lapses EXCEPT !.missed = TRUE, !.stuck = so]
      BY <1>6, <2>3 DEF PageFailed
    <3>2. lapses' \in LapsesType
      BY <1>1, <3>1 DEF TypedNow, LapsesType
    <3>. QED
      BY <1>1, <1>2, <1>3, <2>2, <3>1, <3>2, Same DEF HistoryTyped, TypedNow
  <2>4. CASE IsForView(j)
    <3>1. /\ IF j.append
               THEN more' = FALSE /\ UNCHANGED <<list, row, broken, next>>
               ELSE /\ Merge(Substitute.rows, TRUE)
                    /\ next' = Substitute.next
                    /\ more' = Substitute.more
          /\ loading' = FALSE
          /\ \/ jobs' = rest /\ UNCHANGED notes
             \/ ~Offline /\ jobs' = BagAdd(rest, ConnectJob) /\ notes' = EmptyBag
          /\ lapses' = [lapses EXCEPT !.missed = TRUE, !.stuck = FALSE]
      BY <1>6, <2>4 DEF PageFailed
    <3>2. lapses' \in LapsesType
      BY <1>1, <3>1 DEF TypedNow, LapsesType
    <3>3. NotesTyped' /\ JobsTyped(jobs')
      <4>1. CASE jobs' = rest /\ UNCHANGED notes
        BY <1>1, <1>2, <4>1, Same DEF TypedNow
      <4>2. CASE jobs' = BagAdd(rest, ConnectJob) /\ notes' = EmptyBag
        BY <1>2, <4>2, NewJobs, JobsAre, Emptied DEF NotesTyped
      <4>. QED
        BY <3>1, <4>1, <4>2
    <3>4. ListTyped' /\ PagerTyped' /\ broken' \in BOOLEAN
      <4>1. CASE j.append
        BY <1>1, <1>3, <3>1, <4>1, Same DEF PagerTyped, TypedNow
      <4>2. CASE ~j.append
        <5>1. Substitute.rows \in Seq(Row) /\ Substitute.next \in Nat /\ Substitute.more \in BOOLEAN
          BY <1>1, SubstituteIs DEF Stored, TypedNow
        <5>2. list' \in Seq(Row) /\ ~Doubled(list') /\ row' \in 0..Len(list') /\ broken' \in BOOLEAN
          BY <1>1, <3>1, <4>2, <5>1, MergeIs DEF TypedNow
        <5>. QED
          BY <1>1, <1>3, <3>1, <4>2, <5>1, <5>2 DEF ListTyped, PagerTyped, TypedNow
      <4>. QED
        BY <4>1, <4>2
    <3>. QED
      BY <1>1, <2>2, <3>2, <3>3, <3>4 DEF HistoryTyped, TypedNow
  <2>. QED
    BY <2>3, <2>4
<1>7. ASSUME FinishWrite(j) PROVE Kept6
  <2>1. /\ UNCHANGED notes /\ UNCHANGED pane /\ UNCHANGED pager
        /\ \E so \in BOOLEAN : lapses' = Missed(so)
        /\ \E rest \in {BagRemove(jobs, j), BagAdd(BagRemove(jobs, j), CountJob)} :
             jobs' = rest \/ jobs' = BagAdd(rest, ReloadJob(view))
    BY <1>7 DEF FinishWrite
  <2>2. lapses' \in LapsesType
    BY <1>1, <2>1, MissedIs DEF TypedNow
  <2>3. JobsTyped(jobs')
    BY <1>1, <1>2, <2>1, NewJobs, JobsAre DEF TypedNow
  <2>. QED
    BY <1>1, <2>1, <2>2, <2>3, Same DEF HistoryTyped, TypedNow, pane
<1>8. ASSUME ReloadByThread(j) PROVE Kept6
  <2>1. /\ UNCHANGED notes /\ UNCHANGED pane /\ lapses' = Missed(Paging)
        /\ jobs' = BagAdd(BagRemove(jobs, j), PageJob(j.view, FALSE, 0))
        /\ loading' = TRUE /\ next' = 0 /\ more' = FALSE
    BY <1>8 DEF ReloadByThread
  <2>2. j.view \in Views
    BY <1>1, <1>8, JobKinds DEF ReloadByThread, Reloading
  <2>3. JobsTyped(jobs')
    BY <1>2, <2>1, <2>2, NewJobs, JobsAre
  <2>4. lapses' \in LapsesType
    <3>1. Paging \in BOOLEAN
      BY DEF Paging
    <3>. QED
      BY <1>1, <2>1, <3>1, MissedIs DEF TypedNow
  <2>. QED
    BY <1>1, <2>1, <2>3, <2>4, Same DEF HistoryTyped, PagerTyped, TypedNow, pane
<1>9. ASSUME FinishRefresh(j) PROVE Kept6
  <2>1. UNCHANGED notes /\ UNCHANGED pane
    BY <1>9 DEF FinishRefresh
  <2>2. JobsTyped(BagAdd(BagRemove(jobs, j), CountJob))
    BY <1>2, NewJobs, JobsAre
  <2>3. \/ LoadPage(view, FALSE, BagAdd(BagRemove(jobs, j), CountJob), lapses)
        \/ /\ jobs' \in {BagRemove(jobs, j), BagAdd(BagRemove(jobs, j), CountJob)}
           /\ UNCHANGED pager
           /\ \E so \in BOOLEAN : lapses' = Missed(so)
    BY <1>9 DEF FinishRefresh
  <2>4. PagerTyped' /\ JobsTyped(jobs') /\ lapses' \in LapsesType
    <3>1. CASE LoadPage(view, FALSE, BagAdd(BagRemove(jobs, j), CountJob), lapses)
      BY <1>1, <2>2, <3>1, LoadPageIs DEF TypedNow
    <3>2. CASE /\ jobs' \in {BagRemove(jobs, j), BagAdd(BagRemove(jobs, j), CountJob)}
               /\ UNCHANGED pager
               /\ \E so \in BOOLEAN : lapses' = Missed(so)
      BY <1>1, <1>2, <2>2, <3>2, MissedIs, Same DEF TypedNow
    <3>. QED
      BY <2>3, <3>1, <3>2
  <2>. QED
    BY <1>1, <2>1, <2>4, Same DEF HistoryTyped, TypedNow, pane
<1>10. ASSUME UseCount(j) PROVE Kept6
  <2>1. /\ jobs' = BagRemove(jobs, j)
        /\ UNCHANGED <<notes, view, list, row, cache, broken, pager>>
    BY <1>10 DEF UseCount
  <2>2. lapses' \in LapsesType /\ count' \in Nat
    <3>1. CASE j.state = "done"
      <4>1. j \in CountDone
        BY <1>1, <1>10, <3>1, JobKinds DEF UseCount
      <4>2. count' = j.value /\ lapses' = Counted(j, lapses) /\ j.value \in Nat
        BY <1>10, <3>1, <4>1 DEF UseCount, CountDone
      <4>. QED
        BY <1>1, <4>1, <4>2, CountedIs DEF TypedNow
    <3>2. CASE j.state # "done"
      <4>1. lapses' = [lapses EXCEPT !.wrong = TRUE, !.silent = lapses.commits] /\ UNCHANGED count
        BY <1>10, <3>2 DEF UseCount
      <4>. QED
        BY <1>1, <4>1 DEF TypedNow, LapsesType
    <3>. QED
      BY <3>1, <3>2
  <2>. QED
    BY <1>1, <1>2, <2>1, <2>2, Same DEF HistoryTyped, TypedNow
<1>11. ASSUME UseConnection(j) PROVE Kept6
  <2>1. j \in CountDone /\ j.value \in Nat
    BY <1>1, <1>11, JobKinds DEF UseConnection, CountDone
  <2>2. /\ count' = j.value /\ UNCHANGED <<notes, view, list, row, cache, broken>>
        /\ LoadPage(view, FALSE, BagRemove(jobs, j), Counted(j, lapses))
    BY <1>11 DEF UseConnection
  <2>3. Counted(j, lapses) \in LapsesType
    BY <1>1, <2>1, CountedIs DEF TypedNow
  <2>4. PagerTyped' /\ JobsTyped(jobs') /\ lapses' \in LapsesType
    BY <1>1, <1>2, <2>2, <2>3, LoadPageIs DEF TypedNow
  <2>. QED
    BY <1>1, <2>1, <2>2, <2>4, Same DEF HistoryTyped, TypedNow
<1>12. Kept6
  BY <1>5, <1>6, <1>7, <1>8, <1>9, <1>10, <1>11 DEF DeviceActs
<1>. QED
  BY <1>4, <1>12 DEF Typed, JobsTyped

LEMMA ArrivesTyped ==
  ASSUME TablesTyped, NotesTyped, lapses \in LapsesType, UNCHANGED queued,
         NEW some \in SUBSET Articles, NEW from \in {"own", "scheduler"}, NEW f \in Feeds,
         NEW missed \in BOOLEAN, Arrives(some, from, f, missed)
  PROVE  TablesTyped' /\ NotesTyped' /\ lapses' \in LapsesType
<1>1. TablesTyped'
  <2>1. articles' = [a \in DOMAIN articles \cup some |-> IF a \in some THEN FALSE ELSE articles[a]]
    BY DEF Arrives
  <2>2. /\ DOMAIN articles' = DOMAIN articles \cup some
        /\ \A a \in DOMAIN articles' : articles'[a] \in BOOLEAN
    BY <2>1 DEF TablesTyped
  <2>3. articles' = [a \in DOMAIN articles' |-> articles'[a]]
    BY <2>1
  <2>. QED
    BY <2>2, <2>3 DEF TablesTyped
<1>2. NotesTyped'
  <2>1. Notify({f}, from) /\ {f} \subseteq Nodes \cup {Everywhere}
    BY FeedsAre DEF Arrives
  <2>. QED
    BY <2>1, NotifyIs
<1>3. lapses' \in LapsesType
  <2>1. lapses' = [lapses EXCEPT !.commits = IF some = {} THEN @ ELSE @ + 1, !.missed = missed]
    BY DEF Arrives
  <2>2. (IF some = {} THEN lapses.commits ELSE lapses.commits + 1) \in Nat
    BY DEF LapsesType
  <2>. QED
    BY <2>1, <2>2 DEF LapsesType
<1>. QED
  BY <1>1, <1>2, <1>3

LEMMA AskedIs ==
  Asked \subseteq Writing
<1>1. \A op \in {"read", "unread", "queue", "unqueue"}, a \in Articles, copy \in BOOLEAN :
        WriteJob(op, IF copy THEN Queue ELSE FeedOf(a), a, copy) \in Writing
  BY FeedsAre DEF WriteJob, Writing
<1>2. ASSUME NEW w \in Asked PROVE w \in Writing
  <2>. DEFINE marks == {WriteJob(op, IF copy THEN Queue ELSE FeedOf(a), a, copy) :
                          op \in {"read", "unread", "queue", "unqueue"}, a \in Articles,
                          copy \in BOOLEAN}
  <2>1. CASE w \in marks
    <3>1. PICK op \in {"read", "unread", "queue", "unqueue"}, a \in Articles, copy \in BOOLEAN :
            w = WriteJob(op, IF copy THEN Queue ELSE FeedOf(a), a, copy)
      BY <2>1, SMTT(30)
    <3>. QED
      BY <1>1, <3>1
  <2>2. CASE w \notin marks
    <3>1. \E n \in Nodes : w = WriteJob("all", n, 0, FALSE)
      <4>. DEFINE alls == {WriteJob("all", n, 0, FALSE) : n \in Nodes}
      <4>1. Asked = marks \cup alls
        BY DEF Asked
      <4>. HIDE DEF marks
      <4>2. w \in alls
        BY <1>2, <2>2, <4>1
      <4>. QED
        BY <4>2
    <3>. QED
      BY <3>1, NewJobs
  <2>. QED
    BY <2>1, <2>2
<1>. QED
  BY <1>2

\* The server
LEMMA TypedByServer ==
  ASSUME Typed, NEW j \in Jobs, ServerActs(j)
  PROVE  Typed'
<1>1. TypedNow /\ JobType(j)
  BY TypedParts DEF Typed, JobsTyped, Jobs
<1>2. /\ UNCHANGED pane /\ UNCHANGED pager /\ UNCHANGED left
  BY DEF ServerActs, ServePage, ServeCount, ServeConnection, ServeWrite, ServeRefresh
<1>3. ListTyped' /\ CacheTyped' /\ PagerTyped' /\ left' \in Scenario
  BY <1>1, <1>2, Same DEF pane, TypedNow
<1>. DEFINE Kept4 == TablesTyped' /\ NotesTyped' /\ lapses' \in LapsesType /\ JobsTyped(jobs')
<1>4. ASSUME NEW k, JobType(k), jobs' = BagAdd(BagRemove(jobs, j), k)
      PROVE  JobsTyped(jobs')
  BY <1>1, <1>4, JobsAre DEF TypedNow
<1>5. ASSUME ServePage(j) PROVE Kept4
  <2>. DEFINE all  == Listing(j.view)
              last == IF j.offset + Limit < Len(all) THEN j.offset + Limit ELSE Len(all)
              rows == SubSeq(all, j.offset + 1, last)
              stamp == IF \E k \in Jobs : k.job = "write" /\ k.state = "asked"
                         THEN 0 - 1 ELSE lapses.writes
              p == [job |-> "page", state |-> "done", view |-> j.view, append |-> j.append,
                    rows |-> rows, next |-> j.offset + Len(rows), more |-> last < Len(all),
                    writes |-> stamp]
  <2>1. j.view \in Views /\ j.append \in BOOLEAN /\ j.offset \in Nat
    BY <1>1, <1>5, JobKinds DEF ServePage, Serving, PageAsked
  <2>2. /\ jobs' = BagAdd(BagRemove(jobs, j), p)
        /\ UNCHANGED tables /\ UNCHANGED notes /\ UNCHANGED lapses
    BY <1>5 DEF ServePage
  <2>3. all \in Seq(Row) /\ OfView(j.view, all) /\ ~Doubled(all)
    BY <1>1, <2>1, ListingIs DEF TypedNow
  <2>. HIDE DEF all
  <2>4. last \in Nat /\ last <= Len(all)
    BY <2>1, <2>3, PaneAssumption
  <2>. HIDE DEF last
  <2>5. rows \in Seq(Row) /\ ~Doubled(rows) /\ OfView(j.view, rows) /\ Len(rows) \in Nat
    BY <2>1, <2>3, <2>4, PartIs
  <2>. HIDE DEF rows
  <2>6. stamp \in Int
    BY <1>1 DEF TypedNow, LapsesType
  <2>. HIDE DEF stamp
  <2>7. JobType(p)
    <3>1. p \in PageDone
      BY <2>1, <2>5, <2>6 DEF PageDone
    <3>2. p.view = j.view /\ p.rows = rows
      OBVIOUS
    <3>. QED
      BY <2>5, <3>1, <3>2 DEF JobType
  <2>. HIDE DEF p
  <2>. QED
    BY <1>1, <1>4, <2>2, <2>7, Same DEF TypedNow
<1>6. JobType(Count("count")) /\ JobType(Count("connect"))
  <2>1. Unread \in Nat /\ lapses.commits \in Nat
    BY <1>1, UnreadIs DEF TypedNow, LapsesType
  <2>. QED
    BY <2>1 DEF Count, JobType, CountDone
<1>7. ASSUME ServeCount(j) \/ ServeConnection(j) PROVE Kept4
  <2>1. /\ UNCHANGED tables /\ UNCHANGED notes /\ UNCHANGED lapses
        /\ \E k \in {Count("count"), Count("connect")} : jobs' = BagAdd(BagRemove(jobs, j), k)
    BY <1>7 DEF ServeCount, ServeConnection
  <2>. QED
    BY <1>1, <1>4, <1>6, <2>1, Same DEF TypedNow
<1>8. ASSUME ServeWrite(j) PROVE Kept4
  <2>1. j \in Writing
    BY <1>1, <1>8, JobKinds DEF ServeWrite, Serving
  <2>2. /\ articles' = ArticlesAfter(j) /\ queued' = QueuedAfter(j)
        /\ Notify(Told(j), "own")
        /\ \E s \in {"failed", "done"} : jobs' = BagAdd(BagRemove(jobs, j), [j EXCEPT !.state = s])
        /\ lapses' = [lapses EXCEPT
             !.commits = IF Changes(j) THEN @ + 1 ELSE @,
             !.wrong = @ \/ (~Changes(j) /\ j.op \in {"read", "unread"})]
    BY <1>8 DEF ServeWrite
  <2>3. TablesTyped'
    BY <1>1, <2>1, <2>2, WritesTyped DEF TablesTyped, TypedNow
  <2>4. NotesTyped'
    BY <1>1, <2>1, <2>2, WritesTyped, NotifyIs DEF TypedNow
  <2>5. JobsTyped(jobs')
    <3>1. \A s \in {"failed", "done"} : [j EXCEPT !.state = s] \in Writing
      BY <2>1 DEF Writing
    <3>. QED
      BY <1>4, <2>2, <3>1, NewJobs
  <2>6. lapses' \in LapsesType
    <3>1. (lapses.wrong \/ (~Changes(j) /\ j.op \in {"read", "unread"})) \in BOOLEAN
      OBVIOUS
    <3>2. (IF Changes(j) THEN lapses.commits + 1 ELSE lapses.commits) \in Nat
      BY <1>1 DEF TypedNow, LapsesType
    <3>. QED
      BY <1>1, <2>2, <3>1, <3>2 DEF TypedNow, LapsesType
  <2>. QED
    BY <2>3, <2>4, <2>5, <2>6
<1>9. ASSUME ServeRefresh(j) PROVE Kept4
  <2>1. j \in Refreshing /\ j.feed \in Feeds
    BY <1>1, <1>9, JobKinds DEF ServeRefresh, Serving, Refreshing
  <2>2. PICK some \in {{}} \cup {{a} : a \in Holds[j.feed] \ DOMAIN articles} :
          Arrives(some, "own", j.feed, lapses.missed)
    BY <1>9 DEF ServeRefresh
  <2>3. jobs' = BagAdd(BagRemove(jobs, j), [j EXCEPT !.state = "done"]) /\ UNCHANGED queued
    BY <1>9 DEF ServeRefresh
  <2>4. some \subseteq Articles
    <3>1. Holds[j.feed] \subseteq Articles
      BY <2>1, PaneAssumption DEF Feeds
    <3>. QED
      BY <2>2, <3>1
  <2>5. TablesTyped' /\ NotesTyped' /\ lapses' \in LapsesType
    BY <1>1, <2>1, <2>2, <2>3, <2>4, ArrivesTyped DEF TypedNow
  <2>6. [j EXCEPT !.state = "done"] \in Refreshing
    BY <2>1 DEF Refreshing
  <2>7. JobType([j EXCEPT !.state = "done"])
    BY <2>6 DEF JobType
  <2>. QED
    BY <1>4, <2>3, <2>5, <2>7
<1>10. Kept4
  BY <1>5, <1>7, <1>8, <1>9 DEF ServerActs
<1>. QED
  BY <1>1, <1>2, <1>3, <1>10 DEF Typed, JobsTyped, HistoryTyped, TypedNow, pane

\* A change that no job waits for
LEMMA CommitsTyped ==
  ASSUME TypedNow, NEW w \in Writing, NEW from \in {"own", "other"}, NEW missed \in BOOLEAN,
         Commits(w, from, missed)
  PROVE  TablesTyped' /\ NotesTyped' /\ lapses' \in LapsesType
<1>1. /\ articles' = ArticlesAfter(w) /\ queued' = QueuedAfter(w)
      /\ Notify(Told(w), from)
      /\ lapses' = [lapses EXCEPT
           !.commits = @ + 1,
           !.missed = missed \/ Throws(w),
           !.wrong = @ \/ Throws(w),
           !.silent = IF Throws(w) THEN lapses.commits + 1 ELSE @]
  BY DEF Commits
<1>2. TablesTyped'
  BY <1>1, WritesTyped DEF TablesTyped, TypedNow
<1>3. NotesTyped'
  BY <1>1, WritesTyped, NotifyIs DEF TypedNow
<1>4. lapses' \in LapsesType
  <2>1. /\ (missed \/ Throws(w)) \in BOOLEAN /\ (lapses.wrong \/ Throws(w)) \in BOOLEAN
    OBVIOUS
  <2>2. /\ lapses.commits + 1 \in Nat
        /\ (IF Throws(w) THEN lapses.commits + 1 ELSE lapses.silent) \in Nat
    BY DEF TypedNow, LapsesType
  <2>. QED
    BY <1>1, <2>1, <2>2 DEF TypedNow, LapsesType
<1>. QED
  BY <1>2, <1>3, <1>4

\* What a request that had failed does when it is handled.
LEMMA LateIs ==
  ASSUME TypedNow, AstrayTyped, NEW j \in BagToSet(astray), CommitAstray(j)
  PROVE  \E missed \in BOOLEAN :
           /\ missed <=> lapses.missed \/ ~ReloadAsked
           /\ \/ j \in Writing /\ Commits(j, "own", missed)
              \/ /\ j.feed \in Feeds /\ UNCHANGED queued
                 /\ \E some \in SUBSET Articles : some # {} /\ Arrives(some, "own", j.feed, missed)
<1>. DEFINE missed == lapses.missed \/ ~ReloadAsked
<1>1. missed \in BOOLEAN
  OBVIOUS
<1>2. /\ j \in Writing => j.job = "write"
      /\ j \in Refreshing => j.job = "refresh" /\ j.feed \in Feeds
      /\ j \in Writing \/ j \in Refreshing
  BY DEF AstrayTyped, Writing, Refreshing
<1>3. \/ j.job = "write" /\ Commits(j, "own", missed)
      \/ /\ j.job = "refresh"
         /\ \E a \in Holds[j.feed] \ DOMAIN articles : Arrives({a}, "own", j.feed, missed)
         /\ UNCHANGED queued
  BY DEF CommitAstray
<1>4. missed <=> lapses.missed \/ ~ReloadAsked
  OBVIOUS
<1>. HIDE DEF missed
<1>5. CASE j \in Writing
  BY <1>1, <1>2, <1>3, <1>4, <1>5
<1>6. CASE j \in Refreshing
  <2>1. PICK a \in Holds[j.feed] \ DOMAIN articles :
          Arrives({a}, "own", j.feed, missed) /\ UNCHANGED queued
    BY <1>2, <1>3, <1>6
  <2>2. {a} \in SUBSET Articles /\ {a} # {}
    BY <1>2, <1>6, PaneAssumption DEF Feeds
  <2>. QED
    BY <1>1, <1>2, <1>4, <1>6, <2>1, <2>2
<1>. QED
  BY <1>2, <1>5, <1>6

\* The scheduler, other devices, notifications and faults
LEMMA TypedByOthers ==
  ASSUME Typed, AstrayTyped,
         \/ \E m \in BagToSet(notes) : ReceiveNote(m)
         \/ \E a \in Articles : SchedulerFetches(a)
         \/ \E w \in Asked : OtherDeviceWrites(w)
         \/ \E j \in Jobs : RequestFails(j)
         \/ \E j \in BagToSet(astray) : CommitAstray(j)
         \/ LoseConnection
  PROVE  Typed'
<1>1. TypedNow
  BY TypedParts
<1>2. ASSUME NEW m \in BagToSet(notes), ReceiveNote(m) PROVE Typed'
  <2>1. /\ notes' = BagRemove(notes, m)
        /\ cache' \in {cache, [v \in {} |-> NoLapses]}
        /\ UNCHANGED <<tables, view, list, row, count, broken, left>>
        /\ \/ LoadPage(view, FALSE, BagAdd(jobs, CountJob), lapses)
           \/ /\ jobs' = BagAdd(jobs, CountJob) /\ UNCHANGED pager
              /\ \E so \in BOOLEAN : lapses' = Missed(so)
    BY <1>2 DEF ReceiveNote
  <2>2. NotesTyped'
    BY <1>1, <2>1, Taken DEF NotesTyped, TypedNow
  <2>3. CacheTyped'
    BY <1>1, <2>1 DEF CacheTyped, TypedNow
  <2>4. JobsTyped(BagAdd(jobs, CountJob))
    BY <1>1, NewJobs, JobsAre DEF TypedNow
  <2>5. PagerTyped' /\ JobsTyped(jobs') /\ lapses' \in LapsesType
    <3>1. CASE LoadPage(view, FALSE, BagAdd(jobs, CountJob), lapses)
      BY <1>1, <2>4, <3>1, LoadPageIs DEF TypedNow
    <3>2. CASE /\ jobs' = BagAdd(jobs, CountJob) /\ UNCHANGED pager
               /\ \E so \in BOOLEAN : lapses' = Missed(so)
      BY <1>1, <2>4, <3>2, MissedIs, Same DEF TypedNow
    <3>. QED
      BY <2>1, <3>1, <3>2
  <2>. QED
    BY <1>1, <2>1, <2>2, <2>3, <2>5, Same DEF Typed, JobsTyped, HistoryTyped, TypedNow
<1>3. ASSUME NEW a \in Articles, SchedulerFetches(a) PROVE Typed'
  <2>1. /\ left' \in Scenario /\ Arrives({a}, "scheduler", FeedOf(a), lapses.missed)
        /\ UNCHANGED queued /\ UNCHANGED jobs /\ UNCHANGED pane /\ UNCHANGED pager
    BY <1>1, <1>3, SpendIs DEF SchedulerFetches, TypedNow
  <2>2. TablesTyped' /\ NotesTyped' /\ lapses' \in LapsesType
    BY <1>1, <2>1, FeedsAre, ArrivesTyped DEF TypedNow
  <2>. QED
    BY <1>1, <2>1, <2>2, Same DEF Typed, JobsTyped, HistoryTyped, TypedNow, pane
<1>4. ASSUME NEW w \in Asked, OtherDeviceWrites(w) PROVE Typed'
  <2>1. w \in Writing
    BY AskedIs
  <2>2. /\ left' \in Scenario /\ Commits(w, "other", lapses.missed)
        /\ UNCHANGED jobs /\ UNCHANGED pane /\ UNCHANGED pager
    BY <1>1, <1>4, SpendIs DEF OtherDeviceWrites, TypedNow
  <2>3. TablesTyped' /\ NotesTyped' /\ lapses' \in LapsesType
    BY <1>1, <2>1, <2>2, CommitsTyped DEF TypedNow
  <2>. QED
    BY <1>1, <2>2, <2>3, Same DEF Typed, JobsTyped, HistoryTyped, TypedNow, pane
<1>5. ASSUME NEW j \in Jobs, RequestFails(j) PROVE Typed'
  <2>1. /\ left' \in Scenario
        /\ UNCHANGED tables /\ UNCHANGED notes /\ UNCHANGED pane /\ UNCHANGED pager
        /\ UNCHANGED lapses
    BY <1>1, <1>5, SpendIs DEF RequestFails, TypedNow
  <2>2. JobsTyped(jobs')
    <3>1. JobType(j)
      BY <1>1 DEF TypedNow, JobsTyped, Jobs
    <3>2. PICK k : /\ jobs' = BagAdd(BagRemove(jobs, j), k)
                   /\ k = CASE j.job = "page"  -> [job |-> "page", state |-> "failed",
                                                   view |-> j.view, append |-> j.append]
                            [] j.job = "count" -> [job |-> "count", state |-> "failed"]
                            [] OTHER           -> [j EXCEPT !.state = "failed"]
      BY <1>5 DEF RequestFails
    <3>3. JobType(k)
      <4>1. CASE j.job = "page"
        <5>1. k = [job |-> "page", state |-> "failed", view |-> j.view, append |-> j.append]
          BY <3>2, <4>1
        <5>2. j \in PageAsked \/ j \in PageDone
          BY <1>5, <3>1, <4>1, JobKinds DEF RequestFails
        <5>3. k \in PageLost
          BY <5>1, <5>2 DEF PageAsked, PageDone, PageLost
        <5>. QED
          BY <5>3 DEF JobType
      <4>2. CASE j.job = "count"
        <5>1. k = [job |-> "count", state |-> "failed"]
          BY <3>2, <4>2
        <5>. QED
          BY <5>1 DEF JobType, CountOpen
      <4>3. CASE j.job \in {"write", "refresh"}
        <5>1. k = [j EXCEPT !.state = "failed"] /\ (j \in Writing \/ j \in Refreshing)
          BY <3>1, <3>2, <4>3, JobKinds
        <5>2. k \in Writing \/ k \in Refreshing
          BY <5>1 DEF Writing, Refreshing
        <5>. QED
          BY <5>2 DEF JobType
      <4>. QED
        BY <1>5, <4>1, <4>2, <4>3 DEF RequestFails
    <3>. QED
      BY <1>1, <3>2, <3>3, JobsAre DEF TypedNow
  <2>. QED
    BY <1>1, <2>1, <2>2, Same DEF Typed, JobsTyped, HistoryTyped, TypedNow, pane
<1>6. ASSUME NEW j \in BagToSet(astray), CommitAstray(j) PROVE Typed'
  <2>1. UNCHANGED jobs /\ UNCHANGED pane /\ UNCHANGED pager /\ UNCHANGED left
    BY <1>6 DEF CommitAstray
  <2>2. TablesTyped' /\ NotesTyped' /\ lapses' \in LapsesType
    BY <1>1, <1>6, LateIs, CommitsTyped, ArrivesTyped DEF TypedNow
  <2>. QED
    BY <1>1, <2>1, <2>2, Same DEF Typed, JobsTyped, HistoryTyped, TypedNow, pane
<1>7. ASSUME LoseConnection PROVE Typed'
  <2>1. /\ left' \in Scenario /\ notes' = EmptyBag /\ jobs' = BagAdd(jobs, ConnectJob)
        /\ UNCHANGED tables /\ UNCHANGED pane /\ UNCHANGED pager /\ UNCHANGED lapses
    BY <1>1, <1>7, SpendIs DEF LoseConnection, TypedNow
  <2>2. JobsTyped(jobs') /\ NotesTyped'
    BY <1>1, <2>1, NewJobs, JobsAre, Emptied DEF TypedNow, NotesTyped
  <2>. QED
    BY <1>1, <2>1, <2>2, Same DEF Typed, JobsTyped, HistoryTyped, TypedNow, pane
<1>. QED
  BY <1>2, <1>3, <1>4, <1>5, <1>6, <1>7

LEMMA TypedKept ==
  ASSUME Typed, AstrayTyped, [Next]_vars
  PROVE  Typed'
<1>1. CASE UNCHANGED vars
  BY <1>1, Same, TypedParts DEF vars, pane, Typed, JobsTyped, HistoryTyped, TypedNow
<1>2. CASE Next
  BY <1>2, TypedByUser, TypedByDevice, TypedByServer, TypedByOthers DEF Next
<1>. QED
  BY <1>1, <1>2

LEMMA AstrayKept ==
  ASSUME Typed, AstrayTyped, [Next]_vars
  PROVE  AstrayTyped'
<1>1. CASE UNCHANGED astray
  BY <1>1 DEF AstrayTyped
<1>2. ASSUME NEW j \in Jobs, RequestFails(j) PROVE AstrayTyped'
  <2>1. JobType(j)
    BY TypedParts DEF TypedNow, JobsTyped, Jobs
  <2>2. CASE j.job \in {"write", "refresh"} /\ j.state = "asked"
    <3>1. astray' = BagAdd(astray, j)
      BY <1>2, <2>2 DEF RequestFails
    <3>2. j \in Writing \cup Refreshing
      BY <2>1, <2>2, JobKinds
    <3>. QED
      BY <3>1, <3>2, Added DEF AstrayTyped
  <2>3. CASE ~(j.job \in {"write", "refresh"} /\ j.state = "asked")
    BY <1>1, <1>2, <2>3 DEF RequestFails
  <2>. QED
    BY <2>2, <2>3
<1>3. ASSUME NEW j \in BagToSet(astray), CommitAstray(j) PROVE AstrayTyped'
  <2>1. astray' = BagRemove(astray, j)
    BY <1>3 DEF CommitAstray
  <2>. QED
    BY <2>1, Taken DEF AstrayTyped
<1>4. CASE UNCHANGED vars
  BY <1>1, <1>4 DEF vars
<1>5. CASE Next
  BY <1>1, <1>2, <1>3, <1>5 DEF Next
<1>. QED
  BY <1>4, <1>5

LEMMA AlwaysTyped == Spec => []Typed /\ []AstrayTyped
<1>1. Init => Typed /\ AstrayTyped
  <2>1. Init => AstrayTyped
    BY Emptied DEF Init, AstrayTyped
  <2>. QED
    BY <2>1, TypedAtFirst
<1>2. Typed /\ AstrayTyped /\ [Next]_vars => Typed' /\ AstrayTyped'
  BY TypedKept, AstrayKept
<1>. QED
  BY <1>1, <1>2, PTL DEF Spec

\* The variables keep their types, the selection is a row of the list, and the
\* list has an article once, whatever pages come in whatever order.
THEOREM TypeCorrect == Spec => []TypeOK
<1>1. Typed /\ AstrayTyped => TypeOK
  <2>1. left \in Scenario => <<left.acts, left.changes, left.faults>> \in Nat \X Nat \X Nat
    BY DEF Scenario
  <2>2. CacheTyped => \A v \in DOMAIN cache : cache[v].rows \in Seq(Row)
    BY DEF CacheTyped, Stored
  <2>. QED
    BY <2>1, <2>2 DEF Typed, TypeOK, TablesTyped, NotesTyped, ListTyped, CacheTyped, PagerTyped,
                      HistoryTyped, JobsTyped, AstrayTyped
<1>. QED
  BY <1>1, AlwaysTyped, PTL

-----------------------------------------------------------------------------
(* Loading                                                                   *)

LEMMA StillAccounted ==
  ASSUME LoadingAccounted, loading' => loading, lapses'.stuck = lapses.stuck,
         \A k \in Jobs : k.job = "page" => \E p \in BagToSet(jobs') : p.job = "page"
  PROVE  LoadingAccounted'
BY DEF LoadingAccounted, Paging, Jobs

LEMMA LoadPageAccounted ==
  ASSUME Typed, LoadingAccounted, NEW v \in Views, NEW append \in BOOLEAN, NEW rest,
         JobsTyped(rest), \A k \in Jobs : k.job = "page" => k \in BagToSet(rest),
         NEW history \in LapsesType, history.stuck = lapses.stuck,
         LoadPage(v, append, rest, history)
  PROVE  LoadingAccounted'
<1>1. /\ BagToSet(rest) \subseteq BagToSet(jobs')
      /\ loading' => loading \/ \E j \in BagToSet(jobs') : j.job = "page"
      /\ lapses'.stuck = history.stuck
  BY LoadPageIs DEF Typed, HistoryTyped
<1>2. CASE \E j \in BagToSet(jobs') : j.job = "page"
  BY <1>2 DEF LoadingAccounted, Paging, Jobs
<1>3. CASE ~(\E j \in BagToSet(jobs') : j.job = "page")
  BY <1>1, <1>3, StillAccounted
<1>. QED
  BY <1>2, <1>3

LEMMA AccountedByUser ==
  ASSUME Typed, LoadingAccounted, UserActs
  PROVE  LoadingAccounted'
<1>1. TypedNow /\ Typed' /\ view' \in Views
  BY TypedParts, TypedByUser DEF Typed, ListTyped
<1>2. ASSUME NEW append \in BOOLEAN, NEW v \in Views, LoadPage(v, append, jobs, lapses)
      PROVE  LoadingAccounted'
  BY <1>1, <1>2, LoadPageAccounted DEF TypedNow, Jobs
<1>3. CASE \/ \E n \in left.nodes : SelectNode(n)
           \/ \E q \in DOMAIN Titles : SearchArticles(q)
           \/ ToggleShowingReadArticles \/ LoadMoreArticles
  BY <1>1, <1>2, <1>3
     DEF SelectNode, SearchArticles, ToggleShowingReadArticles, LoadMoreArticles, TypedNow
<1>4. ASSUME UNCHANGED pager, lapses'.stuck = lapses.stuck,
             jobs' = jobs \/ \E k : jobs' = BagAdd(jobs, k)
      PROVE  LoadingAccounted'
  <2>1. BagToSet(jobs) \subseteq BagToSet(jobs')
    BY <1>1, <1>4, Added DEF TypedNow
  <2>. QED
    BY <1>4, <2>1, StillAccounted DEF pager, Jobs
<1>5. \A w : Wrote(w) \in LapsesType /\ Wrote(w).stuck = lapses.stuck
  BY <1>1, WroteIs DEF TypedNow
<1>6. ASSUME NEW i \in DOMAIN list, SelectArticle(i) PROVE LoadingAccounted'
  BY <1>4, <1>5, <1>6 DEF SelectArticle
<1>7. CASE MarkSelectedArticleUnread
  BY <1>4, <1>5, <1>7 DEF MarkSelectedArticleUnread
<1>8. CASE ToggleSelectedArticleQueued
  <2>. DEFINE job == WriteFor(IF list[row].queued THEN "unqueue" ELSE "queue", list[row])
  <2>1. \/ LoadPage(view, FALSE, BagAdd(jobs, job), Wrote(job))
        \/ jobs' = BagAdd(jobs, job) /\ lapses' = Wrote(job) /\ UNCHANGED pager
    BY <1>8 DEF ToggleSelectedArticleQueued
  <2>2. JobType(job)
    <3>1. list[row] \in Row
      BY <1>1, <1>8 DEF ToggleSelectedArticleQueued, TypedNow
    <3>. QED
      BY <1>1, <3>1, WriteForIs, NewJobs DEF TypedNow
  <2>. HIDE DEF job
  <2>3. JobsTyped(BagAdd(jobs, job)) /\ BagToSet(jobs) \subseteq BagToSet(BagAdd(jobs, job))
    BY <1>1, <2>2, JobsAre, Added DEF TypedNow
  <2>4. CASE LoadPage(view, FALSE, BagAdd(jobs, job), Wrote(job))
    BY <1>1, <1>5, <2>3, <2>4, LoadPageAccounted DEF TypedNow, Jobs
  <2>. QED
    BY <1>4, <1>5, <2>1, <2>4
<1>9. ASSUME NEW n \in left.nodes, MarkAllArticlesRead(n) PROVE LoadingAccounted'
  <2>1. PICK so, w : /\ jobs' = BagAdd(jobs, w) /\ UNCHANGED pager
                     /\ lapses' = [Wrote(w) EXCEPT !.missed = Wrote(w).missed \/ so]
    BY <1>9 DEF MarkAllArticlesRead
  <2>2. lapses'.stuck = lapses.stuck
    BY <1>5, <2>1 DEF LapsesType
  <2>. QED
    BY <1>4, <2>1, <2>2
<1>10. ASSUME NEW f \in Feeds, RefreshFeed(f) PROVE LoadingAccounted'
  BY <1>4, <1>10 DEF RefreshFeed
<1>. QED
  BY <1>3, <1>6, <1>7, <1>8, <1>9, <1>10 DEF UserActs

LEMMA AccountedByDevice ==
  ASSUME Typed, LoadingAccounted, NEW j \in Jobs, DeviceActs(j)
  PROVE  LoadingAccounted'
<1>1. TypedNow
  BY TypedParts
<1>2. JobsTyped(BagRemove(jobs, j)) /\ JobsTyped(BagAdd(BagRemove(jobs, j), CountJob))
  BY <1>1, NewJobs, JobsAre DEF TypedNow
<1>3. /\ Jobs \ {j} \subseteq BagToSet(BagRemove(jobs, j))
      /\ \A k : Jobs \ {j} \subseteq BagToSet(BagAdd(BagRemove(jobs, j), k))
  BY <1>1, Taken, Replaced DEF TypedNow, Jobs
<1>4. CASE UsePage(j)
  BY <1>4 DEF UsePage, LoadingAfter, LoadingAccounted
<1>5. CASE PageFailed(j)
  <2>1. CASE IsForView(j)
    BY <1>5, <2>1 DEF PageFailed, LoadingAccounted
  <2>2. CASE ~IsForView(j)
    <3>. DEFINE alone == loading /\ \A k \in BagToSet(BagRemove(jobs, j)) : k.job # "page"
    <3>1. /\ jobs' = BagRemove(jobs, j) /\ UNCHANGED pager
          /\ lapses' = [lapses EXCEPT !.missed = TRUE, !.stuck = alone]
      BY <1>5, <2>2 DEF PageFailed
    <3>. HIDE DEF alone
    <3>2. lapses'.stuck = alone
      BY <1>1, <3>1 DEF TypedNow, LapsesType
    <3>. QED
      BY <3>1, <3>2 DEF LoadingAccounted, Paging, Jobs, pager, alone
  <2>. QED
    BY <2>1, <2>2
<1>6. ASSUME UNCHANGED pager, j.job # "page", lapses'.stuck = lapses.stuck,
             Jobs \ {j} \subseteq BagToSet(jobs')
      PROVE  LoadingAccounted'
  BY <1>6, StillAccounted DEF pager
<1>7. \A so \in BOOLEAN : Missed(so).stuck = lapses.stuck
  BY <1>1, MissedIs DEF TypedNow
<1>8. CASE FinishWrite(j)
  <2>1. /\ UNCHANGED pager /\ j.job = "write" /\ \E so \in BOOLEAN : lapses' = Missed(so)
        /\ \E rest \in {BagRemove(jobs, j), BagAdd(BagRemove(jobs, j), CountJob)} :
             jobs' = rest \/ jobs' = BagAdd(rest, ReloadJob(view))
    BY <1>8 DEF FinishWrite
  <2>2. Jobs \ {j} \subseteq BagToSet(jobs')
    <3>1. \A rest \in {BagRemove(jobs, j), BagAdd(BagRemove(jobs, j), CountJob)} :
            BagToSet(rest) \subseteq BagToSet(BagAdd(rest, ReloadJob(view)))
      BY <1>2, Added DEF JobsTyped
    <3>. QED
      BY <1>3, <2>1, <3>1
  <2>. QED
    BY <1>6, <1>7, <2>1, <2>2
<1>9. CASE ReloadByThread(j)
  <2>1. jobs' = BagAdd(BagRemove(jobs, j), PageJob(j.view, FALSE, 0))
    BY <1>9 DEF ReloadByThread
  <2>2. PageJob(j.view, FALSE, 0) \in BagToSet(jobs')
    BY <1>1, <2>1, Replaced DEF TypedNow
  <2>. QED
    BY <2>2 DEF LoadingAccounted, Paging, Jobs, PageJob
<1>10. ASSUME j.job # "page", NEW rest, JobsTyped(rest), Jobs \ {j} \subseteq BagToSet(rest),
              NEW history \in LapsesType, history.stuck = lapses.stuck,
              LoadPage(view, FALSE, rest, history)
       PROVE  LoadingAccounted'
  <2>1. \A k \in Jobs : k.job = "page" => k \in BagToSet(rest)
    BY <1>10
  <2>2. view \in Views /\ FALSE \in BOOLEAN
    BY <1>1 DEF TypedNow
  <2>. QED
    BY <1>10, <2>1, <2>2, LoadPageAccounted
<1>11. CASE FinishRefresh(j)
  <2>1. /\ j.job = "refresh"
        /\ \/ LoadPage(view, FALSE, BagAdd(BagRemove(jobs, j), CountJob), lapses)
           \/ /\ jobs' \in {BagRemove(jobs, j), BagAdd(BagRemove(jobs, j), CountJob)}
              /\ UNCHANGED pager
              /\ \E so \in BOOLEAN : lapses' = Missed(so)
    BY <1>11 DEF FinishRefresh
  <2>2. CASE LoadPage(view, FALSE, BagAdd(BagRemove(jobs, j), CountJob), lapses)
    BY <1>1, <1>2, <1>3, <1>10, <2>1, <2>2 DEF TypedNow
  <2>. QED
    BY <1>3, <1>6, <1>7, <2>1, <2>2
<1>12. \A k : Counted(k, lapses).stuck = lapses.stuck
  BY <1>1 DEF Counted, TypedNow, LapsesType
<1>13. CASE UseCount(j)
  <2>1. /\ j.job # "page" /\ jobs' = BagRemove(jobs, j) /\ UNCHANGED pager
        /\ \/ lapses' = Counted(j, lapses)
           \/ lapses' = [lapses EXCEPT !.wrong = TRUE, !.silent = lapses.commits]
    BY <1>13 DEF UseCount
  <2>2. lapses'.stuck = lapses.stuck
    BY <1>1, <1>12, <2>1 DEF TypedNow, LapsesType
  <2>. QED
    BY <1>3, <1>6, <2>1, <2>2
<1>14. CASE UseConnection(j)
  <2>1. /\ j.job # "page" /\ LoadPage(view, FALSE, BagRemove(jobs, j), Counted(j, lapses))
        /\ j.job = "connect" /\ j.state = "done"
    BY <1>14 DEF UseConnection
  <2>2. Counted(j, lapses) \in LapsesType
    BY <1>1, <2>1, CountedIs, JobKinds DEF TypedNow, JobsTyped, Jobs
  <2>. QED
    BY <1>2, <1>3, <1>10, <1>12, <2>1, <2>2
<1>. QED
  BY <1>4, <1>5, <1>8, <1>9, <1>11, <1>13, <1>14 DEF DeviceActs

LEMMA AccountedByRest ==
  ASSUME Typed, LoadingAccounted,
         \/ \E j \in Jobs : ServerActs(j) \/ RequestFails(j)
         \/ \E j \in BagToSet(astray) : CommitAstray(j)
         \/ \E m \in BagToSet(notes) : ReceiveNote(m)
         \/ \E a \in Articles : SchedulerFetches(a)
         \/ \E w \in Asked : OtherDeviceWrites(w)
         \/ LoseConnection
  PROVE  LoadingAccounted'
<1>1. TypedNow
  BY TypedParts
<1>2. ASSUME UNCHANGED pager, lapses'.stuck = lapses.stuck, NEW j \in Jobs,
             NEW k, j.job = "page" => k.job = "page", jobs' = BagAdd(BagRemove(jobs, j), k)
      PROVE  LoadingAccounted'
  <2>1. (BagToSet(jobs) \ {j}) \cup {k} \subseteq BagToSet(jobs')
    BY <1>1, <1>2, Replaced DEF TypedNow
  <2>2. \A i \in Jobs : i.job = "page" => \E p \in BagToSet(jobs') : p.job = "page"
    BY <1>2, <2>1 DEF Jobs
  <2>. QED
    BY <1>2, <2>2, StillAccounted DEF pager
<1>3. ASSUME NEW j \in Jobs, ServerActs(j) PROVE LoadingAccounted'
  <2>1. /\ UNCHANGED pager
        /\ \E k : jobs' = BagAdd(BagRemove(jobs, j), k) /\ (j.job = "page" => k.job = "page")
    <3>1. CASE ServePage(j)
      <4>1. PICK k : jobs' = BagAdd(BagRemove(jobs, j), k) /\ k.job = "page"
        <5>. DEFINE all    == Listing(j.view)
                    last   == IF j.offset + Limit < Len(all) THEN j.offset + Limit ELSE Len(all)
                    rows   == SubSeq(all, j.offset + 1, last)
                    behind == \E i \in Jobs : i.job = "write" /\ i.state = "asked"
                    p      == [job |-> "page", state |-> "done", view |-> j.view,
                               append |-> j.append, rows |-> rows, next |-> j.offset + Len(rows),
                               more |-> last < Len(all),
                               writes |-> IF behind THEN 0 - 1 ELSE lapses.writes]
        <5>1. jobs' = BagAdd(BagRemove(jobs, j), p) /\ p.job = "page"
          BY <3>1 DEF ServePage
        <5>. HIDE DEF p
        <5>. QED
          BY <5>1
      <4>. QED
        BY <3>1, <4>1 DEF ServePage
    <3>2. CASE ServeCount(j) \/ ServeConnection(j)
      BY <3>2 DEF ServeCount, ServeConnection, Serving, ConnectJob
    <3>3. CASE ServeWrite(j) \/ ServeRefresh(j)
      BY <3>3 DEF ServeWrite, ServeRefresh, Serving
    <3>. QED
      BY <1>3, <3>1, <3>2, <3>3 DEF ServerActs
  <2>2. lapses'.stuck = lapses.stuck
    BY <1>1, <1>3
       DEF ServerActs, ServePage, ServeCount, ServeConnection, ServeWrite, ServeRefresh, Arrives,
           TypedNow, LapsesType
  <2>. QED
    BY <1>2, <2>1, <2>2
<1>4. ASSUME NEW j \in Jobs, RequestFails(j) PROVE LoadingAccounted'
  <2>1. /\ UNCHANGED pager /\ UNCHANGED lapses
        /\ \E k : jobs' = BagAdd(BagRemove(jobs, j), k) /\ (j.job = "page" => k.job = "page")
    BY <1>4 DEF RequestFails
  <2>. QED
    BY <1>2, <2>1
<1>5. ASSUME NEW m \in BagToSet(notes), ReceiveNote(m) PROVE LoadingAccounted'
  <2>1. \/ LoadPage(view, FALSE, BagAdd(jobs, CountJob), lapses)
        \/ /\ jobs' = BagAdd(jobs, CountJob) /\ UNCHANGED pager
           /\ \E so \in BOOLEAN : lapses' = Missed(so)
    BY <1>5 DEF ReceiveNote
  <2>2. JobsTyped(BagAdd(jobs, CountJob)) /\ Jobs \subseteq BagToSet(BagAdd(jobs, CountJob))
    BY <1>1, NewJobs, JobsAre, Added DEF TypedNow, Jobs
  <2>3. CASE LoadPage(view, FALSE, BagAdd(jobs, CountJob), lapses)
    BY <1>1, <2>2, <2>3, LoadPageAccounted DEF TypedNow
  <2>4. CASE /\ jobs' = BagAdd(jobs, CountJob) /\ UNCHANGED pager
             /\ \E so \in BOOLEAN : lapses' = Missed(so)
    BY <1>1, <2>2, <2>4, MissedIs, StillAccounted DEF TypedNow, pager
  <2>. QED
    BY <2>1, <2>3, <2>4
<1>6. CASE \/ \E a \in Articles : SchedulerFetches(a)
           \/ \E w \in Asked : OtherDeviceWrites(w)
           \/ \E j \in BagToSet(astray) : CommitAstray(j)
  <2>1. UNCHANGED pager /\ UNCHANGED jobs /\ lapses'.stuck = lapses.stuck
    BY <1>1, <1>6 DEF SchedulerFetches, OtherDeviceWrites, CommitAstray, Commits, Arrives,
                      TypedNow, LapsesType
  <2>. QED
    BY <2>1, StillAccounted DEF pager, Jobs
<1>7. CASE LoseConnection
  <2>1. UNCHANGED pager /\ UNCHANGED lapses /\ jobs' = BagAdd(jobs, ConnectJob)
    BY <1>7 DEF LoseConnection
  <2>2. Jobs \subseteq BagToSet(jobs')
    BY <1>1, <2>1, Added DEF TypedNow, Jobs
  <2>. QED
    BY <2>1, <2>2, StillAccounted DEF pager
<1>. QED
  BY <1>3, <1>4, <1>5, <1>6, <1>7

\* The flag that makes the pane refuse every load is up only while a page is on
\* its way that will take it down: no interleaving of answers, failures and
\* reloads by other threads leaves it up, but for a page that failed after the
\* view changed.
THEOREM LoadingIsAccounted == Spec => []LoadingAccounted
<1>1. Init => LoadingAccounted
  <2>1. SUFFICES ASSUME Init PROVE Paging
    BY DEF LoadingAccounted
  <2>2. PageJob(view, FALSE, 0) \in Jobs
    BY <2>1, Emptied DEF Init, Jobs
  <2>. QED
    BY <2>2 DEF Paging, PageJob
<1>2. Typed /\ LoadingAccounted /\ [Next]_vars => LoadingAccounted'
  <2>1. SUFFICES ASSUME Typed, LoadingAccounted, [Next]_vars PROVE LoadingAccounted'
    OBVIOUS
  <2>2. CASE UNCHANGED vars
    BY <2>1, <2>2, StillAccounted DEF vars, pager, Jobs
  <2>3. CASE Next
    BY <2>1, <2>3, AccountedByUser, AccountedByDevice, AccountedByRest DEF Next
  <2>. QED
    BY <2>1, <2>2, <2>3
<1>. QED
  BY <1>1, <1>2, AlwaysTyped, PTL DEF Spec

-----------------------------------------------------------------------------
(* Which rows a merge leaves                                                 *)

First(rows, k) == {rows[i] : i \in 1..k}

LEMMA FirstGrows ==
  ASSUME NEW rows, NEW k \in Nat \ {0}
  PROVE  First(rows, k) = First(rows, k - 1) \cup {rows[k]}
<1>1. \A i : i \in 1..k <=> i \in 1..(k - 1) \/ i = k
  OBVIOUS
<1>. QED
  BY <1>1 DEF First

LEMMA SortedRows ==
  ASSUME NEW rows \in Seq(Row)
  PROVE  Members(Sorted(rows)) = Members(rows)
<1>1. PICK f : /\ f[0] = <<>>
               /\ \A k \in 1..Len(rows) : f[k] = Placed(f[k - 1], rows[k])
               /\ Sorted(rows) = f[Len(rows)]
  BY SortedInSteps
<1>. DEFINE T == {k \in 0..Len(rows) : f[k] \in Seq(Row) /\ Members(f[k]) = First(rows, k)}
<1>2. 0 \in T
  <2>1. First(rows, 0) = {} /\ Members(<<>>) = {} /\ <<>> \in Seq(Row)
    BY DEF First, Members
  <2>2. 0 \in 0..Len(rows)
    OBVIOUS
  <2>. QED
    BY <1>1, <2>1, <2>2
<1>3. ASSUME NEW k \in 1..Len(rows), k - 1 \in T PROVE k \in T
  <2>1. f[k - 1] \in Seq(Row) /\ Members(f[k - 1]) = First(rows, k - 1) /\ rows[k] \in Row
    BY <1>3
  <2>2. f[k] = Placed(f[k - 1], rows[k])
    BY <1>1
  <2>3. f[k] \in Seq(Row) /\ Members(f[k]) = Members(f[k - 1]) \cup {rows[k]}
    <3>. DEFINE s == f[k - 1]
                r == rows[k]
    <3>1. s \in Seq(Row) /\ r \in Row
      BY <2>1
    <3>. HIDE DEF s, r
    <3>2. Placed(s, r) \in Seq(Row) /\ Members(Placed(s, r)) = Members(s) \cup {r}
      BY <3>1, PlacedRow
    <3>. QED
      BY <2>2, <3>2 DEF s, r
  <2>4. First(rows, k) = First(rows, k - 1) \cup {rows[k]}
    BY FirstGrows
  <2>5. k \in 0..Len(rows) /\ Members(f[k]) = First(rows, k)
    BY <2>1, <2>3, <2>4
  <2>. QED
    BY <2>3, <2>5
<1>. HIDE DEF T
<1>4. Len(rows) \in T
  <2>1. Len(rows) \in Nat
    OBVIOUS
  <2>2. \A k \in 1..Len(rows) : k - 1 \in T => k \in T
    BY <1>3
  <2>3. \A k \in 0..Len(rows) : k \in T
    BY <1>2, <2>1, <2>2, InductionTo
  <2>. QED
    BY <2>1, <2>3
<1>5. First(rows, Len(rows)) = Members(rows)
  BY DEF First, Members
<1>. QED
  BY <1>1, <1>4, <1>5 DEF T

LEMMA PutRows ==
  ASSUME NEW s \in Seq(Row), ~Doubled(s), NEW r \in Row
  PROVE  \A q \in Members(Put(s, r)) : q = r \/ (q \in Members(s) /\ Id(q) # Id(r))
<1>. DEFINE i == RowOf(s, Id(r), 1)
            t == Put(s, r)
<1>1. \/ i = 0 /\ \A j \in 1..Len(s) : j >= 1 => Id(s[j]) # Id(r)
      \/ i \in 1..Len(s) /\ i >= 1 /\ Id(s[i]) = Id(r)
  BY RowFound
<1>2. t = IF i = 0 THEN Append(s, r) ELSE [s EXCEPT ![i] = r]
  BY DEF Put
<1>. HIDE DEF i, t
<1>3. CASE i = 0
  <2>1. /\ t \in Seq(Row) /\ Len(t) = Len(s) + 1
        /\ \A j \in 1..Len(s) : t[j] = s[j]
        /\ t[Len(s) + 1] = r
    BY <1>2, <1>3
  <2>2. ASSUME NEW q \in Members(t) PROVE q = r \/ (q \in Members(s) /\ Id(q) # Id(r))
    <3>1. PICK j \in 1..Len(t) : q = t[j]
      BY <2>1, Index
    <3>2. CASE j \in 1..Len(s)
      <4>1. q = s[j] /\ j >= 1
        BY <2>1, <3>1, <3>2
      <4>2. Id(q) # Id(r)
        BY <1>1, <1>3, <3>2, <4>1
      <4>. QED
        BY <3>2, <4>1, <4>2, Index
    <3>3. CASE j = Len(s) + 1
      BY <2>1, <3>1, <3>3
    <3>. QED
      BY <2>1, <3>2, <3>3
  <2>. QED
    BY <2>2 DEF t
<1>4. CASE i \in 1..Len(s) /\ Id(s[i]) = Id(r)
  <2>1. /\ t \in Seq(Row) /\ Len(t) = Len(s)
        /\ \A j \in 1..Len(s) : t[j] = IF j = i THEN r ELSE s[j]
    BY <1>2, <1>4
  <2>2. \A j \in 1..Len(s) : Id(s[j]) = Id(s[i]) => j = i
    BY <1>4, Index
  <2>3. ASSUME NEW q \in Members(t) PROVE q = r \/ (q \in Members(s) /\ Id(q) # Id(r))
    <3>1. PICK j \in 1..Len(t) : q = t[j]
      BY <2>1, Index
    <3>. QED
      BY <1>4, <2>1, <2>2, <3>1, Index
  <2>. QED
    BY <2>3 DEF t
<1>. QED
  BY <1>1, <1>3, <1>4

\* The rows of a page come in the place of those with their ids.
LEMMA ExtendedRows ==
  ASSUME NEW rows \in Seq(Row), ~Doubled(rows), NEW page \in Seq(Row)
  PROVE  \A q \in Members(Extended(rows, page)) :
           q \in Members(page) \/ (q \in Members(rows) /\ Id(q) \notin Ids(page))
<1>1. PICK f : /\ f[0] = rows
               /\ \A k \in 1..Len(page) : f[k] = Put(f[k - 1], page[k])
               /\ Extended(rows, page) = f[Len(page)]
  BY ExtendedInSteps
<1>. DEFINE Either(q, k) == q \in First(page, k) \/ (q \in Members(rows) /\ Id(q) \notin IdsTo(page, k))
            T == {k \in 0..Len(page) :
                    f[k] \in Seq(Row) /\ ~Doubled(f[k]) /\ \A q \in Members(f[k]) : Either(q, k)}
<1>2. 0 \in T
  BY <1>1 DEF IdsTo
<1>3. ASSUME NEW k \in 1..Len(page), k - 1 \in T PROVE k \in T
  <2>1. /\ f[k - 1] \in Seq(Row) /\ ~Doubled(f[k - 1])
        /\ \A q \in Members(f[k - 1]) : Either(q, k - 1)
        /\ page[k] \in Row
    BY <1>3
  <2>2. f[k] = Put(f[k - 1], page[k])
    BY <1>1
  <2>. DEFINE s == f[k - 1]
              r == page[k]
  <2>. HIDE DEF Either
  <2>3. /\ f[k] \in Seq(Row) /\ ~Doubled(f[k])
        /\ \A q \in Members(f[k]) : q = r \/ (q \in Members(s) /\ Id(q) # Id(r))
    <3>1. s \in Seq(Row) /\ ~Doubled(s) /\ r \in Row
      BY <2>1
    <3>2. f[k] = Put(s, r)
      BY <2>2
    <3>. HIDE DEF s, r
    <3>. QED
      BY <3>1, <3>2, PutRow, PutRows
  <2>4. First(page, k) = First(page, k - 1) \cup {r}
    BY FirstGrows
  <2>5. \A i : i \in 1..k <=> i \in 1..(k - 1) \/ i = k
    OBVIOUS
  <2>6. IdsTo(page, k) = IdsTo(page, k - 1) \cup {Id(r)}
    BY <2>5 DEF IdsTo
  <2>7. \A q \in Members(f[k]) : Either(q, k)
    <3>1. \A q \in Members(s) : Either(q, k - 1)
      BY <2>1
    <3>. HIDE DEF s, r
    <3>. QED
      BY <2>3, <2>4, <2>6, <3>1 DEF Either
  <2>. QED
    BY <2>3, <2>7
<1>. HIDE DEF T
<1>4. Len(page) \in T
  <2>1. Len(page) \in Nat
    OBVIOUS
  <2>2. \A k \in 1..Len(page) : k - 1 \in T => k \in T
    BY <1>3
  <2>3. \A k \in 0..Len(page) : k \in T
    BY <1>2, <2>1, <2>2, InductionTo
  <2>. QED
    BY <2>1, <2>3
<1>5. IdsTo(page, Len(page)) = Ids(page) /\ First(page, Len(page)) = Members(page)
  BY DEF IdsTo, Ids, First, Members
<1>. QED
  BY <1>1, <1>4, <1>5 DEF T

LEMMA TargetRows ==
  ASSUME NEW rows \in Seq(Row), ~Doubled(rows), NEW n \in 0..Len(rows), NEW page \in Seq(Row),
         NEW removing \in BOOLEAN
  PROVE  LET t == Target(rows, n, page, removing) IN
         /\ Ids(page) \subseteq Ids(t)
         /\ \A q \in Members(t) :
              q \in Members(page) \/ (q \in Members(rows) /\ Id(q) \notin Ids(page))
<1>. DEFINE base == IF removing THEN page ELSE Extended(rows, page)
            kept == IF removing /\ n # 0 /\ Id(rows[n]) \notin Ids(page)
                      THEN <<rows[n]>> ELSE <<>>
            all  == base \o kept
            Either(q) == q \in Members(page) \/ (q \in Members(rows) /\ Id(q) \notin Ids(page))
<1>1. Target(rows, n, page, removing) = Sorted(all)
  BY DEF Target
<1>2. base \in Seq(Row) /\ Ids(page) \subseteq Ids(base) /\ \A q \in Members(base) : Either(q)
  BY ExtendedIs, ExtendedRows
<1>3. kept \in Seq(Row) /\ \A q \in Members(kept) : Either(q)
  <2>1. CASE removing /\ n # 0 /\ Id(rows[n]) \notin Ids(page)
    <3>1. kept = <<rows[n]>> /\ rows[n] \in Row /\ rows[n] \in Members(rows)
      BY <2>1, Index
    <3>2. \A q \in Members(kept) : q = rows[n]
      BY <3>1 DEF Members
    <3>. QED
      BY <2>1, <3>1, <3>2
  <2>2. CASE ~(removing /\ n # 0 /\ Id(rows[n]) \notin Ids(page))
    <3>1. kept = <<>>
      BY <2>2
    <3>. QED
      BY <3>1 DEF Members
  <2>. QED
    BY <2>1, <2>2
<1>. HIDE DEF base, kept, Either
<1>4. /\ all \in Seq(Row) /\ Len(all) = Len(base) + Len(kept)
      /\ \A i \in 1..Len(base) + Len(kept) :
           all[i] = IF i <= Len(base) THEN base[i] ELSE kept[i - Len(base)]
  BY <1>2, <1>3, ConcatProperties
<1>5. Len(base) \in Nat /\ Len(kept) \in Nat
  BY <1>2, <1>3
<1>. HIDE DEF all
<1>6. ASSUME NEW q \in Members(all) PROVE Either(q)
  <2>1. PICK i \in 1..Len(all) : q = all[i]
    BY <1>4, Index
  <2>2. CASE i <= Len(base)
    <3>1. i \in 1..Len(base) /\ q = base[i]
      BY <1>4, <1>5, <2>1, <2>2
    <3>. QED
      BY <1>2, <3>1, Index
  <2>3. CASE ~(i <= Len(base))
    <3>1. i - Len(base) \in 1..Len(kept) /\ q = kept[i - Len(base)]
      BY <1>4, <1>5, <2>1, <2>3
    <3>. QED
      BY <1>3, <3>1, Index
  <2>. QED
    BY <2>2, <2>3
<1>7. Ids(base) \subseteq Ids(all)
  <2>1. \A i \in 1..Len(base) : i \in 1..Len(all) /\ all[i] = base[i]
    BY <1>4, <1>5
  <2>2. ASSUME NEW x \in Ids(base) PROVE x \in Ids(all)
    <3>1. PICK i \in 1..Len(base) : x = Id(base[i])
      BY <1>2, Index
    <3>. QED
      BY <1>4, <2>1, <3>1, Index
  <2>. QED
    BY <2>2
<1>8. Members(Sorted(all)) = Members(all) /\ Ids(Sorted(all)) = Ids(all)
  BY <1>4, SortedIs, SortedRows
<1>. QED
  BY <1>1, <1>2, <1>6, <1>7, <1>8 DEF Either

\* A merge that is done leaves the rows of the page, and of those there were only
\* some that the page does not have; all of them, if pages are added.
LEMMA MergedRows ==
  ASSUME ListTyped, ~broken', NEW page \in Seq(Row), NEW removing \in BOOLEAN,
         Merge(page, removing)
  PROVE  /\ Ids(page) \subseteq Ids(list') /\ (removing \/ Ids(list) \subseteq Ids(list'))
         /\ \A i \in DOMAIN list' :
              \/ list'[i] \in Members(page)
              \/ list'[i] \in Members(list) /\ Id(list'[i]) \notin Ids(page)
<1>. DEFINE target == Target(list, row, page, removing)
<1>1. /\ target \in Seq(Row) /\ (removing \/ Ids(list) \subseteq Ids(target))
      /\ Ids(page) \subseteq Ids(target)
      /\ \A q \in Members(target) :
           q \in Members(page) \/ (q \in Members(list) /\ Id(q) \notin Ids(page))
  BY TargetIs, TargetRows DEF ListTyped
<1>2. ~Doubled(target) /\ list' = Merged(list, target, removing)
  BY DEF Merge
<1>. HIDE DEF target
<1>3. list' = target
  BY <1>1, <1>2, MergeIsTarget DEF ListTyped
<1>4. \A i \in DOMAIN target : target[i] \in Members(target)
  BY DEF Members
<1>. QED
  BY <1>1, <1>3, <1>4

-----------------------------------------------------------------------------
(* What the list becomes                                                     *)

\* The order of the list only changes when a page is merged, and that page is of
\* the view on show.
LEMMA ListSteps ==
  ASSUME Typed, Next
  PROVE  \/ Order(list') = Order(list) /\ UNCHANGED broken
         \/ \E page \in Seq(Row), removing \in BOOLEAN :
              /\ Merge(page, removing) /\ OfView(view, page)
              /\ Doubled(page) => \E v \in DOMAIN cache : Doubled(cache[v].rows)
<1>1. TypedNow
  BY TypedParts
<1>. DEFINE Same2  == UNCHANGED list /\ UNCHANGED broken
            Flags2 == Order(list') = Order(list) /\ UNCHANGED broken
<1>2. ASSUME UserActs PROVE Flags2
  <2>1. ASSUME NEW i \in DOMAIN list, SelectArticle(i) PROVE Flags2
    <3>1. UNCHANGED broken /\ (UNCHANGED list \/ list' = Flag(list, i, "read", TRUE))
      BY <2>1 DEF SelectArticle
    <3>2. CASE UNCHANGED list
      BY <3>1, <3>2
    <3>3. CASE list' = Flag(list, i, "read", TRUE)
      <4>1. Order(list') = Order(list)
        BY <1>1, <3>3, FlagIs DEF TypedNow
      <4>. QED
        BY <3>1, <4>1
    <3>. QED
      BY <3>1, <3>2, <3>3
  <2>2. CASE MarkSelectedArticleUnread
    <3>1. row \in DOMAIN list /\ UNCHANGED broken /\ list' = Flag(list, row, "read", FALSE)
      BY <1>1, <2>2 DEF MarkSelectedArticleUnread, TypedNow
    <3>. QED
      BY <1>1, <3>1, FlagIs DEF TypedNow
  <2>3. CASE ToggleSelectedArticleQueued
    <3>1. /\ row \in DOMAIN list /\ UNCHANGED broken
          /\ list' = Flag(list, row, "queued", ~list[row].queued)
      BY <1>1, <2>3 DEF ToggleSelectedArticleQueued, TypedNow
    <3>2. (~list[row].queued) \in BOOLEAN
      OBVIOUS
    <3>. QED
      BY <1>1, <3>1, <3>2, FlagIs DEF TypedNow
  <2>4. ASSUME NEW n \in left.nodes, MarkAllArticlesRead(n) PROVE Flags2
    <3>1. UNCHANGED broken /\ (UNCHANGED list \/ list' = AllRead(list))
      BY <2>4 DEF MarkAllArticlesRead
    <3>. QED
      BY <1>1, <3>1, AllReadIs DEF TypedNow
  <2>5. CASE \/ \E n \in left.nodes : SelectNode(n)
             \/ \E q \in DOMAIN Titles : SearchArticles(q)
             \/ ToggleShowingReadArticles \/ LoadMoreArticles
             \/ \E f \in Feeds : RefreshFeed(f)
    BY <2>5 DEF SelectNode, SearchArticles, ToggleShowingReadArticles, LoadMoreArticles,
                RefreshFeed, pane
  <2>. QED
    BY <1>2, <2>1, <2>2, <2>3, <2>4, <2>5 DEF UserActs
<1>3. ASSUME NEW j \in Jobs, UsePage(j), ~Same2
      PROVE  \E page \in Seq(Row), removing \in BOOLEAN :
               Merge(page, removing) /\ OfView(view, page) /\ ~Doubled(page)
  <2>1. j \in PageDone /\ OfView(j.view, j.rows) /\ ~Doubled(j.rows)
    BY <1>1, <1>3, JobKinds DEF UsePage, TypedNow, JobsTyped, Jobs
  <2>2. j.view = view /\ Merge(j.rows, ~j.append)
    BY <1>3 DEF UsePage, IsForView
  <2>3. (~j.append) \in BOOLEAN /\ j.rows \in Seq(Row)
    BY <2>1 DEF PageDone
  <2>. QED
    BY <2>1, <2>2, <2>3
<1>4. ASSUME NEW j \in Jobs, PageFailed(j), ~Same2
      PROVE  \E page \in Seq(Row), removing \in BOOLEAN :
               /\ Merge(page, removing) /\ OfView(view, page)
               /\ Doubled(page) => \E v \in DOMAIN cache : Doubled(cache[v].rows)
  <2>1. Merge(Substitute.rows, TRUE)
    BY <1>4 DEF PageFailed
  <2>2. /\ Substitute.rows \in Seq(Row) /\ OfView(view, Substitute.rows)
        /\ Doubled(Substitute.rows) => \E v \in DOMAIN cache : Doubled(cache[v].rows)
    BY <1>1, SubstituteIs DEF TypedNow, Stored
  <2>. QED
    BY <2>1, <2>2
<1>5. ASSUME NEW j \in Jobs, DeviceActs(j), ~UsePage(j), ~PageFailed(j) PROVE Same2
  BY <1>5 DEF DeviceActs, FinishWrite, ReloadByThread, FinishRefresh, UseCount, UseConnection, pane
<1>6. ASSUME \/ \E j \in Jobs : ServerActs(j) \/ RequestFails(j)
             \/ \E j \in BagToSet(astray) : CommitAstray(j)
             \/ \E m \in BagToSet(notes) : ReceiveNote(m)
             \/ \E a \in Articles : SchedulerFetches(a)
             \/ \E w \in Asked : OtherDeviceWrites(w)
             \/ LoseConnection
      PROVE  Same2
  BY <1>6 DEF ServerActs, ServePage, ServeCount, ServeConnection, ServeWrite, ServeRefresh,
              RequestFails, CommitAstray, ReceiveNote, SchedulerFetches, OtherDeviceWrites, LoseConnection,
              pane
<1>7. CASE Same2
  BY <1>7 DEF Order
<1>. QED
  BY <1>2, <1>3, <1>4, <1>5, <1>6, <1>7 DEF Next

\* What a step may do to the list and the selection: see MergeKeepsPlace.
LEMMA PlaceKept ==
  ASSUME Typed, [Next]_vars, Order(list') # Order(list)
  PROVE  /\ \A i, j \in DOMAIN list' : i < j => Before(list'[i], list'[j])
         /\ row # 0 => row' # 0 /\ Id(list'[row']) = Id(list[row])
<1>1. TypedNow
  BY TypedParts
<1>2. Next
  BY DEF vars, pane
<1>3. PICK page \in Seq(Row), removing \in BOOLEAN : Merge(page, removing)
  BY <1>2, ListSteps
<1>4. list' # list
  BY DEF Order
<1>5. /\ list' \in Seq(Row) /\ InOrder(list')
      /\ row # 0 => row' # 0 /\ Id(list'[row']) = Id(list[row])
  BY <1>1, <1>3, <1>4, MergeIs DEF TypedNow
<1>. QED
  BY <1>5 DEF InOrder

\* No answer, whatever the order of answers, moves the selection off the article
\* it is on, or leaves the list out of order: for every page the server could
\* send, lists of any length, and a selection anywhere in them.
THEOREM SelectionKeepsItsArticle == Spec => MergeKeepsPlace
<1>. DEFINE Keeps == Order(list') # Order(list) =>
              /\ \A i, j \in DOMAIN list' : i < j => Before(list'[i], list'[j])
              /\ row # 0 => row' # 0 /\ Id(list'[row']) = Id(list[row])
<1>1. Typed /\ [Next]_vars => [Keeps]_<<list, row>>
  BY PlaceKept
<1>2. MergeKeepsPlace <=> [][Keeps]_<<list, row>>
  BY DEF MergeKeepsPlace
<1>. HIDE DEF Keeps
<1>. QED
  BY <1>1, <1>2, AlwaysTyped, PTL DEF Spec

\* What a step may bring into the list: see PagesAreOfTheView.
LEMMA OnlyOfTheView ==
  ASSUME Typed, [Next]_vars, NEW i \in DOMAIN list', Id(list'[i]) \notin Ids(list)
  PROVE  /\ list'[i].copy = (view.node = Queue)
         /\ list'[i].article \in Of(view.node) \cap Titles[view.query]
         /\ ~(view.unread /\ list'[i].read)
<1>1. TypedNow
  BY TypedParts
<1>2. CASE UNCHANGED vars
  BY <1>2 DEF vars, pane, Ids
<1>3. CASE Next /\ Order(list') = Order(list)
  <2>1. DOMAIN list' = DOMAIN list /\ \A k \in DOMAIN list : Id(list'[k]) = Id(list[k])
    BY <1>3 DEF Order
  <2>. QED
    BY <2>1 DEF Ids
<1>4. CASE Next /\ Order(list') # Order(list)
  <2>1. PICK page \in Seq(Row), removing \in BOOLEAN :
          Merge(page, removing) /\ OfView(view, page)
    BY <1>4, ListSteps
  <2>2. ~broken'
    <3>1. ~broken /\ list' # list
      BY <1>4 DEF Next, Order
    <3>. QED
      BY <2>1, <3>1 DEF Merge
  <2>3. list'[i] \in Members(page) \/ list'[i] \in Members(list)
    BY <1>1, <2>1, <2>2, MergedRows DEF TypedNow
  <2>4. list'[i] \notin Members(list)
    BY DEF Members, Ids
  <2>5. PICK k \in DOMAIN page : list'[i] = page[k]
    BY <2>3, <2>4 DEF Members
  <2>. QED
    BY <2>1, <2>5 DEF OfView
<1>. QED
  BY <1>2, <1>3, <1>4

\* An answer that comes after the user went on to another node, query or filter
\* puts none of its articles into the list, and neither does what is shown in the
\* place of a page that failed.
THEOREM PagesOfTheView == Spec => PagesAreOfTheView
<1>. DEFINE Belong == \A i \in DOMAIN list' :
              Id(list'[i]) \notin Ids(list) =>
                /\ list'[i].copy = (view.node = Queue)
                /\ list'[i].article \in Of(view.node) \cap Titles[view.query]
                /\ ~(view.unread /\ list'[i].read)
<1>1. Typed /\ [Next]_vars => [Belong]_<<list, row>>
  BY OnlyOfTheView
<1>2. PagesAreOfTheView <=> [][Belong]_<<list, row>>
  BY DEF PagesAreOfTheView
<1>. HIDE DEF Belong
<1>. QED
  BY <1>1, <1>2, AlwaysTyped, PTL DEF Spec

-----------------------------------------------------------------------------
(* Merges                                                                    *)

\* The cache has an article twice only after pages overlapped.
CacheSingle == \A v \in DOMAIN cache : Doubled(cache[v].rows) => lapses.overlap

LEMMA OverlapKept ==
  ASSUME Typed, Next, lapses.overlap
  PROVE  lapses'.overlap
<1>1. TypedNow
  BY TypedParts
<1>. DEFINE Over(history) == history \in LapsesType /\ history.overlap
<1>2. Over(lapses) /\ (\A so \in BOOLEAN : Over(Missed(so))) /\ (\A w : Over(Wrote(w)))
  BY <1>1, MissedIs, WroteIs DEF TypedNow
<1>3. ASSUME NEW v, NEW append, NEW rest, NEW history, Over(history),
             LoadPage(v, append, rest, history)
      PROVE  lapses'.overlap
  BY <1>3 DEF LoadPage, LapsesType
<1>4. ASSUME UserActs PROVE lapses'.overlap
  <2>1. ASSUME NEW n \in left.nodes, MarkAllArticlesRead(n) PROVE lapses'.overlap
    BY <1>2, <2>1 DEF MarkAllArticlesRead, LapsesType
  <2>2. CASE \/ \E n \in left.nodes : SelectNode(n)
             \/ \E q \in DOMAIN Titles : SearchArticles(q)
             \/ ToggleShowingReadArticles \/ LoadMoreArticles
    BY <1>2, <1>3, <2>2
       DEF SelectNode, SearchArticles, ToggleShowingReadArticles, LoadMoreArticles
  <2>3. CASE ToggleSelectedArticleQueued
    BY <1>2, <1>3, <2>3 DEF ToggleSelectedArticleQueued
  <2>4. CASE \/ \E i \in DOMAIN list : SelectArticle(i)
             \/ MarkSelectedArticleUnread
             \/ \E f \in Feeds : RefreshFeed(f)
    BY <1>2, <2>4 DEF SelectArticle, MarkSelectedArticleUnread, RefreshFeed
  <2>. QED
    BY <1>4, <2>1, <2>2, <2>3, <2>4 DEF UserActs
<1>5. ASSUME NEW j \in Jobs, DeviceActs(j) PROVE lapses'.overlap
  <2>1. CASE UsePage(j)
    BY <1>2, <2>1 DEF UsePage, LapsesType
  <2>2. CASE PageFailed(j)
    BY <1>2, <2>2 DEF PageFailed, LapsesType
  <2>3. CASE FinishWrite(j)
    <3>1. \E so \in BOOLEAN : lapses' = Missed(so)
      BY <2>3 DEF FinishWrite
    <3>. QED
      BY <1>2, <3>1
  <2>4. CASE ReloadByThread(j)
    BY <1>2, <2>4 DEF ReloadByThread, Missed, LapsesType
  <2>5. CASE FinishRefresh(j)
    <3>1. \/ LoadPage(view, FALSE, BagAdd(BagRemove(jobs, j), CountJob), lapses)
          \/ \E so \in BOOLEAN : lapses' = Missed(so)
      BY <2>5 DEF FinishRefresh
    <3>. QED
      BY <1>2, <1>3, <3>1
  <2>6. CASE UseCount(j)
    BY <1>2, <2>6 DEF UseCount, Counted, LapsesType
  <2>7. CASE UseConnection(j)
    <3>1. j \in CountDone
      BY <1>1, <2>7, JobKinds DEF UseConnection, TypedNow, JobsTyped, Jobs
    <3>2. Over(Counted(j, lapses))
      <4>1. Counted(j, lapses).overlap
        BY <1>2 DEF Counted, LapsesType
      <4>. QED
        BY <1>2, <3>1, <4>1, CountedIs
    <3>. QED
      BY <1>3, <2>7, <3>2 DEF UseConnection
  <2>. QED
    BY <1>5, <2>1, <2>2, <2>3, <2>4, <2>5, <2>6, <2>7 DEF DeviceActs
<1>6. ASSUME NEW m \in BagToSet(notes), ReceiveNote(m) PROVE lapses'.overlap
  <2>1. \/ LoadPage(view, FALSE, BagAdd(jobs, CountJob), lapses)
        \/ \E so \in BOOLEAN : lapses' = Missed(so)
    BY <1>6 DEF ReceiveNote
  <2>. QED
    BY <1>2, <1>3, <2>1
<1>7. ASSUME \/ \E j \in Jobs : ServerActs(j) \/ RequestFails(j)
             \/ \E j \in BagToSet(astray) : CommitAstray(j)
             \/ \E a \in Articles : SchedulerFetches(a)
             \/ \E w \in Asked : OtherDeviceWrites(w)
             \/ LoseConnection
      PROVE  lapses'.overlap
  BY <1>2, <1>7
     DEF ServerActs, ServePage, ServeCount, ServeConnection, ServeWrite, ServeRefresh, Arrives,
         RequestFails, CommitAstray, SchedulerFetches, OtherDeviceWrites, Commits, LoseConnection,
         LapsesType
<1>. QED
  BY <1>4, <1>5, <1>6, <1>7 DEF Next

LEMMA CacheKept ==
  ASSUME Typed, Next, CacheSingle
  PROVE  CacheSingle'
<1>1. TypedNow
  BY TypedParts
<1>2. CASE lapses'.overlap
  BY <1>2 DEF CacheSingle
<1>3. CASE ~lapses'.overlap
  <2>1. \A v \in DOMAIN cache : ~Doubled(cache[v].rows)
    BY <1>3, OverlapKept DEF CacheSingle
  <2>2. ASSUME NEW j \in Jobs, UsePage(j), IsForView(j)
        PROVE  \A v \in DOMAIN cache' : ~Doubled(cache'[v].rows)
    <3>1. j \in PageDone /\ OfView(j.view, j.rows) /\ ~Doubled(j.rows) /\ j.rows \in Seq(Row)
      BY <1>1, <2>2, JobKinds DEF UsePage, TypedNow, JobsTyped, Jobs, PageDone
    <3>2. /\ cache' = Cached(view, [rows |-> CacheAfter(j), next |-> j.next, more |-> j.more])
          /\ lapses' = [lapses EXCEPT
               !.missed = @ \/ Overtook(j),
               !.based = IF j.append THEN @ ELSE lapses.writes,
               !.overlap = @ \/ (j.append /\ Ids(j.rows) \cap Ids(CachedWith(<<>>)) # {}),
               !.stuck = FALSE]
      BY <2>2 DEF UsePage
    <3>3. ~(j.append /\ Ids(j.rows) \cap Ids(CachedWith(<<>>)) # {})
      BY <1>1, <1>3, <3>2 DEF TypedNow, LapsesType
    <3>4. ~Doubled(CacheAfter(j))
      BY <1>1, <2>1, <2>2, <3>1, <3>3, CachedIs DEF CacheAfter, IsForView, TypedNow
    <3>. DEFINE p == [rows |-> CacheAfter(j), next |-> j.next, more |-> j.more]
    <3>5. p.rows = CacheAfter(j)
      OBVIOUS
    <3>. HIDE DEF p
    <3>6. cache' = [w \in DOMAIN cache \cup {view} |-> IF w = view THEN p ELSE cache[w]]
      BY <3>2 DEF Cached, p
    <3>. QED
      BY <2>1, <3>4, <3>5, <3>6
  <2>3. ASSUME NEW j \in Jobs, DeviceActs(j), ~(UsePage(j) /\ IsForView(j))
        PROVE  UNCHANGED cache
    BY <2>3 DEF DeviceActs, UsePage, PageFailed, FinishWrite, ReloadByThread, FinishRefresh,
                UseCount, UseConnection, pane
  <2>4. ASSUME NEW m \in BagToSet(notes), ReceiveNote(m)
        PROVE  UNCHANGED cache \/ DOMAIN cache' = {}
    BY <2>4 DEF ReceiveNote
  <2>5. ASSUME UserActs PROVE UNCHANGED cache
    BY <2>5 DEF UserActs, SelectNode, SearchArticles, ToggleShowingReadArticles, LoadMoreArticles,
                SelectArticle, MarkSelectedArticleUnread, ToggleSelectedArticleQueued,
                MarkAllArticlesRead, RefreshFeed, pane
  <2>6. ASSUME \/ \E j \in Jobs : ServerActs(j) \/ RequestFails(j)
               \/ \E j \in BagToSet(astray) : CommitAstray(j)
               \/ \E a \in Articles : SchedulerFetches(a)
               \/ \E w \in Asked : OtherDeviceWrites(w)
               \/ LoseConnection
        PROVE  UNCHANGED cache
    BY <2>6 DEF ServerActs, ServePage, ServeCount, ServeConnection, ServeWrite, ServeRefresh,
                RequestFails, CommitAstray, SchedulerFetches, OtherDeviceWrites, LoseConnection, pane
  <2>. QED
    BY <2>1, <2>2, <2>3, <2>4, <2>5, <2>6 DEF Next, CacheSingle
<1>. QED
  BY <1>2, <1>3

LEMMA MergesKept ==
  ASSUME Typed, Next, CacheSingle, MergesDefinedUnlessOverlap
  PROVE  MergesDefinedUnlessOverlap'
<1>1. TypedNow /\ ~broken
  BY TypedParts DEF Next
<1>2. CASE UNCHANGED broken
  BY <1>1, <1>2 DEF MergesDefinedUnlessOverlap
<1>3. ASSUME NEW page \in Seq(Row), NEW removing \in BOOLEAN, Merge(page, removing),
             Doubled(page) => \E v \in DOMAIN cache : Doubled(cache[v].rows)
      PROVE  MergesDefinedUnlessOverlap'
  <2>1. broken' => Doubled(page)
    BY <1>1, <1>3, MergeIs DEF TypedNow
  <2>2. broken' => lapses.overlap
    BY <1>3, <2>1 DEF CacheSingle
  <2>. QED
    BY <2>2, OverlapKept DEF MergesDefinedUnlessOverlap
<1>. QED
  BY <1>2, <1>3, ListSteps

\* mergeArticles never reads past the end of the list, unless a page had come
\* with articles that the pages before it had: the one way to have an article
\* twice in the cache, whose pages stand in for one that failed.
THEOREM MergesDefined == Spec => []MergesDefinedUnlessOverlap
<1>1. Init => CacheSingle /\ MergesDefinedUnlessOverlap
  BY DEF Init, CacheSingle, MergesDefinedUnlessOverlap
<1>2. /\ Typed /\ CacheSingle /\ MergesDefinedUnlessOverlap /\ [Next]_vars
      => CacheSingle' /\ MergesDefinedUnlessOverlap'
  <2>1. CASE Next
    BY <2>1, CacheKept, MergesKept
  <2>2. CASE UNCHANGED vars
    BY <2>2 DEF vars, pane, CacheSingle, MergesDefinedUnlessOverlap
  <2>. QED
    BY <2>1, <2>2
<1>. QED
  BY <1>1, <1>2, AlwaysTyped, PTL DEF Spec

-----------------------------------------------------------------------------
(* The count                                                                 *)

\* A job that brings a count no older than the last change the server made, or
\* leaves a job that does.
Promise(j, commits) ==
  \/ j.job \in {"count", "connect"} /\ (j.state # "done" \/ j.commits = commits)
  \/ j.job = "write" /\ j.op = "all"

Trigger == BagToSet(notes) # {} \/ \E j \in Jobs : Promise(j, lapses.commits)

\* A mark that is not made yet, or whose failure has the count fetched.
Mark(j) == j.job = "write" /\ j.op \in {"read", "unread"} /\ j.state # "done"

Marking == \E j \in Jobs : Mark(j)

\* An answer that is not used yet
IsAnswer(j) == j.job \in {"count", "connect"} /\ j.state = "done"

CountsTrue ==
  /\ lapses.counted <= lapses.commits /\ lapses.silent <= lapses.commits
  /\ \A j \in Jobs : IsAnswer(j) =>
       j.commits <= lapses.commits /\ (j.commits = lapses.commits => j.value = Unread)
  /\ Trigger \/ lapses.counted = lapses.commits \/ lapses.silent = lapses.commits
  /\ lapses.wrong \/ count = Unread \/ Trigger \/ Marking

LEMMA TriggerIs ==
  /\ BagToSet(notes') # {} => Trigger'
  /\ \A k \in BagToSet(jobs') :
       /\ k.job \in {"count", "connect"} /\ k.state # "done" => Trigger'
       /\ k.job = "write" /\ k.op = "all" => Trigger'
       /\ Mark(k) => Marking'
BY DEF Trigger, Promise, Marking, Jobs

LEMMA AnswersTyped ==
  ASSUME JobsTyped(jobs), NEW j \in Jobs, IsAnswer(j)
  PROVE  j \in CountDone /\ j.commits \in Nat /\ j.value \in Nat
<1>1. j \in CountDone
  BY JobKinds DEF JobsTyped, Jobs, IsAnswer
<1>. QED
  BY <1>1 DEF CountDone

\* The server has changed nothing.
LEMMA CountsKept ==
  ASSUME CountsTrue, lapses \in LapsesType, JobsTyped(jobs), UNCHANGED articles,
         lapses'.commits = lapses.commits, lapses'.counted = lapses.counted,
         lapses'.silent = lapses.silent, lapses.wrong => lapses'.wrong,
         BagToSet(notes) # {} => Trigger',
         count' = count \/ Trigger' \/ Marking',
         \A k \in BagToSet(jobs') : IsAnswer(k) =>
           k \in Jobs \/ (k.commits = lapses.commits /\ k.value = Unread),
         \A k \in Jobs : k \notin BagToSet(jobs') =>
           /\ Promise(k, lapses.commits) => Trigger'
           /\ Mark(k) => Trigger' \/ Marking' \/ lapses'.wrong
  PROVE  CountsTrue'
<1>1. Unread' = Unread
  BY DEF Unread
<1>2. Trigger => Trigger'
  <2>1. \A k \in Jobs : k \in BagToSet(jobs') /\ Promise(k, lapses.commits) => Trigger'
    BY DEF Trigger, Jobs
  <2>. QED
    BY <2>1 DEF Trigger
<1>3. Marking => Trigger' \/ Marking' \/ lapses'.wrong
  BY TriggerIs DEF Marking
<1>4. \A j \in Jobs' : IsAnswer(j) =>
        j.commits <= lapses'.commits /\ (j.commits = lapses'.commits => j.value = Unread')
  <2>1. TAKE j \in Jobs'
  <2>2. HAVE IsAnswer(j)
  <2>3. CASE j \in Jobs
    <3>1. j.commits <= lapses.commits /\ (j.commits = lapses.commits => j.value = Unread)
      BY <2>2, <2>3 DEF CountsTrue
    <3>. QED
      BY <1>1, <3>1
  <2>4. CASE j.commits = lapses.commits /\ j.value = Unread
    <3>1. lapses.commits \in Nat
      BY DEF LapsesType
    <3>. QED
      BY <1>1, <2>4, <3>1
  <2>. QED
    BY <2>2, <2>3, <2>4 DEF Jobs
<1>. QED
  BY <1>1, <1>2, <1>3, <1>4 DEF CountsTrue

\* The server may have made a change: the device is told of it, or will ask.
LEMMA CountsPending ==
  ASSUME CountsTrue, lapses \in LapsesType, JobsTyped(jobs),
         \/ lapses'.commits = lapses.commits /\ UNCHANGED articles
         \/ lapses'.commits = lapses.commits + 1,
         lapses'.counted = lapses.counted,
         lapses'.silent \in {lapses.silent, lapses'.commits},
         Trigger' \/ (lapses'.wrong /\ lapses'.silent = lapses'.commits),
         \A k \in BagToSet(jobs') : IsAnswer(k) => k \in Jobs
  PROVE  CountsTrue'
<1>1. lapses.commits \in Nat /\ lapses.counted \in Nat /\ lapses.silent \in Nat
  BY DEF LapsesType
<1>2. lapses'.counted <= lapses'.commits /\ lapses'.silent <= lapses'.commits
  BY <1>1 DEF CountsTrue
<1>3. \A j \in Jobs' : IsAnswer(j) =>
        j.commits <= lapses'.commits /\ (j.commits = lapses'.commits => j.value = Unread')
  <2>1. TAKE j \in Jobs'
  <2>2. HAVE IsAnswer(j)
  <2>3. j.commits <= lapses.commits /\ (j.commits = lapses.commits => j.value = Unread)
    BY <2>2 DEF CountsTrue, Jobs
  <2>4. CASE lapses'.commits = lapses.commits /\ UNCHANGED articles
    <3>1. Unread' = Unread
      BY <2>4 DEF Unread
    <3>. QED
      BY <2>3, <2>4, <3>1
  <2>5. CASE lapses'.commits = lapses.commits + 1
    <3>1. j.commits \in Nat
      BY <2>2, AnswersTyped DEF Jobs
    <3>. QED
      BY <1>1, <2>3, <2>5, <3>1
  <2>. QED
    BY <2>4, <2>5
<1>. QED
  BY <1>2, <1>3 DEF CountsTrue

\* A count is used.
LEMMA CountUsed ==
  ASSUME CountsTrue, lapses \in LapsesType, NEW j \in Jobs, j \in CountDone, UNCHANGED articles,
         UNCHANGED notes, count' = j.value,
         lapses'.commits = lapses.commits, lapses'.silent = lapses.silent,
         lapses'.wrong = (j.commits < lapses.counted \/ j.commits < lapses.silent),
         lapses'.counted = IF j.commits > lapses.counted THEN j.commits ELSE lapses.counted,
         Jobs \ {j} \subseteq BagToSet(jobs'),
         \A k \in BagToSet(jobs') : IsAnswer(k) => k \in Jobs
  PROVE  CountsTrue'
<1>1. lapses.commits \in Nat /\ lapses.counted \in Nat /\ lapses.silent \in Nat /\ j.commits \in Nat
  BY DEF LapsesType, CountDone
<1>2. /\ j.commits <= lapses.commits /\ (j.commits = lapses.commits => j.value = Unread)
      /\ Unread' = Unread
  BY DEF CountsTrue, IsAnswer, CountDone, Unread
<1>3. \A k \in Jobs' : IsAnswer(k) =>
        k.commits <= lapses'.commits /\ (k.commits = lapses'.commits => k.value = Unread')
  BY <1>2 DEF CountsTrue, Jobs
<1>4. lapses'.counted <= lapses'.commits /\ lapses'.silent <= lapses'.commits
  BY <1>1, <1>2 DEF CountsTrue
<1>5. CASE j.commits = lapses.commits
  <2>1. lapses'.counted = lapses'.commits /\ count' = Unread'
    BY <1>1, <1>2, <1>5 DEF CountsTrue
  <2>. QED
    BY <1>3, <1>4, <2>1 DEF CountsTrue
<1>6. CASE j.commits # lapses.commits
  <2>1. Trigger => Trigger'
    <3>1. ~Promise(j, lapses.commits)
      BY <1>6 DEF Promise, CountDone
    <3>. QED
      BY <3>1 DEF Trigger, Jobs
  <2>2. Trigger' \/ lapses'.counted = lapses'.commits \/ lapses'.silent = lapses'.commits
    <3>1. Trigger \/ lapses.counted = lapses.commits \/ lapses.silent = lapses.commits
      BY DEF CountsTrue
    <3>2. CASE lapses.counted = lapses.commits
      BY <1>1, <1>2, <3>2
    <3>. QED
      BY <2>1, <3>1, <3>2
  <2>3. lapses'.wrong \/ Trigger'
    <3>1. Trigger \/ lapses.counted = lapses.commits \/ lapses.silent = lapses.commits
      BY DEF CountsTrue
    <3>2. j.commits < lapses.commits
      BY <1>1, <1>2, <1>6
    <3>. QED
      BY <1>1, <2>1, <3>1, <3>2
  <2>. QED
    BY <1>3, <1>4, <2>2, <2>3 DEF CountsTrue
<1>. QED
  BY <1>5, <1>6

\* The user
LEMMA CountsByUser ==
  ASSUME Typed, CountsTrue, UserActs
  PROVE  CountsTrue'
<1>1. TypedNow /\ view' \in Views
  BY TypedParts, TypedByUser DEF Typed, ListTyped
<1>. DEFINE SameCounts(history) ==
              /\ history.wrong = lapses.wrong /\ history.commits = lapses.commits
              /\ history.counted = lapses.counted /\ history.silent = lapses.silent
<1>2. UNCHANGED articles /\ UNCHANGED notes
  BY DEF UserActs, SelectNode, SearchArticles, ToggleShowingReadArticles, LoadMoreArticles,
         SelectArticle, MarkSelectedArticleUnread, ToggleSelectedArticleQueued,
         MarkAllArticlesRead, RefreshFeed, tables
<1>3. ASSUME SameCounts(lapses'), Jobs \subseteq BagToSet(jobs'),
             count' = count \/ Trigger' \/ Marking',
             \A k \in BagToSet(jobs') : k \in Jobs \/ k.job \in {"page", "write", "refresh"}
      PROVE  CountsTrue'
  <2>1. \A k \in BagToSet(jobs') : IsAnswer(k) => k \in Jobs
    BY <1>3 DEF IsAnswer
  <2>2. BagToSet(notes) # {} => Trigger'
    BY <1>2, TriggerIs
  <2>. QED
    BY <1>1, <1>2, <1>3, <2>1, <2>2, CountsKept DEF TypedNow
<1>4. ASSUME NEW append \in BOOLEAN, NEW v \in Views, NEW rest, JobsTyped(rest),
             NEW history \in LapsesType, SameCounts(history),
             LoadPage(v, append, rest, history), UNCHANGED count,
             Jobs \subseteq BagToSet(rest),
             \A k \in BagToSet(rest) : k \in Jobs \/ k.job = "write"
      PROVE  CountsTrue'
  <2>1. /\ BagToSet(rest) \subseteq BagToSet(jobs') /\ SameCounts(lapses')
        /\ \A j \in BagToSet(jobs') : j \in BagToSet(rest) \/ j \in PageAsked
    BY <1>1, <1>4, LoadPageIs DEF TypedNow
  <2>2. \A k \in BagToSet(jobs') : k \in Jobs \/ k.job \in {"page", "write", "refresh"}
    BY <1>4, <2>1 DEF PageAsked
  <2>. QED
    BY <1>3, <1>4, <2>1, <2>2
<1>5. CASE \/ \E n \in left.nodes : SelectNode(n)
           \/ \E q \in DOMAIN Titles : SearchArticles(q)
           \/ ToggleShowingReadArticles \/ LoadMoreArticles
  <2>1. /\ \E append \in BOOLEAN, v \in Views : LoadPage(v, append, jobs, lapses)
        /\ UNCHANGED count
    BY <1>1, <1>5
       DEF SelectNode, SearchArticles, ToggleShowingReadArticles, LoadMoreArticles, TypedNow, pane
  <2>. QED
    BY <1>1, <1>4, <2>1 DEF TypedNow, Jobs
<1>6. \A w : Wrote(w) \in LapsesType /\ SameCounts(Wrote(w))
  BY <1>1, WroteIs DEF TypedNow
<1>7. ASSUME NEW k, k.job \in {"write", "refresh"}, jobs' = BagAdd(jobs, k), SameCounts(lapses'),
             UNCHANGED count \/ (k.job = "write" /\ k.op = "all") \/ Mark(k)
      PROVE  CountsTrue'
  <2>1. BagToSet(jobs') = Jobs \cup {k}
    BY <1>1, <1>7, Added DEF TypedNow, Jobs
  <2>2. count' = count \/ Trigger' \/ Marking'
    BY <1>7, <2>1, TriggerIs
  <2>. QED
    BY <1>3, <1>7, <2>1, <2>2
<1>8. CASE UNCHANGED <<count, jobs, lapses>>
  BY <1>3, <1>8 DEF Jobs
<1>9. ASSUME NEW r \in Row, NEW op \in {"read", "unread"},
             jobs' = BagAdd(jobs, WriteFor(op, r)), lapses' = Wrote(WriteFor(op, r))
      PROVE  CountsTrue'
  <2>. DEFINE k == WriteFor(op, r)
  <2>1. k.job = "write" /\ k.op = op /\ k.state = "asked"
    BY <1>1, WriteForIs DEF TypedNow
  <2>2. Mark(k)
    BY <2>1 DEF Mark
  <2>3. jobs' = BagAdd(jobs, k) /\ SameCounts(lapses')
    BY <1>6, <1>9
  <2>. HIDE DEF k
  <2>. QED
    BY <1>7, <2>1, <2>2, <2>3
<1>10. ASSUME NEW i \in DOMAIN list, SelectArticle(i) PROVE CountsTrue'
  <2>1. list[i] \in Row
    BY <1>1 DEF TypedNow
  <2>. QED
    BY <1>8, <1>9, <1>10, <2>1 DEF SelectArticle
<1>11. CASE MarkSelectedArticleUnread
  <2>1. list[row] \in Row
    BY <1>1, <1>11 DEF MarkSelectedArticleUnread, TypedNow
  <2>. QED
    BY <1>9, <1>11, <2>1 DEF MarkSelectedArticleUnread
<1>12. CASE ToggleSelectedArticleQueued
  <2>. DEFINE k == WriteFor(IF list[row].queued THEN "unqueue" ELSE "queue", list[row])
  <2>1. /\ UNCHANGED count
        /\ \/ LoadPage(view, FALSE, BagAdd(jobs, k), Wrote(k))
           \/ jobs' = BagAdd(jobs, k) /\ lapses' = Wrote(k)
    BY <1>12 DEF ToggleSelectedArticleQueued
  <2>2. k \in Writing /\ k.job = "write"
    <3>1. list[row] \in Row
      BY <1>1, <1>12 DEF ToggleSelectedArticleQueued, TypedNow
    <3>. QED
      BY <1>1, <3>1, WriteForIs DEF TypedNow
  <2>. HIDE DEF k
  <2>3. JobsTyped(BagAdd(jobs, k)) /\ BagToSet(BagAdd(jobs, k)) = Jobs \cup {k}
    BY <1>1, <2>2, NewJobs, JobsAre, Added DEF TypedNow, Jobs
  <2>4. CASE LoadPage(view, FALSE, BagAdd(jobs, k), Wrote(k))
    BY <1>1, <1>4, <1>6, <2>1, <2>2, <2>3, <2>4 DEF TypedNow
  <2>5. CASE jobs' = BagAdd(jobs, k) /\ lapses' = Wrote(k)
    <3>1. SameCounts(lapses')
      BY <1>6, <2>5
    <3>. QED
      BY <1>7, <2>1, <2>2, <2>5, <3>1
  <2>. QED
    BY <2>1, <2>4, <2>5
<1>13. ASSUME NEW n \in left.nodes, MarkAllArticlesRead(n) PROVE CountsTrue'
  <2>. DEFINE k == WriteJob("all", n, 0, FALSE)
  <2>1. k.job = "write" /\ k.op = "all"
    BY DEF WriteJob
  <2>2. jobs' = BagAdd(jobs, k) /\ \E so \in BOOLEAN : lapses' = [Wrote(k) EXCEPT !.missed = so]
    <3>1. lapses' = [Wrote(k) EXCEPT
            !.missed = @ \/ (~(n = view.node) /\ view.node # Queue /\ Overlap(n, view.node))]
      BY <1>13 DEF MarkAllArticlesRead
    <3>. DEFINE so == Wrote(k).missed
                        \/ (~(n = view.node) /\ view.node # Queue /\ Overlap(n, view.node))
    <3>2. so \in BOOLEAN /\ lapses' = [Wrote(k) EXCEPT !.missed = so]
      BY <3>1
    <3>3. jobs' = BagAdd(jobs, k)
      BY <1>13 DEF MarkAllArticlesRead
    <3>. QED
      BY <3>2, <3>3
  <2>. HIDE DEF k
  <2>3. SameCounts(lapses')
    BY <1>6, <2>2 DEF LapsesType
  <2>. QED
    BY <1>7, <2>1, <2>2, <2>3
<1>14. ASSUME NEW f \in Feeds, RefreshFeed(f) PROVE CountsTrue'
  <2>1. RefreshJob(f).job = "refresh"
    BY DEF RefreshJob
  <2>2. jobs' = BagAdd(jobs, RefreshJob(f)) /\ UNCHANGED count /\ UNCHANGED lapses
    BY <1>14 DEF RefreshFeed, pane
  <2>. QED
    BY <1>7, <2>1, <2>2
<1>. QED
  BY <1>5, <1>10, <1>11, <1>12, <1>13, <1>14 DEF UserActs

\* The device
LEMMA CountsByDevice ==
  ASSUME Typed, CountsTrue, NEW j \in Jobs, DeviceActs(j)
  PROVE  CountsTrue'
<1>1. TypedNow /\ JobType(j)
  BY TypedParts DEF Typed, JobsTyped, Jobs
<1>. DEFINE SameCounts(history) ==
              /\ history.wrong = lapses.wrong /\ history.commits = lapses.commits
              /\ history.counted = lapses.counted /\ history.silent = lapses.silent
            rest == BagRemove(jobs, j)
<1>2. UNCHANGED articles
  BY DEF DeviceActs, UsePage, PageFailed, FinishWrite, ReloadByThread, FinishRefresh, UseCount,
         UseConnection, tables
<1>3. /\ JobsTyped(rest) /\ JobsTyped(BagAdd(rest, CountJob))
      /\ BagToSet(rest) \subseteq Jobs /\ Jobs \ {j} \subseteq BagToSet(rest)
      /\ \A k : BagToSet(BagAdd(rest, k)) = BagToSet(rest) \cup {k}
  BY <1>1, NewJobs, JobsAre, Taken, Added DEF TypedNow, Jobs, JobsTyped
<1>4. /\ CountJob.job = "count" /\ CountJob.state # "done" /\ ConnectJob.job = "connect"
      /\ ConnectJob.state # "done" /\ \A v : ReloadJob(v).job = "reload"
      /\ \A v : PageJob(v, FALSE, 0).job = "page"
  BY DEF CountJob, ConnectJob, ReloadJob, PageJob
<1>. HIDE DEF rest
<1>5. ASSUME SameCounts(lapses'), UNCHANGED count,
             Jobs \ {j} \subseteq BagToSet(jobs'),
             BagToSet(notes) # {} => Trigger',
             \A k \in BagToSet(jobs') : IsAnswer(k) => k \in Jobs,
             \/ Trigger'
             \/ /\ j.job \notin {"count", "connect"} /\ ~Mark(j)
                /\ j.job = "write" => j.op # "all"
      PROVE  CountsTrue'
  <2>1. ~Trigger' => ~Mark(j) /\ ~Promise(j, lapses.commits)
    BY <1>5 DEF Promise
  <2>2. \A k \in Jobs : k \notin BagToSet(jobs') =>
          /\ Promise(k, lapses.commits) => Trigger'
          /\ Mark(k) => Trigger' \/ Marking' \/ lapses'.wrong
    BY <1>5, <2>1
  <2>. QED
    BY <1>1, <1>2, <1>5, <2>2, CountsKept DEF TypedNow
<1>6. ASSUME UNCHANGED notes PROVE BagToSet(notes) # {} => Trigger'
  BY <1>6, TriggerIs
<1>7. \A so \in BOOLEAN : SameCounts(Missed(so))
  BY <1>1, MissedIs DEF TypedNow
<1>8. ASSUME NEW all, JobsTyped(all), NEW history \in LapsesType,
             LoadPage(view, FALSE, all, history)
      PROVE  /\ BagToSet(all) \subseteq BagToSet(jobs')
             /\ \A k \in BagToSet(jobs') : k \in BagToSet(all) \/ ~IsAnswer(k)
             /\ lapses'.wrong = history.wrong /\ lapses'.commits = history.commits
             /\ lapses'.counted = history.counted /\ lapses'.silent = history.silent
  <2>1. \A k \in PageAsked : ~IsAnswer(k)
    BY DEF PageAsked, IsAnswer
  <2>2. FALSE \in BOOLEAN /\ view \in Views
    BY <1>1 DEF TypedNow
  <2>. QED
    BY <1>1, <1>8, <2>1, <2>2, LoadPageIs DEF TypedNow
<1>9. CASE UsePage(j)
  <2>1. /\ j.job = "page" /\ jobs' = rest /\ UNCHANGED count /\ UNCHANGED notes
    BY <1>9 DEF UsePage, rest
  <2>2. SameCounts(lapses')
    BY <1>1, <1>9 DEF UsePage, TypedNow, LapsesType
  <2>. QED
    BY <1>3, <1>5, <1>6, <2>1, <2>2 DEF Mark
<1>10. CASE PageFailed(j)
  <2>1. /\ j.job = "page" /\ UNCHANGED count
        /\ \/ jobs' = rest /\ UNCHANGED notes
           \/ jobs' = BagAdd(rest, ConnectJob)
    BY <1>10 DEF PageFailed, rest
  <2>2. SameCounts(lapses')
    BY <1>1, <1>10 DEF PageFailed, TypedNow, LapsesType
  <2>3. CASE jobs' = rest /\ UNCHANGED notes
    BY <1>3, <1>5, <1>6, <2>1, <2>2, <2>3 DEF Mark
  <2>4. CASE jobs' = BagAdd(rest, ConnectJob)
    <3>1. Trigger'
      BY <1>3, <1>4, <2>4, TriggerIs
    <3>. QED
      BY <1>3, <1>4, <1>5, <2>1, <2>2, <2>4, <3>1 DEF IsAnswer
  <2>. QED
    BY <2>1, <2>3, <2>4
<1>11. CASE FinishWrite(j)
  <2>. DEFINE counts == j.op = "all" \/ (j.state = "failed" /\ j.op \in {"read", "unread"})
              some == IF counts THEN BagAdd(rest, CountJob) ELSE rest
  <2>1. /\ j.job = "write" /\ j.state \in {"done", "failed"} /\ UNCHANGED count /\ UNCHANGED notes
        /\ \E so \in BOOLEAN : lapses' = Missed(so)
        /\ jobs' = some \/ jobs' = BagAdd(some, ReloadJob(view))
    BY <1>11 DEF FinishWrite, rest, pane
  <2>2. /\ IsABag(some) /\ BagToSet(rest) \subseteq BagToSet(some)
        /\ \A k \in BagToSet(some) : k \in BagToSet(rest) \/ k = CountJob
        /\ counts => CountJob \in BagToSet(some)
    BY <1>3 DEF JobsTyped
  <2>3. Mark(j) \/ (j.job = "write" /\ j.op = "all") => counts
    BY <2>1 DEF Mark
  <2>. HIDE DEF counts, some
  <2>4. /\ BagToSet(some) \subseteq BagToSet(jobs')
        /\ \A k \in BagToSet(jobs') : k \in BagToSet(some) \/ k = ReloadJob(view)
    BY <2>1, <2>2, Added
  <2>5. counts => Trigger'
    BY <1>4, <2>2, <2>4, TriggerIs
  <2>6. \A k \in BagToSet(jobs') : IsAnswer(k) => k \in Jobs
    BY <1>3, <1>4, <2>2, <2>4 DEF IsAnswer
  <2>7. SameCounts(lapses') /\ Jobs \ {j} \subseteq BagToSet(jobs')
    BY <1>3, <1>7, <2>1, <2>2, <2>4
  <2>. QED
    BY <1>5, <1>6, <2>1, <2>3, <2>5, <2>6, <2>7
<1>12. CASE ReloadByThread(j)
  <2>1. /\ j.job = "reload" /\ UNCHANGED count /\ UNCHANGED notes /\ lapses' = Missed(Paging)
        /\ jobs' = BagAdd(rest, PageJob(j.view, FALSE, 0))
    BY <1>12 DEF ReloadByThread, rest, pane
  <2>2. SameCounts(lapses')
    <3>1. Paging \in BOOLEAN
      BY DEF Paging
    <3>. QED
      BY <1>7, <2>1, <3>1
  <2>3. \A k \in BagToSet(jobs') : IsAnswer(k) => k \in Jobs
    <3>. DEFINE p == PageJob(j.view, FALSE, 0)
    <3>1. p.job = "page" /\ jobs' = BagAdd(rest, p)
      BY <1>4, <2>1
    <3>. HIDE DEF p
    <3>2. BagToSet(jobs') = BagToSet(rest) \cup {p}
      BY <1>3, <3>1
    <3>. QED
      BY <1>3, <3>1, <3>2 DEF IsAnswer
  <2>. QED
    BY <1>3, <1>5, <1>6, <2>1, <2>2, <2>3 DEF Mark
<1>13. CASE FinishRefresh(j)
  <2>1. /\ j.job = "refresh" /\ UNCHANGED count /\ UNCHANGED notes
        /\ \/ LoadPage(view, FALSE, BagAdd(rest, CountJob), lapses)
           \/ /\ jobs' \in {rest, BagAdd(rest, CountJob)}
              /\ \E so \in BOOLEAN : lapses' = Missed(so)
    BY <1>13 DEF FinishRefresh, rest, pane
  <2>2. CASE LoadPage(view, FALSE, BagAdd(rest, CountJob), lapses)
    <3>1. /\ BagToSet(BagAdd(rest, CountJob)) \subseteq BagToSet(jobs')
          /\ \A k \in BagToSet(jobs') : k \in BagToSet(BagAdd(rest, CountJob)) \/ ~IsAnswer(k)
          /\ SameCounts(lapses')
      BY <1>1, <1>3, <1>8, <2>2 DEF TypedNow
    <3>2. \A k \in BagToSet(jobs') : IsAnswer(k) => k \in Jobs
      BY <1>3, <1>4, <3>1 DEF IsAnswer
    <3>. QED
      BY <1>3, <1>5, <1>6, <2>1, <3>1, <3>2 DEF Mark
  <2>3. CASE /\ jobs' \in {rest, BagAdd(rest, CountJob)}
             /\ \E so \in BOOLEAN : lapses' = Missed(so)
    <3>1. /\ SameCounts(lapses') /\ Jobs \ {j} \subseteq BagToSet(jobs')
          /\ \A k \in BagToSet(jobs') : IsAnswer(k) => k \in Jobs
      BY <1>3, <1>4, <1>7, <2>3 DEF IsAnswer
    <3>. QED
      BY <1>5, <1>6, <2>1, <3>1 DEF Mark
  <2>. QED
    BY <2>1, <2>2, <2>3
<1>14. ASSUME j \in CountDone, UNCHANGED notes, count' = j.value,
              Jobs \ {j} \subseteq BagToSet(jobs'),
              lapses'.wrong = Counted(j, lapses).wrong,
              lapses'.commits = Counted(j, lapses).commits,
              lapses'.counted = Counted(j, lapses).counted,
              lapses'.silent = Counted(j, lapses).silent,
              \A k \in BagToSet(jobs') : IsAnswer(k) => k \in Jobs
       PROVE  CountsTrue'
  <2>1. /\ lapses'.commits = lapses.commits /\ lapses'.silent = lapses.silent
        /\ lapses'.wrong = (j.commits < lapses.counted \/ j.commits < lapses.silent)
        /\ lapses'.counted = IF j.commits > lapses.counted THEN j.commits ELSE lapses.counted
    BY <1>1, <1>14 DEF Counted, TypedNow, LapsesType
  <2>. QED
    BY <1>1, <1>2, <1>14, <2>1, CountUsed DEF TypedNow
<1>15. CASE UseCount(j)
  <2>1. jobs' = rest /\ UNCHANGED notes /\ j.job = "count"
    BY <1>15 DEF UseCount, rest
  <2>2. \A k \in BagToSet(jobs') : IsAnswer(k) => k \in Jobs
    BY <1>3, <2>1
  <2>3. CASE j.state = "done"
    <3>1. j \in CountDone
      BY <1>1, <2>1, <2>3, JobKinds
    <3>2. count' = j.value /\ lapses' = Counted(j, lapses)
      BY <1>15, <2>3 DEF UseCount
    <3>. QED
      BY <1>3, <1>14, <2>1, <2>2, <3>1, <3>2
  <2>4. CASE j.state # "done"
    <3>1. lapses' = [lapses EXCEPT !.wrong = TRUE, !.silent = lapses.commits]
      BY <1>15, <2>4 DEF UseCount
    <3>2. /\ lapses'.wrong /\ lapses'.commits = lapses.commits /\ lapses'.counted = lapses.counted
          /\ lapses'.silent = lapses.commits
      BY <1>1, <3>1 DEF TypedNow, LapsesType
    <3>. QED
      BY <1>1, <1>2, <2>2, <3>2, CountsPending DEF TypedNow
  <2>. QED
    BY <2>3, <2>4
<1>16. CASE UseConnection(j)
  <2>1. /\ j.job = "connect" /\ j.state = "done" /\ count' = j.value /\ UNCHANGED notes
        /\ LoadPage(view, FALSE, rest, Counted(j, lapses))
    BY <1>16 DEF UseConnection, rest
  <2>2. j \in CountDone
    BY <1>1, <2>1, JobKinds
  <2>3. Counted(j, lapses) \in LapsesType
    BY <1>1, <2>2, CountedIs DEF TypedNow
  <2>4. /\ BagToSet(rest) \subseteq BagToSet(jobs')
        /\ \A k \in BagToSet(jobs') : k \in BagToSet(rest) \/ ~IsAnswer(k)
        /\ lapses'.wrong = Counted(j, lapses).wrong
        /\ lapses'.commits = Counted(j, lapses).commits
        /\ lapses'.counted = Counted(j, lapses).counted
        /\ lapses'.silent = Counted(j, lapses).silent
    BY <1>3, <1>8, <2>1, <2>3
  <2>. QED
    BY <1>3, <1>14, <2>1, <2>2, <2>4
<1>. QED
  BY <1>9, <1>10, <1>11, <1>12, <1>13, <1>15, <1>16 DEF DeviceActs

\* The devices are told of every change but one that ends in an error: that is of
\* all of the queue, and its thread fetches the count.
LEMMA ToldIs ==
  ASSUME TablesTyped, NEW w \in Writing, Changes(w)
  PROVE  Told(w) # {} \/ (Throws(w) /\ w.op = "all")
<1>1. w.op \in {"read", "unread", "queue", "unqueue", "all"}
  BY DEF Writing
<1>2. CASE ~Throws(w)
  BY <1>1, <1>2 DEF Told
<1>3. CASE Throws(w) /\ w.op = "queue"
  <2>1. w.copy \/ w.article \notin DOMAIN articles
    BY <1>3 DEF Throws
  <2>2. (IF w.copy THEN {} ELSE Found(w) \cap DOMAIN articles) = {}
    <3>1. Found(w) \subseteq {w.article}
      BY DEF Found
    <3>. QED
      BY <2>1, <3>1
  <2>3. QueuedAfter(w) = [a \in DOMAIN queued \cup {} |->
                            IF a \in DOMAIN queued THEN queued[a] ELSE articles[a]]
    BY <1>3, <2>2 DEF QueuedAfter
  <2>4. QueuedAfter(w) = queued
    <3>1. queued = [a \in DOMAIN queued |-> queued[a]]
      BY DEF TablesTyped
    <3>. QED
      BY <2>3, <3>1
  <2>5. ArticlesAfter(w) = articles
    BY <1>3 DEF ArticlesAfter
  <2>. QED
    BY <2>4, <2>5 DEF Changes
<1>4. CASE Throws(w) /\ w.op # "queue"
  BY <1>4 DEF Throws
<1>. QED
  BY <1>2, <1>3, <1>4

\* The server tells of a new article, and counts it.
LEMMA CountsByArrival ==
  ASSUME TypedNow, CountsTrue, NEW some, NEW from \in {"own", "scheduler"}, NEW f \in Feeds,
         NEW missed \in BOOLEAN, Arrives(some, from, f, missed),
         Offline => ConnectJob \in BagToSet(jobs'),
         \A k \in BagToSet(jobs') : IsAnswer(k) => k \in Jobs
  PROVE  CountsTrue'
<1>1. /\ BagToSet(notes) \subseteq BagToSet(notes')
      /\ Offline \/ BagToSet(notes') # {}
  <2>1. {f} \subseteq Nodes \cup {Everywhere} /\ {f} # {} /\ from \in {"own", "other", "scheduler"}
    BY FeedsAre
  <2>. QED
    BY <2>1, NotifyIs DEF Arrives, TypedNow
<1>2. lapses' = [lapses EXCEPT !.commits = IF some = {} THEN @ ELSE @ + 1, !.missed = missed]
  BY DEF Arrives
<1>3. /\ lapses'.counted = lapses.counted /\ lapses'.silent = lapses.silent
      /\ lapses'.wrong = lapses.wrong
      /\ lapses'.commits = IF some = {} THEN lapses.commits ELSE lapses.commits + 1
  BY <1>2 DEF TypedNow, LapsesType
<1>4. Trigger'
  BY <1>1, TriggerIs DEF ConnectJob
<1>5. CASE some = {}
  <2>1. articles' = articles
    <3>1. articles = [a \in DOMAIN articles |-> articles[a]]
      BY DEF TypedNow, TablesTyped
    <3>2. articles' = [a \in DOMAIN articles \cup {} |-> articles[a]]
      BY <1>5 DEF Arrives
    <3>. QED
      BY <3>1, <3>2
  <2>2. lapses'.commits = lapses.commits
    BY <1>3, <1>5
  <2>. QED
    BY <1>3, <1>4, <2>1, <2>2, CountsPending DEF TypedNow
<1>6. CASE some # {}
  <2>1. lapses'.commits = lapses.commits + 1
    BY <1>3, <1>6
  <2>. QED
    BY <1>3, <1>4, <2>1, CountsPending DEF TypedNow
<1>. QED
  BY <1>5, <1>6

\* The server
LEMMA CountsByServer ==
  ASSUME Typed, CountsTrue, NEW j \in Jobs, ServerActs(j)
  PROVE  CountsTrue'
<1>1. TypedNow /\ JobType(j)
  BY TypedParts DEF Typed, JobsTyped, Jobs
<1>2. UNCHANGED count
  BY DEF ServerActs, ServePage, ServeCount, ServeConnection, ServeWrite, ServeRefresh, pane
<1>3. ASSUME NEW k, jobs' = BagAdd(BagRemove(jobs, j), k)
      PROVE  /\ BagToSet(jobs') \subseteq Jobs \cup {k}
             /\ (Jobs \ {j}) \cup {k} \subseteq BagToSet(jobs')
  BY <1>1, <1>3, Replaced DEF TypedNow, Jobs
<1>4. CASE ServePage(j)
  <2>1. PICK k : jobs' = BagAdd(BagRemove(jobs, j), k) /\ k.job = "page"
    <3>. DEFINE all    == Listing(j.view)
                last   == IF j.offset + Limit < Len(all) THEN j.offset + Limit ELSE Len(all)
                rows   == SubSeq(all, j.offset + 1, last)
                behind == \E i \in Jobs : i.job = "write" /\ i.state = "asked"
                p      == [job |-> "page", state |-> "done", view |-> j.view,
                           append |-> j.append, rows |-> rows, next |-> j.offset + Len(rows),
                           more |-> last < Len(all),
                           writes |-> IF behind THEN 0 - 1 ELSE lapses.writes]
    <3>1. jobs' = BagAdd(BagRemove(jobs, j), p) /\ p.job = "page"
      BY <1>4 DEF ServePage
    <3>. HIDE DEF p
    <3>. QED
      BY <3>1
  <2>2. j.job = "page" /\ UNCHANGED tables /\ UNCHANGED notes /\ UNCHANGED lapses
    BY <1>4 DEF ServePage, Serving
  <2>3. ~Promise(j, lapses.commits) /\ ~Mark(j) /\ ~IsAnswer(k)
    BY <2>1, <2>2 DEF Promise, Mark, IsAnswer
  <2>4. BagToSet(notes) # {} => Trigger'
    BY <2>2, TriggerIs
  <2>. QED
    BY <1>1, <1>2, <1>3, <2>1, <2>2, <2>3, <2>4, CountsKept DEF TypedNow, tables
<1>5. CASE ServeCount(j) \/ ServeConnection(j)
  <2>1. PICK kind \in {"count", "connect"} : jobs' = BagAdd(BagRemove(jobs, j), Count(kind))
    BY <1>5 DEF ServeCount, ServeConnection
  <2>2. /\ j.job \in {"count", "connect"} /\ j.state = "asked"
        /\ UNCHANGED tables /\ UNCHANGED notes /\ UNCHANGED lapses
    BY <1>5 DEF ServeCount, ServeConnection, Serving, ConnectJob
  <2>. DEFINE k == Count(kind)
  <2>3. k.job = kind /\ k.state = "done" /\ k.value = Unread /\ k.commits = lapses.commits
    BY DEF Count
  <2>. HIDE DEF k
  <2>4. k \in Jobs' /\ BagToSet(jobs') \subseteq Jobs \cup {k}
    BY <1>3, <2>1 DEF k, Jobs
  <2>5. Trigger'
    <3>1. Promise(k, lapses'.commits)
      BY <2>2, <2>3 DEF Promise
    <3>. QED
      BY <2>4, <3>1 DEF Trigger
  <2>6. \A i \in BagToSet(jobs') : IsAnswer(i) =>
          i \in Jobs \/ (i.commits = lapses.commits /\ i.value = Unread)
    BY <2>3, <2>4
  <2>. QED
    BY <1>1, <1>2, <2>2, <2>5, <2>6, CountsKept DEF TypedNow, tables
<1>6. CASE ServeWrite(j)
  <2>1. /\ j.job = "write" /\ j \in Writing /\ ~Offline
        /\ articles' = ArticlesAfter(j) /\ Notify(Told(j), "own")
        /\ lapses' = [lapses EXCEPT
             !.commits = IF Changes(j) THEN @ + 1 ELSE @,
             !.wrong = @ \/ (~Changes(j) /\ j.op \in {"read", "unread"})]
    BY <1>1, <1>6, JobKinds DEF ServeWrite, Serving
  <2>. DEFINE k == [j EXCEPT !.state = IF Throws(j) THEN "failed" ELSE "done"]
  <2>2. jobs' = BagAdd(BagRemove(jobs, j), k)
    BY <1>6 DEF ServeWrite
  <2>3. k.job = "write" /\ k.op = j.op
    BY <2>1 DEF Writing
  <2>. HIDE DEF k
  <2>4. /\ BagToSet(jobs') \subseteq Jobs \cup {k}
        /\ (Jobs \ {j}) \cup {k} \subseteq BagToSet(jobs')
    BY <1>3, <2>2
  <2>5. \A i \in BagToSet(jobs') : IsAnswer(i) => i \in Jobs
    BY <2>3, <2>4 DEF IsAnswer
  <2>6. /\ BagToSet(notes) \subseteq BagToSet(notes')
        /\ Told(j) = {} \/ BagToSet(notes') # {}
    <3>1. Told(j) \subseteq Nodes \cup {Everywhere} /\ "own" \in {"own", "other", "scheduler"}
      BY <1>1, <2>1, WritesTyped DEF TypedNow
    <3>. QED
      BY <1>1, <2>1, <3>1, NotifyIs DEF TypedNow
  <2>7. j.op = "all" => Trigger'
    BY <2>3, <2>4, TriggerIs
  <2>8. CASE Changes(j)
    <3>1. Trigger'
      BY <1>1, <2>1, <2>6, <2>7, <2>8, ToldIs, TriggerIs DEF TypedNow
    <3>2. /\ lapses'.commits = lapses.commits + 1 /\ lapses'.counted = lapses.counted
          /\ lapses'.silent = lapses.silent
      BY <1>1, <2>1, <2>8 DEF TypedNow, LapsesType
    <3>. QED
      BY <1>1, <2>5, <3>1, <3>2, CountsPending DEF TypedNow
  <2>9. CASE ~Changes(j)
    <3>1. articles' = articles
      BY <2>1, <2>9 DEF Changes
    <3>2. /\ lapses'.commits = lapses.commits /\ lapses'.counted = lapses.counted
          /\ lapses'.silent = lapses.silent
          /\ lapses'.wrong = (lapses.wrong \/ j.op \in {"read", "unread"})
      BY <1>1, <2>1, <2>9 DEF TypedNow, LapsesType
    <3>3. BagToSet(notes) # {} => Trigger'
      BY <2>6, TriggerIs
    <3>4. Mark(j) => lapses'.wrong
      BY <3>2 DEF Mark
    <3>5. Promise(j, lapses.commits) => Trigger'
      BY <2>1, <2>7 DEF Promise
    <3>6. \A i \in Jobs : i \notin BagToSet(jobs') => i = j
      BY <2>4
    <3>. QED
      BY <1>1, <1>2, <2>5, <3>1, <3>2, <3>3, <3>4, <3>5, <3>6, CountsKept DEF TypedNow
  <2>. QED
    BY <2>8, <2>9
<1>7. CASE ServeRefresh(j)
  <2>1. j \in Refreshing /\ j.feed \in Feeds /\ ~Offline
    BY <1>1, <1>7, JobKinds DEF ServeRefresh, Serving, Refreshing
  <2>2. PICK some : Arrives(some, "own", j.feed, lapses.missed)
    BY <1>7 DEF ServeRefresh
  <2>. DEFINE k == [j EXCEPT !.state = "done"]
  <2>3. jobs' = BagAdd(BagRemove(jobs, j), k)
    BY <1>7 DEF ServeRefresh
  <2>4. k.job = "refresh"
    BY <2>1 DEF Refreshing
  <2>. HIDE DEF k
  <2>5. \A i \in BagToSet(jobs') : IsAnswer(i) => i \in Jobs
    BY <1>3, <2>3, <2>4 DEF IsAnswer
  <2>. QED
    BY <1>1, <2>1, <2>2, <2>5, CountsByArrival DEF TypedNow
<1>. QED
  BY <1>4, <1>5, <1>6, <1>7 DEF ServerActs

\* The server tells of a change that no job waits for, or tells nobody.
LEMMA CountsByChange ==
  ASSUME TypedNow, CountsTrue, NEW w \in Writing, NEW from \in {"own", "other"},
         NEW missed \in BOOLEAN, Commits(w, from, missed), UNCHANGED jobs
  PROVE  CountsTrue'
<1>1. /\ Changes(w) /\ Notify(Told(w), from)
      /\ lapses' = [lapses EXCEPT
           !.commits = @ + 1,
           !.missed = missed \/ Throws(w),
           !.wrong = @ \/ Throws(w),
           !.silent = IF Throws(w) THEN lapses.commits + 1 ELSE @]
  BY DEF Commits
<1>2. /\ lapses'.commits = lapses.commits + 1 /\ lapses'.counted = lapses.counted
      /\ lapses'.silent = IF Throws(w) THEN lapses.commits + 1 ELSE lapses.silent
      /\ lapses'.wrong = (lapses.wrong \/ Throws(w))
  BY <1>1 DEF TypedNow, LapsesType
<1>3. Throws(w) \/ Trigger'
  <2>1. Told(w) # {} \/ Throws(w)
    BY <1>1, ToldIs DEF TypedNow
  <2>2. Told(w) \subseteq Nodes \cup {Everywhere} /\ from \in {"own", "other", "scheduler"}
    BY WritesTyped DEF TypedNow
  <2>3. Offline \/ Told(w) = {} \/ BagToSet(notes') # {}
    BY <1>1, <2>2, NotifyIs DEF TypedNow
  <2>4. Offline => Trigger'
    BY TriggerIs DEF Offline, Jobs, ConnectJob
  <2>. QED
    BY <2>1, <2>3, <2>4, TriggerIs
<1>. QED
  BY <1>2, <1>3, CountsPending DEF TypedNow, Jobs

\* Notifications, the scheduler, other devices and faults
LEMMA CountsByOthers ==
  ASSUME Typed, AstrayTyped, CountsTrue,
         \/ \E m \in BagToSet(notes) : ReceiveNote(m)
         \/ \E a \in Articles : SchedulerFetches(a)
         \/ \E w \in Asked : OtherDeviceWrites(w)
         \/ \E j \in Jobs : RequestFails(j)
         \/ \E j \in BagToSet(astray) : CommitAstray(j)
         \/ LoseConnection
  PROVE  CountsTrue'
<1>1. TypedNow
  BY TypedParts
<1>2. /\ CountJob.job = "count" /\ CountJob.state # "done" /\ ConnectJob.job = "connect"
      /\ ConnectJob.state # "done"
  BY DEF CountJob, ConnectJob
<1>. DEFINE SameCounts(history) ==
              /\ history.wrong = lapses.wrong /\ history.commits = lapses.commits
              /\ history.counted = lapses.counted /\ history.silent = lapses.silent
<1>3. ASSUME NEW m \in BagToSet(notes), ReceiveNote(m) PROVE CountsTrue'
  <2>. DEFINE all == BagAdd(jobs, CountJob)
  <2>1. /\ UNCHANGED tables /\ UNCHANGED count
        /\ \/ LoadPage(view, FALSE, all, lapses)
           \/ jobs' = all /\ \E so \in BOOLEAN : lapses' = Missed(so)
    BY <1>3 DEF ReceiveNote
  <2>2. JobsTyped(all) /\ BagToSet(all) = Jobs \cup {CountJob}
    BY <1>1, NewJobs, JobsAre, Added DEF TypedNow, Jobs
  <2>. HIDE DEF all
  <2>3. /\ BagToSet(all) \subseteq BagToSet(jobs') /\ SameCounts(lapses')
        /\ \A k \in BagToSet(jobs') : k \in BagToSet(all) \/ k \in PageAsked
    <3>1. CASE LoadPage(view, FALSE, all, lapses)
      <4>1. FALSE \in BOOLEAN
        OBVIOUS
      <4>. QED
        BY <1>1, <2>2, <3>1, <4>1, LoadPageIs DEF TypedNow
    <3>2. CASE jobs' = all /\ \E so \in BOOLEAN : lapses' = Missed(so)
      BY <1>1, <3>2, MissedIs DEF TypedNow
    <3>. QED
      BY <2>1, <3>1, <3>2
  <2>4. Trigger'
    BY <1>2, <2>2, <2>3, TriggerIs
  <2>5. \A k \in BagToSet(jobs') : IsAnswer(k) => k \in Jobs
    BY <1>2, <2>2, <2>3 DEF IsAnswer, PageAsked
  <2>. QED
    BY <1>1, <2>1, <2>3, <2>4, <2>5, CountsPending DEF TypedNow, tables
<1>4. ASSUME NEW a \in Articles, SchedulerFetches(a) PROVE CountsTrue'
  <2>1. Arrives({a}, "scheduler", FeedOf(a), lapses.missed) /\ UNCHANGED jobs
    BY <1>4 DEF SchedulerFetches
  <2>2. FeedOf(a) \in Feeds
    BY FeedsAre
  <2>. QED
    BY <1>1, <2>1, <2>2, CountsByArrival DEF Offline, Jobs, TypedNow
<1>5. ASSUME NEW w \in Asked, OtherDeviceWrites(w) PROVE CountsTrue'
  BY <1>1, <1>5, AskedIs, CountsByChange DEF OtherDeviceWrites, TypedNow
<1>6. ASSUME NEW j \in Jobs, RequestFails(j) PROVE CountsTrue'
  <2>. DEFINE k == CASE j.job = "page"  -> [job |-> "page", state |-> "failed", view |-> j.view,
                                            append |-> j.append]
                     [] j.job = "count" -> [job |-> "count", state |-> "failed"]
                     [] OTHER           -> [j EXCEPT !.state = "failed"]
  <2>1. /\ j.job \in {"page", "count", "write", "refresh"}
        /\ jobs' = BagAdd(BagRemove(jobs, j), k)
        /\ UNCHANGED tables /\ UNCHANGED notes /\ UNCHANGED count /\ UNCHANGED lapses
    BY <1>6 DEF RequestFails, pane
  <2>2. /\ k.job = j.job /\ k.state = "failed"
        /\ j.job = "write" => k.op = j.op
    <3>1. JobType(j)
      BY <1>1 DEF TypedNow, JobsTyped, Jobs
    <3>2. CASE j.job \in {"write", "refresh"}
      <4>1. k = [j EXCEPT !.state = "failed"]
        BY <3>2
      <4>2. j \in Writing \/ j \in Refreshing
        BY <3>1, <3>2, JobKinds
      <4>. QED
        BY <3>2, <4>1, <4>2 DEF Writing, Refreshing
    <3>3. CASE j.job \in {"page", "count"}
      BY <3>3
    <3>. QED
      BY <2>1, <3>2, <3>3
  <2>. HIDE DEF k
  <2>3. /\ BagToSet(jobs') \subseteq Jobs \cup {k}
        /\ (Jobs \ {j}) \cup {k} \subseteq BagToSet(jobs')
    BY <1>1, <2>1, Replaced DEF TypedNow, Jobs
  <2>4. Promise(j, lapses.commits) => Trigger'
    BY <2>1, <2>2, <2>3, TriggerIs DEF Promise
  <2>5. Mark(j) => Marking'
    BY <2>1, <2>2, <2>3, TriggerIs DEF Mark
  <2>6. BagToSet(notes) # {} => Trigger'
    BY <2>1, TriggerIs
  <2>7. \A i \in BagToSet(jobs') : IsAnswer(i) => i \in Jobs
    BY <2>2, <2>3 DEF IsAnswer
  <2>8. \A i \in Jobs : i \notin BagToSet(jobs') => i = j
    BY <2>3
  <2>. QED
    BY <1>1, <2>1, <2>4, <2>5, <2>6, <2>7, <2>8, CountsKept DEF TypedNow, tables
<1>7. ASSUME NEW j \in BagToSet(astray), CommitAstray(j) PROVE CountsTrue'
  <2>1. UNCHANGED jobs
    BY <1>7 DEF CommitAstray
  <2>. QED
    BY <1>1, <1>7, <2>1, LateIs, CountsByChange, CountsByArrival DEF Offline, Jobs
<1>8. CASE LoseConnection
  <2>1. /\ jobs' = BagAdd(jobs, ConnectJob)
        /\ UNCHANGED tables /\ UNCHANGED lapses /\ UNCHANGED count
    BY <1>8 DEF LoseConnection, pane
  <2>2. BagToSet(jobs') = Jobs \cup {ConnectJob}
    BY <1>1, <2>1, Added DEF TypedNow, Jobs
  <2>3. Trigger'
    BY <1>2, <2>2, TriggerIs
  <2>4. \A k \in BagToSet(jobs') : IsAnswer(k) => k \in Jobs
    BY <1>2, <2>2 DEF IsAnswer
  <2>. QED
    BY <1>1, <2>1, <2>3, <2>4, CountsPending DEF TypedNow, tables
<1>. QED
  BY <1>3, <1>4, <1>5, <1>6, <1>7, <1>8

LEMMA CountsTrueKept ==
  ASSUME Typed, AstrayTyped, CountsTrue, [Next]_vars
  PROVE  CountsTrue'
<1>1. CASE Next
  BY <1>1, CountsByUser, CountsByDevice, CountsByServer, CountsByOthers DEF Next
<1>2. CASE UNCHANGED vars
  <2>1. /\ UNCHANGED <<articles, notes, jobs, count, lapses>>
        /\ BagToSet(notes) # {} => Trigger'
    BY <1>2, TriggerIs DEF vars, tables, pane
  <2>2. TypedNow
    BY TypedParts
  <2>. QED
    BY <2>1, <2>2, CountsKept DEF TypedNow, Jobs
<1>. QED
  BY <1>1, <1>2

LEMMA CountsTrueAtFirst ==
  ASSUME Init
  PROVE  CountsTrue
<1>1. Jobs = {PageJob(view, FALSE, 0)}
  BY Emptied DEF Init, Jobs
<1>2. \A j \in Jobs : ~IsAnswer(j)
  BY <1>1 DEF PageJob, IsAnswer
<1>3. lapses.commits = 0 /\ lapses.counted = 0 /\ lapses.silent = 0 /\ count = Unread
  BY DEF Init, NoLapses
<1>. QED
  BY <1>2, <1>3 DEF CountsTrue

LEMMA CountsSettle ==
  ASSUME CountsTrue
  PROVE  CountAgreesUnlessWrong
<1>1. Quiet => ~Trigger /\ ~Marking
  BY Emptied DEF Quiet, Trigger, Marking
<1>. QED
  BY <1>1 DEF CountsTrue, CountAgreesUnlessWrong

\* When nothing is on its way any more the count beside the pane is the server's,
\* however answers, marks, notifications and reconnects crossed: whatever changes
\* it later leaves a notification, or a job that fetches it, until a count that
\* is no older is used.
THEOREM CountAgrees == Spec => []CountAgreesUnlessWrong
<1>1. Init => CountsTrue
  BY CountsTrueAtFirst
<1>2. Typed /\ AstrayTyped /\ CountsTrue /\ [Next]_vars => CountsTrue'
  BY CountsTrueKept
<1>3. CountsTrue => CountAgreesUnlessWrong
  BY CountsSettle
<1>. QED
  BY <1>1, <1>2, <1>3, AlwaysTyped, PTL DEF Spec

-----------------------------------------------------------------------------
(* The list, with what is on its way                                         *)

\* Once in a bag
Once(bag, e) == e \in BagToSet(bag) /\ bag[e] = 1

\* A change the user asked for that the server has not handled
IsOpen(j) == j.job = "write" /\ j.state = "asked"
Open      == {w \in Jobs : IsOpen(w)}

Touches(w, a) == w.op = "all" \/ w.article = a

\* A row has the flags that its article has in tables of the server.
Shows(n, arts, queue, r) ==
  IF n = Queue
    THEN r.article \in DOMAIN queue => r.read = queue[r.article] /\ r.queued
    ELSE r.article \in DOMAIN arts =>
           r.read = arts[r.article] /\ (r.queued <=> r.article \in DOMAIN queue)

\* It has those the article will have when the change on its way is made.
Foreseen(r) ==
  /\ \A w \in Open : Touches(w, r.article) =>
       Shows(view.node, ArticlesAfter(w), QueuedAfter(w), r)
  /\ (\A w \in Open : ~Touches(w, r.article)) => Shows(view.node, articles, queued, r)

\* The articles of the view on show at the server, and how many come before one
Table == IF view.node = Queue THEN queued ELSE articles
Has   == {a \in DOMAIN Table \cap Of(view.node) \cap Titles[view.query] :
            ~(view.unread /\ Table[a])}

Earlier(b, a) == Published[b] > Published[a] \/ (Published[b] = Published[a] /\ b > a)
Above(a)      == Cardinality({b \in Has : Earlier(b, a)})
Here(a)       == <<a, view.node = Queue>>

\* The user's changes since the first page was computed do not change which
\* articles the view has.
Steady == lapses.based = lapses.writes \/ ~(view.unread \/ view.node = Queue)

\* A page that was not overtaken
Fresh(p) == p.job = "page" /\ p.state = "done" /\ p.view = view /\ p.writes = lapses.writes

PageHolds(p) ==
  /\ \A i \in DOMAIN p.rows : Shows(view.node, articles, queued, p.rows[i])
  /\ (p.append => Steady) => \A a \in Has :
       /\ Above(a) < p.next => Here(a) \in Ids(p.rows) \/ (p.append /\ Above(a) < next)
       /\ p.more \/ Above(a) < p.next

PagesHold == \A p \in Jobs : Fresh(p) => PageHolds(p)

\* A page that is not overtaken yet was computed when nothing was on its way.
WritesKnown ==
  /\ lapses.based <= lapses.writes
  /\ \A p \in Jobs : p.job = "page" /\ p.state = "done" =>
       p.writes <= lapses.writes /\ (p.writes = lapses.writes => Open = {})

\* No two changes on their way are of the same article.
Separate ==
  \A w \in Open : /\ Once(jobs, w)
                  /\ \A k \in Open : k # w => ~Touches(w, k.article) /\ ~Touches(k, w.article)

\* A change that is on its way is of an article in the list.
InPlace(w) ==
  \/ w.op = "all"
  \/ /\ (w.node = Queue) = (view.node = Queue)
     /\ w.copy = (w.node = Queue) => <<w.article, w.copy>> \in Ids(list)

ListTrue ==
  /\ Separate
  /\ \A w \in Open : InPlace(w)
  /\ lapses.based = lapses.writes => Open = {}
  /\ \A i \in DOMAIN list : Id(list[i]) \in Ids(CachedWith(<<>>)) => Foreseen(list[i])
  /\ more \/ \A a \in Has : Here(a) \in Ids(list)
  /\ Steady => \A a \in Has : Above(a) < next => Here(a) \in Ids(list)

\* What will have the list reloaded, or count as a lapse
Unsettled(j) ==
  \/ j.job \in {"connect", "reload"}
  \/ j.job = "page" /\ (j.view # view \/ j.state = "failed")
  \/ j.job = "write" /\ j.state = "failed"
  \/ j.job = "refresh" /\ j.state = "failed"
  \/ j.job = "refresh" /\ j.state = "done" /\ Overlap(j.feed, view.node)

Tells(m) == m.from # "own" /\ (Concerns(m) \/ Overlap(m.node, view.node))

Pending == (\E j \in Jobs : Unsettled(j)) \/ \E m \in BagToSet(notes) : Tells(m)

\* The page that replaces the list is on its way.
Renewing == \E p \in Jobs : p.job = "page" /\ ~p.append /\ p.state # "failed" /\ p.view = view

OnePage ==
  /\ \A p \in Jobs : p.job = "page" => loading /\ Once(jobs, p)
  /\ \A p, k \in Jobs : p.job = "page" /\ k.job = "page" => p = k

Offsets ==
  \A p \in Jobs : p.job = "page" /\ p.state = "asked" => p.offset = IF p.append THEN next ELSE 0

Accounted == OnePage /\ Offsets /\ (Pending \/ (PagesHold /\ (Renewing \/ ListTrue)))

ListSound == WritesKnown /\ (~lapses.missed /\ ~broken => Accounted)

-----------------------------------------------------------------------------
(* Flags and tables                                                          *)

\* Two pairs of tables have the same of an article.
SameAt(a, s, t, u, v) ==
  /\ (a \in DOMAIN s <=> a \in DOMAIN u) /\ (a \in DOMAIN s => s[a] = u[a])
  /\ (a \in DOMAIN t <=> a \in DOMAIN v) /\ (a \in DOMAIN t => t[a] = v[a])

LEMMA ShowsSame ==
  ASSUME NEW n, NEW r, NEW s, NEW t, NEW u, NEW v, SameAt(r.article, s, t, u, v)
  PROVE  Shows(n, s, t, r) <=> Shows(n, u, v, r)
BY DEF SameAt, Shows

\* What a request makes of one article
AfterIs(w, a) ==
  /\ DOMAIN ArticlesAfter(w) = DOMAIN articles
  /\ a \in DOMAIN articles =>
       ArticlesAfter(w)[a] =
         IF w.op = "read" /\ a \in Found(w) THEN TRUE
         ELSE IF w.op = "unread" /\ a \in Found(w) THEN FALSE
         ELSE IF w.op = "all" /\ a \in (IF w.node = Queue THEN DOMAIN queued ELSE Of(w.node))
           THEN TRUE
         ELSE articles[a]
  /\ a \in DOMAIN QueuedAfter(w) <=>
       \/ a \in DOMAIN queued /\ ~(w.op = "unqueue" /\ a \in Found(w))
       \/ w.op = "queue" /\ ~w.copy /\ a \in Found(w) /\ a \in DOMAIN articles
  /\ a \in DOMAIN QueuedAfter(w) =>
       QueuedAfter(w)[a] =
         IF w.op = "read" /\ a \in Found(w) THEN TRUE
         ELSE IF w.op = "unread" /\ a \in Found(w) THEN FALSE
         ELSE IF w.op = "all" /\ w.node = Queue THEN TRUE
         ELSE IF a \in DOMAIN queued THEN queued[a]
         ELSE articles[a]
  /\ a \in Found(w) <=>
       /\ (w.node = Queue) = w.copy /\ a = w.article
       /\ IF w.copy THEN a \in DOMAIN queued ELSE a \in DOMAIN articles \cup DOMAIN queued

LEMMA AfterAt ==
  ASSUME NEW w \in Writing, NEW a
  PROVE  AfterIs(w, a)
<1>1. w.op \in {"read", "unread", "queue", "unqueue", "all"} /\ w.copy \in BOOLEAN
  BY DEF Writing
<1>2. a \in Found(w) <=>
        /\ (w.node = Queue) = w.copy /\ a = w.article
        /\ IF w.copy THEN a \in DOMAIN queued ELSE a \in DOMAIN articles \cup DOMAIN queued
  BY <1>1 DEF Found
<1>3. CASE w.op = "read"
  BY <1>2, <1>3 DEF ArticlesAfter, QueuedAfter, Flagged, AfterIs
<1>4. CASE w.op = "unread"
  BY <1>2, <1>4 DEF ArticlesAfter, QueuedAfter, Flagged, AfterIs
<1>5. CASE w.op = "all"
  BY <1>2, <1>5 DEF ArticlesAfter, QueuedAfter, Flagged, AfterIs
<1>6. CASE w.op = "queue"
  BY <1>1, <1>2, <1>6 DEF ArticlesAfter, QueuedAfter, AfterIs
<1>7. CASE w.op = "unqueue"
  BY <1>2, <1>7 DEF ArticlesAfter, QueuedAfter, Restrict, AfterIs
<1>. QED
  BY <1>1, <1>3, <1>4, <1>5, <1>6, <1>7

LEMMA AfterAtNext ==
  ASSUME NEW w \in Writing, NEW a
  PROVE  AfterIs(w, a)'
<1>1. AfterIs(w, a)
  BY AfterAt
<1>. QED
  BY <1>1, PTL

\* A request leaves an article alone that it is not of.
LEMMA Elsewhere ==
  ASSUME NEW w \in Writing, NEW a, ~Touches(w, a)
  PROVE  SameAt(a, articles, queued, ArticlesAfter(w), QueuedAfter(w))
<1>1. w.op # "all" /\ a \notin Found(w) /\ AfterIs(w, a)
  BY AfterAt DEF Touches, AfterIs
<1>. QED
  BY <1>1 DEF SameAt, AfterIs

\* What it makes of an article rests on what the tables have of that one.
LEMMA Commutes ==
  ASSUME NEW w \in Writing, NEW a, SameAt(a, articles, queued, articles', queued')
  PROVE  SameAt(a, ArticlesAfter(w), QueuedAfter(w), ArticlesAfter(w)', QueuedAfter(w)')
<1>1. AfterIs(w, a) /\ AfterIs(w, a)'
  BY AfterAt, AfterAtNext
<1>2. a \in Found(w) <=> a \in Found(w)'
  BY <1>1 DEF SameAt, AfterIs
<1>. QED
  BY <1>1, <1>2 DEF SameAt, AfterIs

-----------------------------------------------------------------------------
(* Which articles a view has                                                 *)

LEMMA RowsShown ==
  ASSUME NEW n, NEW r \in Rows(n)
  PROVE  Shows(n, articles, queued, r)
<1>1. CASE n = Queue
  BY <1>1 DEF Rows, Shows
<1>2. CASE n # Queue
  <2>1. PICK a \in DOMAIN articles :
          r = [article |-> a, copy |-> FALSE, read |-> articles[a], queued |-> a \in DOMAIN queued]
    BY <1>2 DEF Rows
  <2>2. r.article = a /\ r.read = articles[a]
    BY <2>1
  <2>3. r.queued <=> r.article \in DOMAIN queued
    <3>1. CASE a \in DOMAIN queued
      BY <2>1, <3>1
    <3>2. CASE a \notin DOMAIN queued
      BY <2>1, <3>2
    <3>. QED
      BY <3>1, <3>2
  <2>. QED
    BY <1>2, <2>2, <2>3 DEF Shows
<1>. QED
  BY <1>1, <1>2

LEMMA HasListed ==
  ASSUME TablesTyped, view \in Views
  PROVE  /\ \A r \in Listed(view) : r.article \in Has /\ Id(r) = Here(r.article)
         /\ \A a \in Has : \E r \in Listed(view) : r.article = a
<1>1. \A r \in Listed(view) : /\ r.copy = (view.node = Queue)
                              /\ r.article \in Of(view.node) \cap Titles[view.query]
  BY ListedAre
<1>2. \A r \in Listed(view) : r.article \in Has /\ Id(r) = Here(r.article)
  BY <1>1 DEF Listed, Rows, Has, Table, Here, Id
<1>3. ASSUME NEW a \in Has PROVE \E r \in Listed(view) : r.article = a
  <2>1. CASE view.node = Queue
    <3>. DEFINE r == [article |-> a, copy |-> TRUE, read |-> queued[a], queued |-> TRUE]
    <3>1. r \in Listed(view)
      BY <1>3, <2>1 DEF Has, Table, Listed, Rows
    <3>. QED
      BY <3>1
  <2>2. CASE view.node # Queue
    <3>. DEFINE r == [article |-> a, copy |-> FALSE, read |-> articles[a],
                      queued |-> a \in DOMAIN queued]
    <3>1. r \in Listed(view)
      BY <1>3, <2>2 DEF Has, Table, Listed, Rows
    <3>. QED
      BY <3>1
  <2>. QED
    BY <2>1, <2>2
<1>. QED
  BY <1>2, <1>3

LEMMA HasFinite ==
  ASSUME TablesTyped
  PROVE  IsFiniteSet(Has) /\ Has \subseteq Articles
<1>1. Has \in SUBSET Articles
  BY DEF Has, Table, TablesTyped
<1>. QED
  BY <1>1, ListAssumption, FS_Subset

\* The place of an article in the listing
LEMMA AbovePlace ==
  ASSUME TablesTyped, view \in Views
  PROVE  LET all == Listing(view) IN
         /\ all \in Seq(Row) /\ ~Doubled(all) /\ OfView(view, all)
         /\ \A i \in 1..Len(all) : all[i] \in Listed(view) /\ Above(all[i].article) = i - 1
         /\ \A a \in Has : Above(a) + 1 \in 1..Len(all) /\ Id(all[Above(a) + 1]) = Here(a)
<1>. DEFINE all  == Listing(view)
            L    == Listed(view)
<1>1. /\ all \in Seq(Row) /\ OfView(view, all) /\ ~Doubled(all)
      /\ \A i \in 1..Len(all) :
           /\ all[i] \in L
           /\ Cardinality({s \in L : ListedBefore(s, all[i])}) = i - 1
      /\ \A r \in L : \E i \in 1..Len(all) : r = all[i]
  BY ListingInOrder
<1>2. /\ \A r \in L : r.article \in Has /\ Id(r) = Here(r.article)
      /\ \A a \in Has : \E r \in L : r.article = a
  BY HasListed
<1>3. /\ IsFiniteSet(L) /\ \A r, s \in L : r.article = s.article => r = s
  BY ListedAre
<1>. HIDE DEF all, L
<1>4. ASSUME NEW i \in 1..Len(all) PROVE Above(all[i].article) = i - 1
  <2>. DEFINE r == all[i]
              S == {s \in L : ListedBefore(s, r)}
              T == {b \in Has : Earlier(b, r.article)}
              g == [s \in S |-> s.article]
  <2>1. r \in L /\ Cardinality(S) = i - 1
    BY <1>1
  <2>2. \A s \in L : ListedBefore(s, r) <=> Earlier(s.article, r.article)
    BY DEF ListedBefore, Earlier
  <2>3. g \in Bijection(S, T)
    <3>1. g \in [S -> T]
      BY <1>2, <2>2
    <3>2. \A s, t \in S : g[s] = g[t] => s = t
      BY <1>3
    <3>3. \A b \in T : \E s \in S : g[s] = b
      <4>1. TAKE b \in T
      <4>2. PICK s \in L : s.article = b
        BY <1>2
      <4>3. s \in S
        BY <2>2, <4>2
      <4>. QED
        BY <4>2, <4>3
    <3>. HIDE DEF g, S, T
    <3>. QED
      BY <3>1, <3>2, <3>3 DEF Bijection, Injection, Surjection, IsInjective
  <2>4. IsFiniteSet(S)
    BY <1>3, FS_Subset
  <2>5. Cardinality(T) = Cardinality(S)
    <3>1. ExistsBijection(S, T)
      BY <2>3 DEF ExistsBijection
    <3>. HIDE DEF S, T
    <3>. QED
      BY <2>4, <3>1, FS_Bijection
  <2>6. Above(r.article) = Cardinality(T)
    BY DEF Above
  <2>. HIDE DEF S, T
  <2>. QED
    BY <2>1, <2>5, <2>6 DEF r
<1>5. ASSUME NEW a \in Has
      PROVE  Above(a) + 1 \in 1..Len(all) /\ Id(all[Above(a) + 1]) = Here(a)
  <2>1. PICK r \in L : r.article = a
    BY <1>2
  <2>2. PICK i \in 1..Len(all) : r = all[i]
    BY <1>1
  <2>3. Above(a) = i - 1
    BY <1>4, <2>1, <2>2
  <2>4. Above(a) + 1 = i
    BY <2>3
  <2>. QED
    BY <1>2, <2>1, <2>2, <2>4
<1>. QED
  BY <1>1, <1>4, <1>5 DEF all, L

\* The page the server answers with: the rows of the listing from an offset on
Answer(j, p) ==
  LET all  == Listing(j.view)
      last == IF j.offset + Limit < Len(all) THEN j.offset + Limit ELSE Len(all)
  IN /\ p.job = "page" /\ p.state = "done" /\ p.view = j.view /\ p.append = j.append
     /\ p.rows = SubSeq(all, j.offset + 1, last)
     /\ p.next = j.offset + Len(p.rows) /\ (p.more <=> last < Len(all))

\* A page, when it is computed, has the view's articles from its offset to the
\* offset of the next with the flags they have.
LEMMA PageServed ==
  ASSUME TablesTyped, PagerTyped, view \in Views, NEW j \in PageAsked, j.view = view,
         j.offset = (IF j.append THEN next ELSE 0), NEW p, Answer(j, p)
  PROVE  PageHolds(p)
<1>. DEFINE all  == Listing(view)
            off  == j.offset
            last == IF off + Limit < Len(all) THEN off + Limit ELSE Len(all)
            rows == SubSeq(all, off + 1, last)
<1>1. /\ all \in Seq(Row) /\ ~Doubled(all) /\ OfView(view, all)
      /\ \A i \in 1..Len(all) : all[i] \in Listed(view) /\ Above(all[i].article) = i - 1
      /\ \A a \in Has : Above(a) + 1 \in 1..Len(all) /\ Id(all[Above(a) + 1]) = Here(a)
  BY AbovePlace
<1>2. p.rows = rows /\ p.next = off + Len(rows) /\ (p.more <=> last < Len(all)) /\ p.append = j.append
  BY DEF Answer
<1>. HIDE DEF all
<1>3. off \in Nat /\ Limit \in Nat \ {0} /\ Len(all) \in Nat /\ j.append \in BOOLEAN
  BY <1>1, PaneAssumption DEF PageAsked
<1>4. last \in Nat /\ last <= Len(all) /\ (last < Len(all) => last = off + Limit)
  BY <1>3
<1>5. \/ off + 1 <= last
      \/ last = Len(all) /\ last <= off
  BY <1>3
<1>. HIDE DEF off, last
<1>6. /\ rows \in Seq(Row)
      /\ Len(rows) = IF off + 1 <= last THEN last - (off + 1) + 1 ELSE 0
      /\ \A i \in 1..last - (off + 1) + 1 : rows[i] = all[off + 1 + i - 1]
  <2>1. \A i \in off + 1..last : all[i] \in Row
    BY <1>1, <1>3, <1>4
  <2>2. off + 1 \in Int /\ last \in Int
    BY <1>3, <1>4
  <2>. QED
    BY <2>1, <2>2, SubSeqProperties
<1>. HIDE DEF rows
<1>7. \A i \in 1..Len(rows) : off + i \in 1..Len(all) /\ rows[i] = all[off + i]
  BY <1>3, <1>4, <1>6
<1>8. \A i \in DOMAIN p.rows : Shows(view.node, articles, queued, p.rows[i])
  <2>1. TAKE i \in DOMAIN p.rows
  <2>2. i \in 1..Len(rows) /\ p.rows[i] = rows[i]
    BY <1>2, <1>6, <2>1
  <2>3. rows[i] \in Listed(view)
    BY <1>1, <1>7, <2>2
  <2>4. rows[i] \in Rows(view.node)
    BY <2>3 DEF Listed
  <2>. QED
    BY <2>2, <2>4, RowsShown
<1>9. off + Len(rows) = IF off + 1 <= last THEN last ELSE off
  BY <1>3, <1>4, <1>6
<1>10. ASSUME NEW a \in Has
       PROVE  /\ Above(a) < p.next => Here(a) \in Ids(p.rows) \/ (p.append /\ Above(a) < next)
              /\ p.more \/ Above(a) < p.next
  <2>1. Above(a) + 1 \in 1..Len(all) /\ Id(all[Above(a) + 1]) = Here(a)
    BY <1>1
  <2>. DEFINE k == Above(a) + 1
  <2>2. Above(a) = k - 1 /\ k \in 1..Len(all)
    <3>1. \E i \in 1..Len(all) : Above(a) = i - 1
      <4>1. all[k] \in Listed(view) /\ Above(all[k].article) = k - 1
        BY <1>1, <2>1
      <4>2. all[k].article = a
        BY <2>1 DEF Id, Here
      <4>. QED
        BY <2>1, <4>1, <4>2
    <3>. QED
      BY <2>1, <3>1
  <2>3. Id(all[k]) = Here(a)
    BY <2>1
  <2>. HIDE DEF k
  <2>4. p.more \/ k - 1 < p.next
    <3>1. p.next \in Nat /\ p.next >= last
      BY <1>2, <1>3, <1>4, <1>9
    <3>2. p.more \/ last = Len(all)
      BY <1>2, <1>3, <1>4
    <3>. QED
      BY <1>3, <2>2, <3>1, <3>2
  <2>5. CASE off < k /\ k <= last
    <3>1. k - off \in 1..Len(rows) /\ rows[k - off] = all[k]
      BY <1>3, <1>4, <1>6, <1>7, <2>2, <2>5
    <3>2. Here(a) \in Ids(rows)
      BY <1>6, <2>3, <3>1, Index
    <3>. QED
      BY <1>2, <2>2, <2>4, <3>2
  <2>6. CASE k <= off
    <3>1. j.append /\ off = next
      BY <1>3, <2>2, <2>6 DEF off
    <3>2. k - 1 < next
      BY <1>3, <2>2, <2>6, <3>1
    <3>. QED
      BY <1>2, <2>2, <2>4, <3>1, <3>2
  <2>7. CASE off < k /\ ~(k <= last)
    <3>1. ~(k - 1 < p.next)
      BY <1>2, <1>3, <1>4, <1>5, <1>9, <2>2, <2>7
    <3>. QED
      BY <2>2, <2>4, <3>1
  <2>. QED
    BY <1>3, <2>2, <2>5, <2>6, <2>7
<1>. QED
  BY <1>8, <1>10 DEF PageHolds

-----------------------------------------------------------------------------
(* The user's changes, in the list and at the server                         *)

\* A flag the user changed is the one the server's tables will have.
LEMMA Optimistic ==
  ASSUME TablesTyped, view \in Views, NEW r \in Row, r.article \in Of(view.node),
         r.copy = (view.node = Queue), Shows(view.node, articles, queued, r),
         NEW op \in {"read", "unread", "queue", "unqueue"},
         NEW s \in Row, s.article = r.article,
         op = "read" => s.read /\ s.queued = r.queued,
         op = "unread" => ~s.read /\ s.queued = r.queued,
         op = "queue" => s.read = r.read /\ ~r.queued /\ s.queued,
         op = "unqueue" => s.read = r.read /\ ~s.queued /\ view.node # Queue
  PROVE  LET w == WriteFor(op, r) IN Shows(view.node, ArticlesAfter(w), QueuedAfter(w), s)
<1>. DEFINE w == WriteFor(op, r)
            a == r.article
<1>1. w \in Writing /\ w.op = op
  BY WriteForIs
<1>2. w.article = a /\ w.copy = r.copy /\ w.node = NodeFor(r)
  BY DEF WriteFor, WriteJob
<1>3. (w.node = Queue) = (view.node = Queue)
  <2>1. FeedOf(a) # Queue
    BY FeedsAre DEF Row
  <2>. QED
    BY <1>2, <2>1 DEF NodeFor
<1>4. AfterIs(w, a)
  BY <1>1, AfterAt
<1>5. r.read \in BOOLEAN /\ r.queued \in BOOLEAN /\ s.read \in BOOLEAN /\ s.queued \in BOOLEAN
  BY DEF Row
<1>. HIDE DEF w
<1>6. CASE view.node = Queue
  <2>1. /\ w.node = Queue /\ w.copy = TRUE /\ (a \in Found(w) <=> a \in DOMAIN queued)
        /\ a \in DOMAIN queued => r.read = queued[a] /\ r.queued
    BY <1>2, <1>3, <1>4, <1>6 DEF AfterIs, Shows
  <2>2. a \in DOMAIN QueuedAfter(w) => s.read = QueuedAfter(w)[a] /\ s.queued
    BY <1>1, <1>4, <1>5, <1>6, <2>1 DEF AfterIs
  <2>. QED
    BY <1>6, <2>2 DEF Shows, w
<1>7. CASE view.node # Queue
  <2>1. /\ w.node # Queue /\ w.copy = FALSE
        /\ a \in Found(w) <=> a \in DOMAIN articles \cup DOMAIN queued
        /\ a \in DOMAIN articles => r.read = articles[a] /\ (r.queued <=> a \in DOMAIN queued)
    BY <1>2, <1>3, <1>4, <1>7 DEF AfterIs, Shows
  <2>2. s.article \in DOMAIN ArticlesAfter(w) =>
          /\ s.read = ArticlesAfter(w)[s.article]
          /\ (s.queued <=> s.article \in DOMAIN QueuedAfter(w))
    BY <1>1, <1>4, <1>5, <1>7, <2>1 DEF AfterIs
  <2>3. Shows(view.node, ArticlesAfter(w), QueuedAfter(w), s)
    BY <1>7, <2>2 DEF Shows
  <2>. QED
    BY <2>3 DEF w
<1>. QED
  BY <1>6, <1>7

\* A change of a row that is not of the view on show finds nothing.
LEMMA Misplaced ==
  ASSUME view \in Views, NEW r \in Row, r.copy # (view.node = Queue),
         NEW op \in {"read", "unread", "queue", "unqueue"}
  PROVE  LET w == WriteFor(op, r) IN
         \A a : SameAt(a, articles, queued, ArticlesAfter(w), QueuedAfter(w))
<1>. DEFINE w == WriteFor(op, r)
<1>1. w \in Writing /\ w.op = op
  BY WriteForIs
<1>2. w.article = r.article /\ w.copy = r.copy /\ w.node = NodeFor(r)
  BY DEF WriteFor, WriteJob
<1>3. (w.node = Queue) = (view.node = Queue)
  <2>1. FeedOf(r.article) # Queue
    BY FeedsAre DEF Row
  <2>. QED
    BY <1>2, <2>1 DEF NodeFor
<1>. HIDE DEF w
<1>4. ASSUME NEW a PROVE SameAt(a, articles, queued, ArticlesAfter(w), QueuedAfter(w))
  <2>1. AfterIs(w, a) /\ a \notin Found(w)
    BY <1>1, <1>2, <1>3, AfterAt DEF AfterIs
  <2>2. w.op # "all"
    BY <1>1
  <2>. QED
    BY <2>1, <2>2 DEF AfterIs, SameAt
<1>. QED
  BY <1>4 DEF w

\* All of a node is marked: rows of the view have the flag, if the node is on
\* show, and else none of it is theirs.
LEMMA AllMarked ==
  ASSUME TablesTyped, view \in Views, NEW n \in Nodes, NEW r \in Row, r.article \in Of(view.node),
         Shows(view.node, articles, queued, r), NEW s \in Row, s.article = r.article,
         s.queued = r.queued, s.read = IF n = view.node THEN TRUE ELSE r.read,
         n = view.node \/ view.node = Queue \/ ~Overlap(n, view.node)
  PROVE  LET w == WriteJob("all", n, 0, FALSE) IN
         Shows(view.node, ArticlesAfter(w), QueuedAfter(w), s)
<1>. DEFINE w == WriteJob("all", n, 0, FALSE)
            a == r.article
<1>1. w \in Writing /\ w.op = "all" /\ w.node = n
  BY NewJobs DEF WriteJob
<1>2. AfterIs(w, a)
  BY <1>1, AfterAt
<1>3. r.read \in BOOLEAN /\ r.queued \in BOOLEAN /\ a \in Articles
  BY DEF Row
<1>. HIDE DEF w
<1>4. CASE view.node = Queue
  <2>1. a \in DOMAIN QueuedAfter(w) => s.read = QueuedAfter(w)[a] /\ s.queued
    BY <1>1, <1>2, <1>3, <1>4 DEF AfterIs, Shows
  <2>. QED
    BY <1>4, <2>1 DEF Shows, w
<1>5. CASE view.node # Queue
  <2>1. n # view.node => n # Queue /\ a \notin Of(n)
    BY <1>3, <1>5, FeedsAre DEF Overlap
  <2>2. s.article \in DOMAIN ArticlesAfter(w) =>
          /\ s.read = ArticlesAfter(w)[s.article]
          /\ (s.queued <=> s.article \in DOMAIN QueuedAfter(w))
    <3>1. /\ DOMAIN ArticlesAfter(w) = DOMAIN articles
          /\ a \in DOMAIN articles =>
               ArticlesAfter(w)[a] =
                 IF a \in (IF n = Queue THEN DOMAIN queued ELSE Of(n)) THEN TRUE ELSE articles[a]
          /\ a \in DOMAIN QueuedAfter(w) <=> a \in DOMAIN queued
      BY <1>1, <1>2 DEF AfterIs
    <3>2. a \in DOMAIN articles => r.read = articles[a] /\ (r.queued <=> a \in DOMAIN queued)
      BY <1>5 DEF Shows
    <3>3. s.queued <=> r.queued
      OBVIOUS
    <3>4. CASE n = view.node
      <4>1. s.read = TRUE /\ a \in Of(n) /\ n # Queue
        BY <1>5, <3>4
      <4>. QED
        BY <3>1, <3>2, <3>3, <4>1
    <3>5. CASE n # view.node
      <4>1. s.read = r.read /\ a \notin Of(n) /\ n # Queue
        BY <2>1, <3>5
      <4>. QED
        BY <3>1, <3>2, <3>3, <4>1
    <3>. QED
      BY <3>4, <3>5
  <2>3. Shows(view.node, ArticlesAfter(w), QueuedAfter(w), s)
    BY <1>5, <2>2 DEF Shows
  <2>. QED
    BY <2>3 DEF w
<1>. QED
  BY <1>4, <1>5

-----------------------------------------------------------------------------
(* Jobs that the list waits for                                              *)

LEMMA OnceAdded ==
  ASSUME NEW bag, IsABag(bag), NEW x
  PROVE  /\ \A e : e # x /\ Once(bag, e) => Once(BagAdd(bag, x), e)
         /\ x \notin BagToSet(bag) => Once(BagAdd(bag, x), x)
<1>. DEFINE b == BagAdd(bag, x)
<1>1. b = [e \in DOMAIN bag \cup {x} |-> (IF e \in DOMAIN bag THEN bag[e] ELSE 0)
                                         + (IF e \in {x} THEN 1 ELSE 0)]
  BY DEF BagAdd, (+), SetToBag
<1>. HIDE DEF b
<1>2. DOMAIN b = DOMAIN bag \cup {x}
  BY <1>1
<1>3. \A e \in DOMAIN bag : bag[e] \in Nat
  BY DEF IsABag
<1>4. \A e \in DOMAIN bag : e # x => b[e] = bag[e]
  BY <1>1, <1>3
<1>5. x \notin DOMAIN bag => b[x] = 1
  BY <1>1
<1>. QED
  BY <1>2, <1>4, <1>5 DEF Once, BagToSet, b

LEMMA OnceTaken ==
  ASSUME NEW bag, IsABag(bag), NEW x
  PROVE  /\ \A e : e # x /\ Once(bag, e) => Once(BagRemove(bag, x), e)
         /\ Once(bag, x) => BagToSet(BagRemove(bag, x)) = BagToSet(bag) \ {x}
<1>. DEFINE less == [e \in DOMAIN bag |-> IF e \in {x} THEN bag[e] - 1 ELSE bag[e]]
            b    == BagRemove(bag, x)
<1>1. b = [e \in {d \in DOMAIN less : less[d] > 0} |-> less[e]]
  <2>1. less = [e \in DOMAIN bag |-> IF e \in DOMAIN SetToBag({x})
                                       THEN bag[e] - SetToBag({x})[e] ELSE bag[e]]
    BY DEF SetToBag
  <2>. QED
    BY <2>1 DEF BagRemove, (-)
<1>2. \A e \in DOMAIN bag : bag[e] \in Nat /\ bag[e] > 0
  BY DEF IsABag
<1>3. /\ DOMAIN less = DOMAIN bag
      /\ \A e \in DOMAIN bag : e # x => less[e] = bag[e]
      /\ x \in DOMAIN bag => less[x] = bag[x] - 1
  OBVIOUS
<1>. HIDE DEF b, less
<1>4. /\ DOMAIN b = {d \in DOMAIN less : less[d] > 0}
      /\ \A e \in DOMAIN b : b[e] = less[e]
  BY <1>1
<1>5. \A e : e # x /\ Once(bag, e) => Once(b, e)
  BY <1>2, <1>3, <1>4 DEF Once, BagToSet
<1>6. ASSUME Once(bag, x) PROVE DOMAIN b = DOMAIN bag \ {x}
  <2>1. x \in DOMAIN bag /\ less[x] = 0
    BY <1>3, <1>6 DEF Once, BagToSet
  <2>. QED
    BY <1>2, <1>3, <1>4, <2>1
<1>. QED
  BY <1>5, <1>6 DEF BagToSet, b

Tracked(e) == e.job = "page" \/ IsOpen(e)

SameTracked(b, c) ==
  \A e : Tracked(e) => /\ e \in BagToSet(b) <=> e \in BagToSet(c)
                       /\ Once(b, e) => Once(c, e)

LEMMA TrackedAdded ==
  ASSUME NEW bag, IsABag(bag), NEW x, ~Tracked(x)
  PROVE  SameTracked(bag, BagAdd(bag, x))
BY Added, OnceAdded DEF SameTracked

LEMMA TrackedTaken ==
  ASSUME NEW bag, IsABag(bag), NEW x, ~Tracked(x)
  PROVE  SameTracked(bag, BagRemove(bag, x))
BY Taken, OnceTaken DEF SameTracked

LEMMA TrackedReplaced ==
  ASSUME NEW bag, IsABag(bag), NEW x, ~Tracked(x), NEW y, ~Tracked(y)
  PROVE  SameTracked(bag, BagAdd(BagRemove(bag, x), y))
<1>1. IsABag(BagRemove(bag, x)) /\ SameTracked(bag, BagRemove(bag, x))
  BY Taken, TrackedTaken
<1>2. SameTracked(BagRemove(bag, x), BagAdd(BagRemove(bag, x), y))
  BY <1>1, TrackedAdded
<1>. QED
  BY <1>1, <1>2 DEF SameTracked

LEMMA PagesSame ==
  ASSUME OnePage, Offsets, SameTracked(jobs, jobs'), loading' = loading, next' = next
  PROVE  OnePage' /\ Offsets'
<1>1. \A p : p.job = "page" => /\ p \in Jobs' <=> p \in Jobs
                               /\ Once(jobs, p) => Once(jobs', p)
  BY DEF SameTracked, Tracked, Jobs
<1>2. OnePage'
  BY <1>1 DEF OnePage
<1>3. Offsets'
  BY <1>1 DEF Offsets
<1>. QED
  BY <1>2, <1>3

\* The one page, when something becomes of it
LEMMA PageReplaced ==
  ASSUME IsABag(jobs), OnePage, NEW j \in Jobs, j.job = "page", NEW k, k.job = "page",
         k.state # "asked", jobs' = BagAdd(BagRemove(jobs, j), k), loading' = loading
  PROVE  OnePage' /\ Offsets'
<1>1. Once(jobs, j) /\ loading /\ \A p \in Jobs : p.job = "page" => p = j
  BY DEF OnePage
<1>2. IsABag(BagRemove(jobs, j)) /\ BagToSet(BagRemove(jobs, j)) = Jobs \ {j}
  BY <1>1, Taken, OnceTaken DEF Jobs
<1>3. \A p \in BagToSet(BagRemove(jobs, j)) : p.job # "page"
  BY <1>1, <1>2
<1>4. k \notin BagToSet(BagRemove(jobs, j))
  BY <1>3
<1>5. Once(jobs', k) /\ BagToSet(jobs') = BagToSet(BagRemove(jobs, j)) \cup {k}
  BY <1>2, <1>4, Added, OnceAdded
<1>6. \A p \in Jobs' : p.job = "page" => p = k
  BY <1>3, <1>5 DEF Jobs
<1>7. OnePage'
  BY <1>1, <1>5, <1>6 DEF OnePage
<1>8. Offsets'
  BY <1>6 DEF Offsets
<1>. QED
  BY <1>7, <1>8

LEMMA PendingNow ==
  ASSUME UNCHANGED view
  PROVE  /\ \A j \in BagToSet(jobs') : Unsettled(j) => Pending'
         /\ \A m \in BagToSet(notes') : Tells(m) => Pending'
BY DEF Pending, Unsettled, Tells, Concerns, Jobs

LEMMA PendingStays ==
  ASSUME UNCHANGED view, Pending,
         \A j \in Jobs : Unsettled(j) => j \in BagToSet(jobs'),
         \A m \in BagToSet(notes) : Tells(m) => m \in BagToSet(notes')
  PROVE  Pending'
BY PendingNow DEF Pending

\* A page is asked for that replaces the list.
LEMMA NewPage ==
  ASSUME NEW rest, IsABag(rest), \A p \in BagToSet(rest) : p.job # "page", NEW v,
         jobs' = BagAdd(rest, PageJob(v, FALSE, 0)), loading' = TRUE,
         v = view' \/ Pending'
  PROVE  Accounted'
<1>. DEFINE p == PageJob(v, FALSE, 0)
<1>1. /\ p.job = "page" /\ p.state = "asked" /\ p.append = FALSE /\ p.offset = 0 /\ p.view = v
  BY DEF PageJob
<1>. HIDE DEF p
<1>2. p \notin BagToSet(rest)
  BY <1>1
<1>3. Once(jobs', p) /\ BagToSet(jobs') = BagToSet(rest) \cup {p}
  BY <1>2, Added, OnceAdded DEF p
<1>4. p \in Jobs' /\ \A q \in Jobs' : q.job = "page" => q = p
  BY <1>3 DEF Jobs
<1>5. OnePage'
  BY <1>1, <1>3, <1>4 DEF OnePage
<1>6. Offsets'
  BY <1>1, <1>4 DEF Offsets
<1>7. PagesHold'
  BY <1>1, <1>4 DEF PagesHold, Fresh
<1>8. Renewing' \/ Pending'
  BY <1>1, <1>4 DEF Renewing
<1>. QED
  BY <1>5, <1>6, <1>7, <1>8 DEF Accounted

-----------------------------------------------------------------------------
(* The list, when what it shows does not change                              *)

LEMMA HasSame ==
  ASSUME UNCHANGED view, \A a \in Of(view.node) : SameAt(a, articles, queued, articles', queued')
  PROVE  Has' = Has /\ \A a : Above(a)' = Above(a) /\ Here(a)' = Here(a)
<1>1. \A a \in Of(view.node) : /\ a \in DOMAIN Table <=> a \in DOMAIN Table'
                               /\ a \in DOMAIN Table => Table'[a] = Table[a]
  BY DEF SameAt, Table
<1>. HIDE DEF Table
<1>2. Has' = Has
  BY <1>1 DEF Has
<1>. QED
  BY <1>2 DEF Above, Here

LEMMA TablesSame ==
  ASSUME UNCHANGED tables
  PROVE  \A a : SameAt(a, articles, queued, articles', queued')
BY DEF tables, SameAt

\* The rows a page has been loaded for are of the view on show.
LEMMA CachedRows ==
  ASSUME CacheTyped, ListTyped, NEW i \in DOMAIN list, Id(list[i]) \in Ids(CachedWith(<<>>))
  PROVE  /\ list[i] \in Row /\ list[i].article \in Of(view.node)
         /\ list[i].copy = (view.node = Queue)
<1>1. list[i] \in Row
  BY DEF ListTyped
<1>2. <<>> \in Seq(Row) /\ OfView(view, <<>>)
  BY DEF OfView
<1>3. CachedWith(<<>>) \in Seq(Row) /\ OfView(view, CachedWith(<<>>))
  BY <1>2, CachedIs DEF ListTyped
<1>4. PICK k \in 1..Len(CachedWith(<<>>)) : Id(list[i]) = Id(CachedWith(<<>>)[k])
  BY <1>3, Index
<1>5. list[i].article = CachedWith(<<>>)[k].article /\ list[i].copy = CachedWith(<<>>)[k].copy
  BY <1>4 DEF Id
<1>6. k \in DOMAIN CachedWith(<<>>)
  BY <1>3, <1>4
<1>. QED
  BY <1>1, <1>3, <1>5, <1>6 DEF OfView

LEMMA OpenTyped ==
  ASSUME JobsTyped(jobs), NEW w \in Open
  PROVE  w \in Writing
BY JobKinds DEF JobsTyped, Jobs, Open, IsOpen

LEMMA ForeseenSame ==
  ASSUME JobsTyped(jobs), UNCHANGED view, Open' = Open, NEW r,
         SameAt(r.article, articles, queued, articles', queued'), Foreseen(r)
  PROVE  Foreseen(r)'
<1>1. ASSUME NEW w \in Open, Touches(w, r.article)
      PROVE  Shows(view.node, ArticlesAfter(w), QueuedAfter(w), r)'
  <2>1. Shows(view.node, ArticlesAfter(w), QueuedAfter(w), r)
    BY <1>1 DEF Foreseen
  <2>2. SameAt(r.article, ArticlesAfter(w), QueuedAfter(w), ArticlesAfter(w)', QueuedAfter(w)')
    BY OpenTyped, Commutes
  <2>3. Shows(view.node, ArticlesAfter(w)', QueuedAfter(w)', r)
    BY <2>1, <2>2, ShowsSame
  <2>. QED
    BY <2>3
<1>2. ASSUME \A w \in Open : ~Touches(w, r.article)
      PROVE  Shows(view.node, articles, queued, r)'
  <2>1. Shows(view.node, articles, queued, r)
    BY <1>2 DEF Foreseen
  <2>2. Shows(view.node, articles', queued', r)
    BY <2>1, ShowsSame
  <2>. QED
    BY <2>2
<1>. QED
  BY <1>1, <1>2 DEF Foreseen

\* The list stays true while nothing happens to its view.
LEMMA ListTrueSame ==
  ASSUME TypedNow, ListTrue, UNCHANGED <<view, list, cache>>, next' = next, more' = more,
         lapses'.writes = lapses.writes, lapses'.based = lapses.based, Open' = Open,
         \A w \in Open : Once(jobs, w) => Once(jobs', w),
         \A a \in Of(view.node) : SameAt(a, articles, queued, articles', queued')
  PROVE  ListTrue'
<1>1. Separate'
  BY DEF ListTrue, Separate
<1>2. Has' = Has /\ (\A a : Above(a)' = Above(a) /\ Here(a)' = Here(a)) /\ Steady' = Steady
  BY HasSame DEF Steady
<1>3. CachedWith(<<>>)' = CachedWith(<<>>)
  BY DEF CachedWith
<1>4. \A w \in Open' : InPlace(w)'
  BY DEF ListTrue, InPlace
<1>5. lapses'.based = lapses'.writes => Open' = {}
  BY DEF ListTrue
<1>6. ASSUME NEW i \in DOMAIN list, Id(list[i]) \in Ids(CachedWith(<<>>)),
             NEW r, r = list[i]
      PROVE  Foreseen(r)'
  <2>1. Foreseen(r)
    BY <1>6 DEF ListTrue
  <2>2. r.article \in Of(view.node)
    BY <1>6, CachedRows DEF TypedNow
  <2>. QED
    BY <2>1, <2>2, ForeseenSame DEF TypedNow
<1>7. \A i \in DOMAIN list' : Id(list'[i]) \in Ids(CachedWith(<<>>)') => Foreseen(list[i])'
  BY <1>3, <1>6
<1>8. more' \/ \A a \in Has' : Here(a)' \in Ids(list')
  BY <1>2 DEF ListTrue
<1>9. Steady' => \A a \in Has' : Above(a)' < next' => Here(a)' \in Ids(list')
  BY <1>2 DEF ListTrue
<1>. QED
  BY <1>1, <1>4, <1>5, <1>7, <1>8, <1>9 DEF ListTrue

\* Whatever leaves the list, the requests of the user's and the view's articles
\* as they are
LEMMA NothingNew ==
  ASSUME TypedNow, Accounted, SameTracked(jobs, jobs'), UNCHANGED <<view, list, cache, pager>>,
         lapses'.writes = lapses.writes, lapses'.based = lapses.based,
         \A a \in Of(view.node) : SameAt(a, articles, queued, articles', queued'),
         Pending => Pending'
  PROVE  Accounted'
<1>1. OnePage' /\ Offsets'
  BY PagesSame DEF Accounted, pager
<1>2. Has' = Has /\ \A a : Above(a)' = Above(a) /\ Here(a)' = Here(a)
  BY HasSame
<1>3. /\ \A p : p.job = "page" => (p \in Jobs' <=> p \in Jobs)
      /\ \A w : IsOpen(w) => (w \in Jobs' <=> w \in Jobs) /\ (Once(jobs, w) => Once(jobs', w))
  BY DEF SameTracked, Tracked, Jobs
<1>4. Open' = Open /\ Steady' = Steady
  BY <1>3 DEF Open, Steady, IsOpen
<1>5. next' = next /\ more' = more /\ CachedWith(<<>>)' = CachedWith(<<>>)
  BY DEF pager, CachedWith
<1>6. ASSUME PagesHold PROVE PagesHold'
  <2>1. SUFFICES ASSUME NEW p \in Jobs', Fresh(p)' PROVE PageHolds(p)'
    BY DEF PagesHold
  <2>2. p \in Jobs /\ Fresh(p)
    BY <1>3, <2>1 DEF Fresh
  <2>3. PageHolds(p)
    BY <1>6, <2>2 DEF PagesHold
  <2>4. OfView(view, p.rows)
    BY <2>2, JobKinds DEF TypedNow, JobsTyped, Jobs, Fresh
  <2>5. ASSUME NEW i \in DOMAIN p.rows PROVE Shows(view.node, articles, queued, p.rows[i])'
    <3>1. Shows(view.node, articles, queued, p.rows[i])
      BY <2>3 DEF PageHolds
    <3>2. SameAt(p.rows[i].article, articles, queued, articles', queued')
      BY <2>4 DEF OfView
    <3>3. Shows(view.node, articles', queued', p.rows[i])
      BY <3>1, <3>2, ShowsSame
    <3>. QED
      BY <3>3
  <2>. QED
    BY <1>2, <1>4, <1>5, <2>3, <2>5 DEF PageHolds
<1>7. ASSUME Renewing PROVE Renewing'
  BY <1>3, <1>7 DEF Renewing
<1>8. ASSUME ListTrue PROVE ListTrue'
  <2>1. \A w \in Open : Once(jobs, w) => Once(jobs', w)
    BY <1>3 DEF Open
  <2>. QED
    BY <1>4, <1>5, <1>8, <2>1, ListTrueSame
<1>. QED
  BY <1>1, <1>6, <1>7, <1>8 DEF Accounted

-----------------------------------------------------------------------------
(* A page is used                                                            *)

LEMMA PageUsed ==
  ASSUME TypedNow, WritesKnown, Accounted, ~broken', NEW j \in Jobs, UsePage(j), ~lapses'.missed
  PROVE  Accounted'
<1>1. /\ j.job = "page" /\ j.state = "done" /\ jobs' = BagRemove(jobs, j)
      /\ UNCHANGED <<tables, notes, view>>
  BY DEF UsePage
<1>2. j \in PageDone /\ OfView(j.view, j.rows)
  BY <1>1, JobKinds DEF TypedNow, JobsTyped, Jobs
<1>3. IsForView(j)
  BY DEF UsePage, TypedNow, LapsesType
<1>4. /\ Merge(j.rows, ~j.append)
      /\ cache' = Cached(view, [rows |-> CacheAfter(j), next |-> j.next, more |-> j.more])
      /\ next' = j.next /\ more' = j.more
      /\ ~Overtook(j)
      /\ lapses'.writes = lapses.writes
      /\ lapses'.based = IF j.append THEN lapses.based ELSE lapses.writes
  BY <1>3 DEF UsePage, TypedNow, LapsesType
<1>5. j.view = view /\ j.rows \in Seq(Row) /\ j.append \in BOOLEAN /\ j.more \in BOOLEAN /\ j.next \in Nat
  BY <1>2, <1>3 DEF IsForView, PageDone
<1>6. /\ Ids(j.rows) \subseteq Ids(list') /\ (~j.append \/ Ids(list) \subseteq Ids(list'))
      /\ \A i \in DOMAIN list' :
           \/ list'[i] \in Members(j.rows)
           \/ list'[i] \in Members(list) /\ Id(list'[i]) \notin Ids(j.rows)
  <2>1. (~j.append) \in BOOLEAN
    OBVIOUS
  <2>2. /\ Ids(j.rows) \subseteq Ids(list') /\ ((~j.append) \/ Ids(list) \subseteq Ids(list'))
        /\ \A i \in DOMAIN list' :
             \/ list'[i] \in Members(j.rows)
             \/ list'[i] \in Members(list) /\ Id(list'[i]) \notin Ids(j.rows)
    BY <1>4, <1>5, <2>1, MergedRows DEF TypedNow
  <2>. QED
    BY <2>2
<1>7. j.writes = lapses.writes /\ (j.append => Steady)
  BY <1>4 DEF Overtook, Steady
<1>8. Open = {} /\ Fresh(j)
  BY <1>1, <1>5, <1>7 DEF WritesKnown, Fresh
<1>9. /\ Once(jobs, j) /\ \A p \in Jobs : p.job = "page" => p = j
  BY <1>1 DEF Accounted, OnePage
<1>10. Jobs' = Jobs \ {j}
  BY <1>1, <1>9, OnceTaken DEF Jobs, TypedNow
<1>11. \A p \in Jobs' : p.job # "page"
  BY <1>9, <1>10
<1>12. OnePage' /\ Offsets' /\ PagesHold'
  BY <1>11 DEF OnePage, Offsets, PagesHold, Fresh
<1>13. CASE Pending
  <2>1. ~Unsettled(j)
    BY <1>1, <1>5 DEF Unsettled
  <2>2. Pending'
    BY <1>1, <1>10, <1>13, <2>1, PendingStays DEF Jobs
  <2>. QED
    BY <1>12, <2>2 DEF Accounted
<1>14. CASE ~Pending
  <2>1. PageHolds(j)
    BY <1>8, <1>14 DEF Accounted, PagesHold
  <2>2. j.append => ListTrue
    BY <1>9, <1>14 DEF Accounted, Renewing
  <2>3. Open' = {}
    BY <1>8, <1>10 DEF Open
  <2>4. Has' = Has /\ \A a : Above(a)' = Above(a) /\ Here(a)' = Here(a)
    BY <1>1, TablesSame, HasSame
  <2>5. Separate' /\ (\A w \in Open' : InPlace(w)')
    BY <2>3 DEF Separate
  <2>6. ASSUME NEW i \in DOMAIN list', Id(list'[i]) \in Ids(CachedWith(<<>>)'),
               NEW r, r = list'[i]
        PROVE  Foreseen(r)'
    <3>1. Shows(view.node, articles, queued, r)
      <4>1. CASE r \in Members(j.rows)
        BY <2>1, <4>1 DEF PageHolds, Members
      <4>2. CASE r \in Members(list) /\ Id(r) \notin Ids(j.rows)
        <5>1. CachedWith(<<>>)' = CacheAfter(j) \o <<>>
          BY <1>1, <1>4 DEF CachedWith, Cached
        <5>2. CachedWith(<<>>) \in Seq(Row)
          <6>1. <<>> \in Seq(Row) /\ OfView(view, <<>>)
            BY DEF OfView
          <6>. QED
            BY <6>1, CachedIs DEF TypedNow
        <5>3. j.append /\ Id(r) \in Ids(CachedWith(<<>>))
          <6>1. CASE ~j.append
            <7>1. CachedWith(<<>>)' = j.rows
              BY <1>5, <5>1, <6>1 DEF CacheAfter
            <7>. QED
              BY <2>6, <4>2, <7>1
          <6>2. CASE j.append
            <7>1. CachedWith(<<>>)' = CachedWith(<<>>) \o j.rows
              <8>1. CachedWith(j.rows) = CachedWith(<<>>) \o j.rows
                <9>1. CASE view \in DOMAIN cache
                  <10>1. cache[view].rows \in Seq(Row)
                    BY <9>1 DEF TypedNow, CacheTyped, Stored
                  <10>2. cache[view].rows \o <<>> = cache[view].rows
                    BY <10>1
                  <10>. QED
                    BY <9>1, <10>2 DEF CachedWith
                <9>2. CASE view \notin DOMAIN cache
                  <10>1. <<>> \o j.rows = j.rows
                    BY <1>5
                  <10>. QED
                    BY <9>2, <10>1 DEF CachedWith
                <9>. QED
                  BY <9>1, <9>2
              <8>. QED
                BY <1>5, <5>1, <5>2, <6>2, <8>1 DEF CacheAfter
            <7>. DEFINE u == CachedWith(<<>>)
            <7>. HIDE DEF u
            <7>2. u \in Seq(Row) /\ Id(r) \in Ids(u \o j.rows)
              BY <2>6, <5>2, <7>1 DEF u
            <7>3. Id(r) \in Ids(u) \/ Id(r) \in Ids(j.rows)
              <8>1. /\ u \o j.rows \in Seq(Row) /\ Len(u \o j.rows) = Len(u) + Len(j.rows)
                    /\ \A k \in 1..Len(u) + Len(j.rows) :
                         (u \o j.rows)[k] = IF k <= Len(u) THEN u[k] ELSE j.rows[k - Len(u)]
                BY <1>5, <7>2, ConcatProperties
              <8>2. PICK k \in 1..Len(u \o j.rows) : Id(r) = Id((u \o j.rows)[k])
                BY <7>2, <8>1, Index
              <8>3. Len(u) \in Nat /\ Len(j.rows) \in Nat
                BY <1>5, <7>2
              <8>4. CASE k <= Len(u)
                <9>1. k \in 1..Len(u) /\ Id(r) = Id(u[k])
                  BY <8>1, <8>2, <8>3, <8>4
                <9>. QED
                  BY <7>2, <9>1, Index
              <8>5. CASE ~(k <= Len(u))
                <9>1. k - Len(u) \in 1..Len(j.rows) /\ Id(r) = Id(j.rows[k - Len(u)])
                  BY <8>1, <8>2, <8>3, <8>5
                <9>. QED
                  BY <1>5, <9>1, Index
              <8>. QED
                BY <8>4, <8>5
            <7>. QED
              BY <4>2, <6>2, <7>3 DEF u
          <6>. QED
            BY <6>1, <6>2
        <5>4. PICK k \in DOMAIN list : r = list[k]
          BY <4>2 DEF Members
        <5>5. Foreseen(list[k])
          BY <2>2, <5>3, <5>4 DEF ListTrue
        <5>. QED
          BY <1>8, <5>4, <5>5 DEF Foreseen
      <4>. QED
        BY <1>6, <2>6, <4>1, <4>2
    <3>2. Shows(view.node, articles, queued, r)'
      BY <1>1, <3>1 DEF tables, Shows
    <3>. QED
      BY <2>3, <3>2 DEF Foreseen
  <2>7. Steady'
    BY <1>1, <1>4, <1>7 DEF Steady
  <2>8. \A a \in Has : Here(a) \in Ids(j.rows) => Here(a) \in Ids(list')
    BY <1>6
  <2>9. \A a \in Has : /\ Above(a) < j.next => Here(a) \in Ids(list')
                       /\ j.more \/ Above(a) < j.next
    <3>1. TAKE a \in Has
    <3>2. /\ Above(a) < j.next => Here(a) \in Ids(j.rows) \/ (j.append /\ Above(a) < next)
          /\ j.more \/ Above(a) < j.next
      BY <1>7, <2>1, <3>1 DEF PageHolds
    <3>3. j.append /\ Above(a) < next => Here(a) \in Ids(list')
      BY <1>6, <1>7, <2>2, <3>1 DEF ListTrue
    <3>. QED
      BY <2>8, <3>2, <3>3
  <2>10. more' \/ \A a \in Has' : Here(a)' \in Ids(list')
    BY <1>4, <2>4, <2>9
  <2>11. \A a \in Has' : Above(a)' < next' => Here(a)' \in Ids(list')
    BY <1>4, <2>4, <2>9
  <2>12. \A i \in DOMAIN list' : Id(list'[i]) \in Ids(CachedWith(<<>>)') => Foreseen(list[i])'
    BY <2>6
  <2>13. ListTrue'
    BY <2>3, <2>5, <2>10, <2>11, <2>12 DEF ListTrue
  <2>. QED
    BY <1>12, <2>13 DEF Accounted
<1>. QED
  BY <1>13, <1>14

-----------------------------------------------------------------------------
(* The user changes an article                                               *)

\* A change is asked for that crosses no other, and the flag is changed here.
LEMMA WriteAsked ==
  ASSUME TypedNow, WritesKnown, Accounted, NEW w \in Writing, IsOpen(w), jobs' = BagAdd(jobs, w),
         UNCHANGED <<tables, notes, view, cache, pager>>,
         lapses'.writes = lapses.writes + 1, lapses'.based = lapses.based,
         ~Crossing(w), InPlace(w), list' \in Seq(Row), Order(list') = Order(list),
         \A i \in DOMAIN list : Id(list[i]) \in Ids(CachedWith(<<>>)) =>
           IF Touches(w, list[i].article)
             THEN Shows(view.node, articles, queued, list[i]) =>
                    Shows(view.node, ArticlesAfter(w), QueuedAfter(w), list'[i])
             ELSE list'[i] = list[i]
  PROVE  Accounted'
<1>1. /\ \A k \in Open : ~Touches(k, w.article) /\ ~Touches(w, k.article)
      /\ w \notin Jobs
  BY DEF Crossing, Open, IsOpen, Touches
<1>2. Jobs' = Jobs \cup {w} /\ Once(jobs', w) /\ \A e : e # w /\ Once(jobs, e) => Once(jobs', e)
  BY <1>1, Added, OnceAdded DEF Jobs, TypedNow
<1>3. w.job = "write" /\ w.state = "asked" /\ Open' = Open \cup {w}
  BY <1>2 DEF IsOpen, Open
<1>4. \A p : p.job = "page" => (p \in Jobs' <=> p \in Jobs) /\ (Once(jobs, p) => Once(jobs', p))
  BY <1>2, <1>3
<1>5. OnePage' /\ Offsets'
  BY <1>4 DEF Accounted, OnePage, Offsets, pager
<1>6. Pending => Pending'
  BY <1>2, PendingStays DEF Jobs
<1>7. lapses.writes \in Nat /\ lapses.based \in Nat /\ lapses.based <= lapses.writes
  BY DEF TypedNow, LapsesType, WritesKnown
<1>8. PagesHold'
  <2>1. SUFFICES ASSUME NEW p \in Jobs', Fresh(p)' PROVE FALSE
    BY DEF PagesHold
  <2>2. p \in Jobs /\ p.job = "page" /\ p.state = "done" /\ p.writes = lapses.writes + 1
    BY <1>4, <2>1 DEF Fresh
  <2>3. p.writes <= lapses.writes
    BY <2>2 DEF WritesKnown
  <2>. QED
    BY <1>7, <2>2, <2>3
<1>9. Renewing => Renewing'
  BY <1>4 DEF Renewing
<1>10. ASSUME ListTrue PROVE ListTrue'
  <2>1. Separate'
    BY <1>1, <1>2, <1>3, <1>10 DEF ListTrue, Separate
  <2>2. /\ Ids(list') = Ids(list) /\ DOMAIN list' = DOMAIN list
        /\ \A i \in DOMAIN list : Id(list'[i]) = Id(list[i])
    BY OrderTells DEF TypedNow, Order
  <2>3. \A k \in Open' : InPlace(k)'
    <3>1. \A k \in Open' : InPlace(k)
      BY <1>3, <1>10 DEF ListTrue
    <3>. QED
      BY <2>2, <3>1 DEF InPlace
  <2>4. lapses'.based # lapses'.writes
    BY <1>7
  <2>5. CachedWith(<<>>)' = CachedWith(<<>>)
    BY DEF CachedWith
  <2>6. ASSUME NEW i \in DOMAIN list', Id(list'[i]) \in Ids(CachedWith(<<>>)'),
               NEW r, r = list'[i]
        PROVE  Foreseen(r)'
    <3>1. i \in DOMAIN list /\ Id(list[i]) \in Ids(CachedWith(<<>>))
      BY <2>2, <2>5, <2>6
    <3>2. Foreseen(list[i])
      BY <1>10, <3>1 DEF ListTrue
    <3>3. r.article = list[i].article
      BY <2>2, <2>6, <3>1 DEF Id
    <3>4. ASSUME NEW k \in Open', Touches(k, r.article)
          PROVE  Shows(view.node, ArticlesAfter(k), QueuedAfter(k), r)
      <4>1. CASE k = w
        <5>1. \A e \in Open : ~Touches(e, r.article)
          <6>1. TAKE e \in Open
          <6>2. CASE w.op = "all"
            BY <1>1, <6>2 DEF Touches
          <6>3. CASE w.op # "all"
            <7>1. w.article = r.article
              BY <3>4, <4>1, <6>3 DEF Touches
            <7>. QED
              BY <1>1, <7>1
          <6>. QED
            BY <6>2, <6>3
        <5>2. Shows(view.node, articles, queued, list[i])
          BY <3>2, <3>3, <5>1 DEF Foreseen
        <5>. QED
          BY <2>6, <3>1, <3>3, <3>4, <4>1, <5>2
      <4>2. CASE k # w
        <5>1. k \in Open
          BY <1>3, <4>2
        <5>2. ~Touches(w, r.article)
          <6>1. CASE k.op = "all"
            BY <1>1, <5>1, <6>1 DEF Touches
          <6>2. CASE k.op # "all"
            <7>1. k.article = r.article
              BY <3>4, <6>2 DEF Touches
            <7>. QED
              BY <1>1, <5>1, <7>1
          <6>. QED
            BY <6>1, <6>2
        <5>3. r = list[i]
          BY <2>6, <3>1, <3>3, <5>2
        <5>. QED
          BY <3>2, <3>4, <5>1, <5>3 DEF Foreseen
      <4>. QED
        BY <4>1, <4>2
    <3>5. ASSUME \A k \in Open' : ~Touches(k, r.article)
          PROVE  Shows(view.node, articles, queued, r)
      <4>1. ~Touches(w, r.article) /\ \A k \in Open : ~Touches(k, r.article)
        BY <1>3, <3>5
      <4>2. r = list[i]
        BY <2>6, <3>1, <3>3, <4>1
      <4>. QED
        BY <3>2, <4>1, <4>2 DEF Foreseen
    <3>6. \A k \in Open' : Touches(k, r.article) =>
            Shows(view.node, ArticlesAfter(k), QueuedAfter(k), r)'
      <4>1. TAKE k \in Open'
      <4>2. HAVE Touches(k, r.article)
      <4>3. k \in Writing
        BY <1>3, OpenTyped DEF TypedNow
      <4>4. SameAt(r.article, ArticlesAfter(k), QueuedAfter(k), ArticlesAfter(k)', QueuedAfter(k)')
        BY <4>3, TablesSame, Commutes
      <4>5. Shows(view.node, ArticlesAfter(k)', QueuedAfter(k)', r)
        BY <3>4, <4>2, <4>4, ShowsSame
      <4>. QED
        BY <4>5
    <3>7. (\A k \in Open' : ~Touches(k, r.article)) => Shows(view.node, articles, queued, r)'
      <4>1. HAVE \A k \in Open' : ~Touches(k, r.article)
      <4>2. Shows(view.node, articles, queued, r)
        BY <3>5, <4>1
      <4>3. Shows(view.node, articles', queued', r)
        BY <4>2, TablesSame, ShowsSame
      <4>. QED
        BY <4>3
    <3>. QED
      BY <3>6, <3>7 DEF Foreseen
  <2>7. Has' = Has /\ \A a : Above(a)' = Above(a) /\ Here(a)' = Here(a)
    BY TablesSame, HasSame
  <2>8. more' = more /\ next' = next
    BY DEF pager
  <2>9. more' \/ \A a \in Has' : Here(a)' \in Ids(list')
    BY <1>10, <2>2, <2>7, <2>8 DEF ListTrue
  <2>10. Steady' => Steady
    BY <2>4 DEF Steady
  <2>11. Steady' => \A a \in Has' : Above(a)' < next' => Here(a)' \in Ids(list')
    BY <1>10, <2>2, <2>7, <2>8, <2>10 DEF ListTrue
  <2>12. \A i \in DOMAIN list' : Id(list'[i]) \in Ids(CachedWith(<<>>)') => Foreseen(list[i])'
    BY <2>6
  <2>. QED
    BY <2>1, <2>3, <2>4, <2>9, <2>11, <2>12 DEF ListTrue
<1>. QED
  BY <1>5, <1>6, <1>8, <1>9, <1>10 DEF Accounted

\* What is known of a change when it is asked for.
LEMMA WroteTells ==
  ASSUME lapses \in LapsesType, NEW w
  PROVE  /\ Wrote(w).writes = lapses.writes + 1 /\ Wrote(w).based = lapses.based
         /\ Wrote(w).missed = (lapses.missed \/ Crossing(w))
BY DEF Wrote, LapsesType

\* A flag of a row is changed, and asked to be changed.
LEMMA FlagAsked ==
  ASSUME TypedNow, WritesKnown, Accounted, NEW i \in DOMAIN list,
         NEW op \in {"read", "unread", "queue", "unqueue"},
         jobs' = BagAdd(jobs, WriteFor(op, list[i])), lapses' = Wrote(WriteFor(op, list[i])),
         UNCHANGED <<tables, notes, view, cache, pager>>, ~lapses'.missed,
         list' \in Seq(Row), Order(list') = Order(list),
         \A k \in DOMAIN list : k # i => list'[k] = list[k],
         op = "read" => list'[i].read /\ list'[i].queued = list[i].queued,
         op = "unread" => ~list'[i].read /\ list'[i].queued = list[i].queued,
         op = "queue" => list'[i].read = list[i].read /\ ~list[i].queued /\ list'[i].queued,
         op = "unqueue" => list'[i].read = list[i].read /\ ~list'[i].queued /\ view.node # Queue
  PROVE  Accounted'
<1>. DEFINE r == list[i]
<1>1. r \in Row /\ view \in Views
  BY DEF TypedNow
<1>2. PICK w : w = WriteFor(op, r)
  OBVIOUS
<1>3. w \in Writing /\ IsOpen(w) /\ w.op = op
  BY <1>1, <1>2, WriteForIs DEF IsOpen
<1>4. w.article = r.article /\ w.copy = r.copy /\ w.node = NodeFor(r)
  BY <1>2 DEF WriteFor, WriteJob
<1>5. (w.node = Queue) = (view.node = Queue)
  <2>1. FeedOf(r.article) # Queue
    BY <1>1, FeedsAre DEF Row
  <2>. QED
    BY <1>4, <2>1 DEF NodeFor
<1>6. InPlace(w)
  <2>1. <<w.article, w.copy>> \in Ids(list)
    BY <1>4 DEF Ids, Id
  <2>. QED
    BY <1>5, <2>1 DEF InPlace
<1>7. /\ lapses'.writes = lapses.writes + 1 /\ lapses'.based = lapses.based
      /\ ~Crossing(w)
  BY <1>2, WroteTells DEF TypedNow
<1>8. /\ DOMAIN list' = DOMAIN list /\ DOMAIN list = 1..Len(list)
      /\ \A k \in DOMAIN list : list'[k] \in Row /\ Id(list'[k]) = Id(list[k])
  BY DEF Order, TypedNow
<1>9. ASSUME NEW k \in DOMAIN list, Id(list[k]) \in Ids(CachedWith(<<>>))
      PROVE  IF Touches(w, list[k].article)
               THEN Shows(view.node, articles, queued, list[k]) =>
                      Shows(view.node, ArticlesAfter(w), QueuedAfter(w), list'[k])
               ELSE list'[k] = list[k]
  <2>1. /\ list[k] \in Row /\ list[k].article \in Of(view.node)
        /\ list[k].copy = (view.node = Queue)
    BY <1>9, CachedRows DEF TypedNow
  <2>2. Touches(w, list[k].article) <=> list[k].article = r.article
    BY <1>3, <1>4 DEF Touches
  <2>3. CASE list[k].article # r.article
    <3>1. k # i
      BY <2>3
    <3>. QED
      BY <2>2, <2>3, <3>1
  <2>4. CASE list[k].article = r.article /\ r.copy = (view.node = Queue)
    <3>1. k = i
      <4>1. Id(list[k]) = Id(r)
        BY <2>1, <2>4 DEF Id
      <4>. QED
        BY <1>8, <4>1, Index DEF TypedNow, ListTyped
    <3>2. PICK s \in Row : s = list'[k]
      BY <1>8
    <3>3. s.article = r.article
      BY <1>8, <3>1, <3>2 DEF Id
    <3>4. Shows(view.node, articles, queued, r) =>
            Shows(view.node, ArticlesAfter(w), QueuedAfter(w), s)
      <4>1. /\ op = "read" => s.read /\ s.queued = r.queued
            /\ op = "unread" => ~s.read /\ s.queued = r.queued
            /\ op = "queue" => s.read = r.read /\ ~r.queued /\ s.queued
            /\ op = "unqueue" => s.read = r.read /\ ~s.queued /\ view.node # Queue
        BY <3>1, <3>2
      <4>. HIDE DEF r
      <4>. QED
        BY <1>1, <1>2, <2>1, <2>4, <3>1, <3>3, <4>1, Optimistic DEF TypedNow
    <3>. QED
      BY <2>2, <2>4, <3>1, <3>2, <3>4
  <2>5. CASE list[k].article = r.article /\ r.copy # (view.node = Queue)
    <3>1. list'[k] = list[k]
      BY <2>1, <2>5
    <3>2. SameAt(r.article, articles, queued, ArticlesAfter(w), QueuedAfter(w))
      <4>. HIDE DEF r
      <4>. QED
        BY <1>1, <1>2, <2>5, Misplaced
    <3>3. Shows(view.node, articles, queued, list[k]) =>
            Shows(view.node, ArticlesAfter(w), QueuedAfter(w), list[k])
      BY <2>5, <3>2, ShowsSame
    <3>. QED
      BY <2>2, <2>5, <3>1, <3>3
  <2>. QED
    BY <2>3, <2>4, <2>5
<1>. QED
  BY <1>2, <1>3, <1>6, <1>7, <1>9, WriteAsked

\* All of a node is marked.
LEMMA AllAsked ==
  ASSUME TypedNow, WritesKnown, ~lapses.missed => Accounted, NEW n \in left.nodes,
         MarkAllArticlesRead(n), ~lapses'.missed
  PROVE  Accounted'
<1>1. n \in Nodes /\ view \in Views
  BY SpendIs DEF TypedNow
<1>2. PICK w : w = WriteJob("all", n, 0, FALSE)
  OBVIOUS
<1>3. w \in Writing /\ IsOpen(w) /\ w.op = "all"
  BY <1>1, <1>2, NewJobs DEF WriteJob, IsOpen
<1>4. /\ jobs' = BagAdd(jobs, w) /\ UNCHANGED <<tables, notes, view, cache, pager>>
      /\ list' = IF n = view.node THEN AllRead(list) ELSE list
  BY <1>2 DEF MarkAllArticlesRead
<1>5. /\ lapses'.writes = lapses.writes + 1 /\ lapses'.based = lapses.based
      /\ ~Crossing(w) /\ ~lapses.missed
      /\ n = view.node \/ view.node = Queue \/ ~Overlap(n, view.node)
  <2>1. lapses' = [Wrote(w) EXCEPT
          !.missed = @ \/ (~(n = view.node) /\ view.node # Queue /\ Overlap(n, view.node))]
    BY <1>2 DEF MarkAllArticlesRead
  <2>2. Wrote(w) \in LapsesType
    BY WroteIs DEF TypedNow
  <2>3. /\ lapses'.writes = Wrote(w).writes /\ lapses'.based = Wrote(w).based
        /\ ~Wrote(w).missed
        /\ ~(~(n = view.node) /\ view.node # Queue /\ Overlap(n, view.node))
    BY <2>1, <2>2 DEF LapsesType
  <2>. QED
    BY <2>3, WroteTells DEF TypedNow
<1>6. list' \in Seq(Row) /\ Order(list') = Order(list)
  BY <1>4, AllReadIs DEF TypedNow
<1>7. InPlace(w)
  BY <1>3 DEF InPlace
<1>8. ASSUME NEW k \in DOMAIN list, Id(list[k]) \in Ids(CachedWith(<<>>)),
             Shows(view.node, articles, queued, list[k])
      PROVE  Shows(view.node, ArticlesAfter(w), QueuedAfter(w), list'[k])
  <2>1. list[k] \in Row /\ list[k].article \in Of(view.node)
    BY <1>8, CachedRows DEF TypedNow
  <2>2. PICK s : s = list'[k]
    OBVIOUS
  <2>3. s = IF n = view.node THEN [list[k] EXCEPT !.read = TRUE] ELSE list[k]
    BY <1>4, <2>2 DEF AllRead
  <2>4. /\ s \in Row /\ s.article = list[k].article /\ s.queued = list[k].queued
        /\ s.read = IF n = view.node THEN TRUE ELSE list[k].read
    BY <2>1, <2>3 DEF Row
  <2>5. Shows(view.node, ArticlesAfter(w), QueuedAfter(w), s)
    <3>. DEFINE r == list[k]
    <3>1. r \in Row /\ r.article \in Of(view.node) /\ Shows(view.node, articles, queued, r)
      BY <1>8, <2>1
    <3>2. /\ s \in Row /\ s.article = r.article /\ s.queued = r.queued
          /\ s.read = IF n = view.node THEN TRUE ELSE r.read
      BY <2>4
    <3>. HIDE DEF r
    <3>. QED
      BY <1>1, <1>2, <1>5, <3>1, <3>2, AllMarked DEF TypedNow
  <2>. QED
    BY <2>2, <2>5
<1>. QED
  BY <1>3, <1>4, <1>5, <1>6, <1>7, <1>8, WriteAsked DEF Touches

-----------------------------------------------------------------------------
(* The steps of the pane                                                     *)

\* The list is loaded: nothing that went before matters, unless the pane refuses.
LEMMA Loads ==
  ASSUME NEW rest, IsABag(rest), \A p \in BagToSet(rest) : p.job = "page" => p \in Jobs,
         NEW v, v = view', NEW history \in LapsesType,
         LoadPage(v, FALSE, rest, history), ~lapses'.missed
  PROVE  Accounted'
<1>1. lapses' = [history EXCEPT !.missed = loading \/ Paging]
  BY DEF LoadPage
<1>2. ~loading /\ ~Paging
  BY <1>1 DEF LapsesType
<1>3. jobs' = BagAdd(rest, PageJob(v, FALSE, 0)) /\ loading' = TRUE
  BY <1>2 DEF LoadPage
<1>4. \A p \in BagToSet(rest) : p.job # "page"
  BY <1>2 DEF Paging
<1>. QED
  BY <1>3, <1>4, NewPage

LEMMA MoreAsked ==
  ASSUME TypedNow, Accounted, LoadMoreArticles
  PROVE  Accounted'
<1>. DEFINE p == PageJob(view, TRUE, next)
<1>1. /\ ~loading /\ LoadPage(view, TRUE, jobs, lapses)
      /\ UNCHANGED <<tables, notes, view, list, cache>>
  BY DEF LoadMoreArticles, pane
<1>2. /\ jobs' = BagAdd(jobs, p) /\ loading' = TRUE /\ next' = next /\ more' = more
      /\ lapses' = lapses
  BY <1>1 DEF LoadPage, TypedNow, PagerTyped
<1>3. p.job = "page" /\ p.state = "asked" /\ p.append = TRUE /\ p.offset = next
  BY DEF PageJob
<1>. HIDE DEF p
<1>4. \A k \in Jobs : k.job # "page"
  BY <1>1 DEF Accounted, OnePage
<1>5. p \notin Jobs
  BY <1>3, <1>4
<1>6. Jobs' = Jobs \cup {p} /\ Once(jobs', p) /\ \A e : e # p /\ Once(jobs, e) => Once(jobs', e)
  BY <1>2, <1>5, Added, OnceAdded DEF Jobs, TypedNow
<1>7. \A k \in Jobs' : k.job = "page" => k = p
  BY <1>4, <1>6
<1>8. OnePage' /\ Offsets' /\ PagesHold'
  BY <1>2, <1>3, <1>6, <1>7 DEF OnePage, Offsets, PagesHold, Fresh
<1>9. Pending => Pending'
  BY <1>1, <1>6, PendingStays DEF Jobs
<1>10. ~Renewing
  BY <1>4 DEF Renewing
<1>11. Open' = Open
  BY <1>3, <1>6 DEF Open, IsOpen
<1>12. ASSUME ListTrue PROVE ListTrue'
  <2>1. \A w \in Open : Once(jobs, w) => Once(jobs', w)
    BY <1>3, <1>6 DEF Open, IsOpen
  <2>. QED
    BY <1>1, <1>2, <1>11, <1>12, <2>1, TablesSame, ListTrueSame
<1>. QED
  BY <1>8, <1>9, <1>10, <1>12 DEF Accounted

\* The list is sound as far as nothing was missed.
Sound == ~lapses.missed /\ ~broken => Accounted

\* The user acts.
LEMMA SoundByUser ==
  ASSUME Typed, WritesKnown, Sound, ~broken, UserActs
  PROVE  Sound'
<1>1. TypedNow
  BY TypedParts
<1>. SUFFICES ASSUME ~lapses'.missed PROVE Accounted'
  BY DEF Sound
<1>2. CASE \/ \E n \in left.nodes : SelectNode(n)
           \/ \E q \in DOMAIN Titles : SearchArticles(q)
           \/ ToggleShowingReadArticles
  <2>1. \E v : v = view' /\ LoadPage(v, FALSE, jobs, lapses)
    BY <1>2 DEF SelectNode, SearchArticles, ToggleShowingReadArticles
  <2>. QED
    BY <1>1, <2>1, Loads DEF TypedNow, Jobs
<1>3. CASE LoadMoreArticles
  <2>1. ~lapses.missed
    BY <1>3 DEF LoadMoreArticles, LoadPage
  <2>. QED
    BY <1>1, <1>3, <2>1, MoreAsked DEF Sound
<1>4. ASSUME NEW w, lapses' = Wrote(w) PROVE Accounted
  BY <1>1, <1>4, WroteTells DEF Sound, TypedNow
<1>5. ASSUME ~lapses.missed, SameTracked(jobs, jobs'), UNCHANGED <<tables, notes, view, list, cache, pager>>,
             lapses' = lapses, Jobs \subseteq BagToSet(jobs')
      PROVE  Accounted'
  <2>1. Accounted
    BY <1>5 DEF Sound
  <2>2. Pending => Pending'
    BY <1>5, PendingStays
  <2>. QED
    BY <1>1, <1>5, <2>1, <2>2, TablesSame, NothingNew
<1>6. ASSUME NEW i \in DOMAIN list, SelectArticle(i) PROVE Accounted'
  <2>1. CASE list[i].read
    <3>1. /\ UNCHANGED <<tables, notes, view, list, cache, pager>>
          /\ jobs' = jobs /\ lapses' = lapses
      BY <1>6, <2>1 DEF SelectArticle
    <3>. QED
      BY <1>5, <3>1 DEF SameTracked, Jobs
  <2>2. CASE ~list[i].read
    <3>1. /\ list' = Flag(list, i, "read", TRUE)
          /\ jobs' = BagAdd(jobs, WriteFor("read", list[i]))
          /\ lapses' = Wrote(WriteFor("read", list[i]))
          /\ UNCHANGED <<tables, notes, view, cache, pager>>
      BY <1>6, <2>2 DEF SelectArticle
    <3>2. list' \in Seq(Row) /\ Order(list') = Order(list)
      BY <1>1, <3>1, FlagIs DEF TypedNow
    <3>3. list' = [list EXCEPT ![i] = [list[i] EXCEPT !.read = TRUE]] /\ list[i] \in Row
      BY <1>1, <3>1 DEF Flag, TypedNow
    <3>4. /\ \A k \in DOMAIN list : k # i => list'[k] = list[k]
          /\ list'[i].read /\ list'[i].queued = list[i].queued
      BY <1>1, <3>3 DEF TypedNow, Row
    <3>. QED
      BY <1>1, <1>4, <3>1, <3>2, <3>4, FlagAsked
  <2>. QED
    BY <2>1, <2>2
<1>7. CASE MarkSelectedArticleUnread
  <2>1. /\ row # 0 /\ list' = Flag(list, row, "read", FALSE)
        /\ jobs' = BagAdd(jobs, WriteFor("unread", list[row]))
        /\ lapses' = Wrote(WriteFor("unread", list[row]))
        /\ UNCHANGED <<tables, notes, view, cache, pager>>
    BY <1>7 DEF MarkSelectedArticleUnread
  <2>2. PICK i \in DOMAIN list : i = row
    BY <1>1, <2>1 DEF TypedNow
  <2>3. list' \in Seq(Row) /\ Order(list') = Order(list)
    BY <1>1, <2>1, <2>2, FlagIs DEF TypedNow
  <2>4. list' = [list EXCEPT ![i] = [list[i] EXCEPT !.read = FALSE]] /\ list[i] \in Row
    BY <1>1, <2>1, <2>2 DEF Flag, TypedNow
  <2>5. /\ \A k \in DOMAIN list : k # i => list'[k] = list[k]
        /\ ~list'[i].read /\ list'[i].queued = list[i].queued
    BY <1>1, <2>4 DEF TypedNow, Row
  <2>. QED
    BY <1>1, <1>4, <2>1, <2>2, <2>3, <2>5, FlagAsked
<1>8. CASE ToggleSelectedArticleQueued
  <2>1. PICK i \in DOMAIN list : i = row
    BY <1>1, <1>8 DEF ToggleSelectedArticleQueued, TypedNow
  <2>2. PICK op : op = IF list[i].queued THEN "unqueue" ELSE "queue"
    OBVIOUS
  <2>3. /\ list' = Flag(list, i, "queued", ~list[i].queued)
        /\ UNCHANGED <<tables, notes, view, cache>>
        /\ IF list[i].queued /\ view.node = Queue
             THEN LoadPage(view, FALSE, BagAdd(jobs, WriteFor(op, list[i])), Wrote(WriteFor(op, list[i])))
             ELSE /\ jobs' = BagAdd(jobs, WriteFor(op, list[i]))
                  /\ lapses' = Wrote(WriteFor(op, list[i])) /\ UNCHANGED pager
    BY <1>8, <2>1, <2>2 DEF ToggleSelectedArticleQueued
  <2>4. list[i] \in Row /\ op \in {"read", "unread", "queue", "unqueue"}
    BY <1>1, <2>2 DEF TypedNow
  <2>5. PICK w : w = WriteFor(op, list[i])
    OBVIOUS
  <2>6. CASE list[i].queued /\ view.node = Queue
    <3>1. w.job = "write" /\ Wrote(w) \in LapsesType
      BY <1>1, <2>4, <2>5, WriteForIs, WroteIs DEF TypedNow
    <3>2. IsABag(BagAdd(jobs, w)) /\ BagToSet(BagAdd(jobs, w)) = Jobs \cup {w}
      BY <1>1, Added DEF TypedNow, Jobs
    <3>3. \A p \in BagToSet(BagAdd(jobs, w)) : p.job = "page" => p \in Jobs
      BY <3>1, <3>2
    <3>4. \E v : v = view' /\ LoadPage(v, FALSE, BagAdd(jobs, w), Wrote(w))
      BY <2>3, <2>5, <2>6
    <3>. QED
      BY <3>1, <3>2, <3>3, <3>4, Loads
  <2>7. CASE ~(list[i].queued /\ view.node = Queue)
    <3>1. list' \in Seq(Row) /\ Order(list') = Order(list)
      BY <1>1, <2>3, FlagIs DEF TypedNow
    <3>2. list' = [list EXCEPT ![i] = [list[i] EXCEPT !.queued = ~list[i].queued]]
      BY <2>3 DEF Flag
    <3>3. /\ \A k \in DOMAIN list : k # i => list'[k] = list[k]
          /\ list'[i].read = list[i].read /\ list'[i].queued = (~list[i].queued)
      BY <1>1, <2>4, <3>2 DEF TypedNow, Row
    <3>4. /\ op = "read" => list'[i].read /\ list'[i].queued = list[i].queued
          /\ op = "unread" => ~list'[i].read /\ list'[i].queued = list[i].queued
          /\ op = "queue" => list'[i].read = list[i].read /\ ~list[i].queued /\ list'[i].queued
          /\ op = "unqueue" => list'[i].read = list[i].read /\ ~list'[i].queued /\ view.node # Queue
      BY <2>2, <2>7, <3>3
    <3>5. /\ jobs' = BagAdd(jobs, WriteFor(op, list[i])) /\ lapses' = Wrote(WriteFor(op, list[i]))
          /\ UNCHANGED <<tables, notes, view, cache, pager>>
      BY <2>3, <2>7
    <3>. QED
      BY <1>1, <1>4, <2>4, <3>1, <3>3, <3>4, <3>5, FlagAsked
  <2>. QED
    BY <2>6, <2>7
<1>9. ASSUME NEW n \in left.nodes, MarkAllArticlesRead(n) PROVE Accounted'
  BY <1>1, <1>9, AllAsked DEF Sound
<1>10. ASSUME NEW f \in Feeds, RefreshFeed(f) PROVE Accounted'
  <2>1. /\ jobs' = BagAdd(jobs, RefreshJob(f)) /\ lapses' = lapses
        /\ UNCHANGED <<tables, notes, view, list, cache, pager>>
    BY <1>10 DEF RefreshFeed, pane
  <2>2. ~Tracked(RefreshJob(f))
    BY DEF Tracked, IsOpen, RefreshJob
  <2>3. SameTracked(jobs, jobs') /\ Jobs \subseteq BagToSet(jobs')
    BY <1>1, <2>1, <2>2, TrackedAdded, Added DEF TypedNow, Jobs
  <2>. QED
    BY <1>5, <2>1, <2>3
<1>. QED
  BY <1>2, <1>3, <1>6, <1>7, <1>8, <1>9, <1>10 DEF UserActs

\* The device deals with an answer.
LEMMA SoundByDevice ==
  ASSUME Typed, WritesKnown, Sound, ~broken, NEW j \in Jobs, DeviceActs(j)
  PROVE  Sound'
<1>1. TypedNow /\ JobType(j) /\ IsABag(jobs)
  BY TypedParts DEF Typed, JobsTyped, Jobs
<1>. SUFFICES ASSUME ~lapses'.missed, ~broken' PROVE Accounted'
  BY DEF Sound
<1>2. CASE UsePage(j)
  <2>1. ~lapses.missed
    BY <1>1, <1>2 DEF UsePage, TypedNow, LapsesType
  <2>. QED
    BY <1>1, <1>2, <2>1, PageUsed DEF Sound
<1>3. CASE PageFailed(j)
  <2>1. lapses'.missed
    BY <1>1, <1>3 DEF PageFailed, TypedNow, LapsesType
  <2>. QED
    BY <2>1
<1>4. ASSUME ~lapses.missed, SameTracked(jobs, jobs'),
             UNCHANGED <<tables, view, list, cache, pager>>,
             lapses'.writes = lapses.writes, lapses'.based = lapses.based, Pending => Pending'
      PROVE  Accounted'
  BY <1>1, <1>4, TablesSame, NothingNew DEF Sound
<1>5. ~Tracked(CountJob) /\ CountJob.job = "count"
  BY DEF Tracked, IsOpen, CountJob
<1>6. ASSUME NEW so \in BOOLEAN, lapses' = Missed(so)
      PROVE  lapses'.writes = lapses.writes /\ lapses'.based = lapses.based /\ ~so
  BY <1>1, <1>6 DEF Missed, TypedNow, LapsesType
\* A job that is not waited for goes, and may leave others.
<1>7. ASSUME NEW rest, rest = BagRemove(jobs, j), ~Tracked(j), ~Unsettled(j),
             jobs' = rest \/ jobs' = BagAdd(rest, CountJob), UNCHANGED <<notes, view>>
      PROVE  SameTracked(jobs, jobs') /\ (Pending => Pending')
  <2>1. /\ IsABag(rest) /\ SameTracked(jobs, rest)
        /\ Jobs \ {j} \subseteq BagToSet(rest)
    BY <1>1, <1>7, Taken, TrackedTaken DEF Jobs
  <2>2. /\ SameTracked(rest, BagAdd(rest, CountJob))
        /\ BagToSet(BagAdd(rest, CountJob)) = BagToSet(rest) \cup {CountJob}
    BY <1>5, <2>1, TrackedAdded, Added
  <2>3. SameTracked(jobs, jobs') /\ Jobs \ {j} \subseteq BagToSet(jobs')
    BY <1>7, <2>1, <2>2 DEF SameTracked
  <2>4. Pending => Pending'
    BY <1>7, <2>3, PendingStays
  <2>. QED
    BY <2>3, <2>4
<1>8. CASE FinishWrite(j)
  <2>. DEFINE reloads == j.state = "failed" /\ j.op # "all"
              counts  == j.op = "all" \/ (j.state = "failed" /\ j.op \in {"read", "unread"})
              rest    == IF counts THEN BagAdd(BagRemove(jobs, j), CountJob) ELSE BagRemove(jobs, j)
              so      == lapses.missed \/ (reloads /\ loading)
                           \/ (j.state = "failed" /\ j.op = "all")
  <2>1. /\ j.job = "write" /\ j.state \in {"done", "failed"}
        /\ jobs' = IF reloads /\ ~loading THEN BagAdd(rest, ReloadJob(view)) ELSE rest
        /\ lapses' = Missed(so)
        /\ UNCHANGED <<tables, notes, view, list, cache, pager>>
    BY <1>8 DEF FinishWrite, pane
  <2>2. so \in BOOLEAN
    BY <1>1 DEF TypedNow, LapsesType
  <2>3. /\ lapses'.writes = lapses.writes /\ lapses'.based = lapses.based
        /\ ~lapses.missed /\ ~(reloads /\ loading) /\ ~(j.state = "failed" /\ j.op = "all")
    BY <1>6, <2>1, <2>2
  <2>4. ~Tracked(j)
    BY <2>1 DEF Tracked, IsOpen
  <2>5. CASE j.state = "done"
    <3>1. ~Unsettled(j)
      BY <2>1, <2>5 DEF Unsettled
    <3>2. jobs' = rest
      BY <2>1, <2>5
    <3>3. SameTracked(jobs, jobs') /\ (Pending => Pending')
      BY <1>7, <2>1, <2>4, <3>1, <3>2
    <3>. QED
      BY <1>4, <2>1, <2>3, <3>3
  <2>6. CASE j.state = "failed"
    <3>1. jobs' = BagAdd(rest, ReloadJob(view))
      BY <2>1, <2>3, <2>6
    <3>2. /\ IsABag(BagRemove(jobs, j)) /\ SameTracked(jobs, BagRemove(jobs, j))
      BY <1>1, <2>4, Taken, TrackedTaken
    <3>3. IsABag(rest) /\ SameTracked(jobs, rest)
      <4>1. /\ IsABag(BagAdd(BagRemove(jobs, j), CountJob))
            /\ SameTracked(BagRemove(jobs, j), BagAdd(BagRemove(jobs, j), CountJob))
        BY <1>5, <3>2, Added, TrackedAdded
      <4>. QED
        BY <3>2, <4>1 DEF SameTracked
    <3>4. ReloadJob(view).job = "reload" /\ ~Tracked(ReloadJob(view))
      BY DEF ReloadJob, Tracked, IsOpen
    <3>. HIDE DEF rest
    <3>5. /\ SameTracked(rest, jobs') /\ BagToSet(jobs') = BagToSet(rest) \cup {ReloadJob(view)}
      BY <3>1, <3>3, <3>4, TrackedAdded, Added
    <3>6. SameTracked(jobs, jobs')
      BY <3>3, <3>5 DEF SameTracked
    <3>7. Pending'
      BY <2>1, <3>4, <3>5, PendingNow DEF Unsettled
    <3>. QED
      BY <1>4, <2>1, <2>3, <3>6, <3>7
  <2>. QED
    BY <2>1, <2>5, <2>6
<1>9. CASE ReloadByThread(j)
  <2>1. /\ jobs' = BagAdd(BagRemove(jobs, j), PageJob(j.view, FALSE, 0)) /\ loading' = TRUE
        /\ lapses' = Missed(Paging) /\ UNCHANGED view
    BY <1>9 DEF ReloadByThread, pane
  <2>2. ~Paging
    <3>1. Paging \in BOOLEAN
      BY DEF Paging
    <3>. QED
      BY <1>6, <2>1, <3>1
  <2>3. /\ IsABag(BagRemove(jobs, j)) /\ \A p \in BagToSet(BagRemove(jobs, j)) : p.job # "page"
    BY <1>1, <2>2, Taken DEF Paging, Jobs
  <2>4. PICK p : p = PageJob(j.view, FALSE, 0)
    OBVIOUS
  <2>5. p \in BagToSet(jobs') /\ p.job = "page" /\ p.view = j.view
    BY <2>1, <2>3, <2>4, Added DEF PageJob
  <2>6. j.view = view' \/ Pending'
    BY <2>1, <2>5, PendingNow DEF Unsettled
  <2>. QED
    BY <2>1, <2>3, <2>6, NewPage
<1>10. CASE FinishRefresh(j)
  <2>1. /\ j.job = "refresh" /\ j.state \in {"done", "failed"}
        /\ UNCHANGED <<tables, notes, view, list, cache>>
    BY <1>10 DEF FinishRefresh, pane
  <2>2. ~Tracked(j)
    BY <2>1 DEF Tracked, IsOpen
  <2>. DEFINE rest == BagRemove(jobs, j)
  <2>3. IsABag(rest) /\ BagToSet(rest) \subseteq Jobs
    BY <1>1, Taken DEF Jobs
  <2>4. IsABag(BagAdd(rest, CountJob)) /\ BagToSet(BagAdd(rest, CountJob)) = BagToSet(rest) \cup {CountJob}
    BY <2>3, Added
  <2>5. CASE j.state = "failed"
    <3>1. lapses' = Missed(TRUE)
      BY <1>10, <2>5 DEF FinishRefresh
    <3>. QED
      BY <1>6, <3>1
  <2>6. CASE j.state = "done" /\ view.node \in {Root, Queue, j.feed}
    <3>1. LoadPage(view, FALSE, BagAdd(rest, CountJob), lapses)
      BY <1>10, <2>6 DEF FinishRefresh
    <3>2. \A p \in BagToSet(BagAdd(rest, CountJob)) : p.job = "page" => p \in Jobs
      BY <1>5, <2>3, <2>4
    <3>. HIDE DEF rest
    <3>. QED
      BY <1>1, <2>1, <2>4, <3>1, <3>2, Loads DEF TypedNow
  <2>7. CASE j.state = "done" /\ view.node \notin {Root, Queue, j.feed}
    <3>1. /\ jobs' = BagAdd(rest, CountJob)
          /\ lapses' = Missed(lapses.missed \/ Overlap(j.feed, view.node))
          /\ UNCHANGED pager
      BY <1>10, <2>7 DEF FinishRefresh
    <3>2. (lapses.missed \/ Overlap(j.feed, view.node)) \in BOOLEAN
      BY <1>1 DEF TypedNow, LapsesType
    <3>3. /\ lapses'.writes = lapses.writes /\ lapses'.based = lapses.based
          /\ ~lapses.missed /\ ~Overlap(j.feed, view.node)
      BY <1>6, <3>1, <3>2
    <3>4. ~Unsettled(j)
      BY <2>1, <2>7, <3>3 DEF Unsettled
    <3>5. SameTracked(jobs, jobs') /\ (Pending => Pending')
      BY <1>7, <2>1, <2>2, <3>1, <3>4
    <3>. QED
      BY <1>4, <2>1, <3>1, <3>3, <3>5
  <2>. QED
    BY <2>1, <2>5, <2>6, <2>7
<1>11. CASE UseCount(j)
  <2>1. /\ j.job = "count" /\ jobs' = BagRemove(jobs, j)
        /\ UNCHANGED <<tables, notes, view, list, cache, pager>>
    BY <1>11 DEF UseCount
  <2>2. /\ lapses'.writes = lapses.writes /\ lapses'.based = lapses.based
        /\ lapses'.missed = lapses.missed
    BY <1>1, <1>11 DEF UseCount, Counted, TypedNow, LapsesType
  <2>3. ~Tracked(j) /\ ~Unsettled(j)
    BY <2>1 DEF Tracked, IsOpen, Unsettled
  <2>4. SameTracked(jobs, jobs') /\ (Pending => Pending')
    BY <1>7, <2>1, <2>3
  <2>. QED
    BY <1>4, <2>1, <2>2, <2>4
<1>12. CASE UseConnection(j)
  <2>1. /\ LoadPage(view, FALSE, BagRemove(jobs, j), Counted(j, lapses)) /\ UNCHANGED view
    BY <1>12 DEF UseConnection
  <2>2. Counted(j, lapses) \in LapsesType
    BY <1>1, <1>12, JobKinds, CountedIs DEF UseConnection, TypedNow
  <2>3. IsABag(BagRemove(jobs, j)) /\ BagToSet(BagRemove(jobs, j)) \subseteq Jobs
    BY <1>1, Taken DEF Jobs
  <2>. QED
    BY <2>1, <2>2, <2>3, Loads
<1>. QED
  BY <1>2, <1>3, <1>8, <1>9, <1>10, <1>11, <1>12 DEF DeviceActs

-----------------------------------------------------------------------------
(* The steps of the server                                                   *)

\* What is no page leaves the pages alone.
LEMMA PagesAside ==
  ASSUME IsABag(jobs), OnePage, Offsets, NEW x, x.job # "page", NEW y, y.job # "page",
         \/ jobs' = BagAdd(BagRemove(jobs, x), y)
         \/ jobs' = BagAdd(jobs, y)
         \/ jobs' = jobs,
         loading' = loading, next' = next
  PROVE  OnePage' /\ Offsets'
<1>1. IsABag(BagRemove(jobs, x)) /\ IsABag(BagAdd(BagRemove(jobs, x), y))
  BY Taken, Added
<1>2. \A p : p.job = "page" =>
        /\ p \in BagToSet(BagRemove(jobs, x)) <=> p \in Jobs
        /\ Once(jobs, p) => Once(BagRemove(jobs, x), p)
  BY Taken, OnceTaken DEF Jobs
<1>3. \A p : p.job = "page" =>
        /\ p \in BagToSet(jobs') <=> p \in Jobs
        /\ Once(jobs, p) => Once(jobs', p)
  <2>1. CASE jobs' = BagAdd(BagRemove(jobs, x), y)
    BY <1>1, <1>2, <2>1, Added, OnceAdded
  <2>2. CASE jobs' = BagAdd(jobs, y)
    BY <2>2, Added, OnceAdded DEF Jobs
  <2>3. CASE jobs' = jobs
    BY <2>3 DEF Jobs
  <2>. QED
    BY <2>1, <2>2, <2>3
<1>4. OnePage'
  BY <1>3 DEF OnePage, Jobs
<1>5. Offsets'
  BY <1>3 DEF Offsets, Jobs
<1>. QED
  BY <1>4, <1>5

\* The page that is asked for is computed.
LEMMA PageAnswered ==
  ASSUME Typed, Accounted, NEW j \in Jobs, ServePage(j)
  PROVE  Accounted'
<1>1. TypedNow
  BY TypedParts
<1>2. /\ j.job = "page" /\ j.state = "asked"
      /\ UNCHANGED <<tables, notes, view, list, cache, pager, lapses>>
  BY DEF ServePage, Serving, pane
<1>3. j \in PageAsked
  BY <1>1, <1>2, JobKinds DEF TypedNow, JobsTyped, Jobs
<1>4. PICK p : jobs' = BagAdd(BagRemove(jobs, j), p) /\ Answer(j, p)
  <2>. DEFINE all  == Listing(j.view)
              last == IF j.offset + Limit < Len(all) THEN j.offset + Limit ELSE Len(all)
              rows == SubSeq(all, j.offset + 1, last)
              behind == \E k \in Jobs : k.job = "write" /\ k.state = "asked"
              p == [job |-> "page", state |-> "done", view |-> j.view, append |-> j.append,
                    rows |-> rows, next |-> j.offset + Len(rows), more |-> last < Len(all),
                    writes |-> IF behind THEN 0 - 1 ELSE lapses.writes]
  <2>1. jobs' = BagAdd(BagRemove(jobs, j), p)
    BY DEF ServePage
  <2>2. /\ p.job = "page" /\ p.state = "done" /\ p.view = j.view /\ p.append = j.append
        /\ p.rows = rows /\ p.next = j.offset + Len(p.rows) /\ p.more = (last < Len(all))
    OBVIOUS
  <2>3. Answer(j, p)
    BY <2>2 DEF Answer
  <2>. HIDE DEF p
  <2>. QED
    BY <2>1, <2>3
<1>5. p.job = "page" /\ p.state = "done" /\ p.view = j.view /\ p.append = j.append
  BY <1>4 DEF Answer
<1>6. OnePage /\ Once(jobs, j) /\ \A q \in Jobs : q.job = "page" => q = j
  BY <1>2 DEF Accounted, OnePage
<1>7. OnePage' /\ Offsets'
  BY <1>1, <1>2, <1>4, <1>5, <1>6, PageReplaced DEF TypedNow, pager
<1>8. IsABag(BagRemove(jobs, j)) /\ BagToSet(BagRemove(jobs, j)) = Jobs \ {j}
  BY <1>1, <1>6, Taken, OnceTaken DEF Jobs, TypedNow
<1>9. Jobs' = (Jobs \ {j}) \cup {p} /\ \A e : e # p /\ Once(BagRemove(jobs, j), e) => Once(jobs', e)
  BY <1>4, <1>8, Added, OnceAdded DEF Jobs
<1>10. CASE j.view # view
  BY <1>2, <1>5, <1>7, <1>9, <1>10, PendingNow DEF Accounted, Jobs, Unsettled
<1>11. CASE j.view = view
  <2>1. ~Unsettled(j)
    BY <1>2, <1>11 DEF Unsettled
  <2>2. Pending => Pending'
    BY <1>2, <1>9, <2>1, PendingStays DEF Jobs
  <2>3. \A q \in Jobs' : q.job = "page" => q = p
    BY <1>6, <1>9
  <2>4. Has' = Has /\ (\A a : Above(a)' = Above(a) /\ Here(a)' = Here(a)) /\ Steady' = Steady
    BY <1>2, TablesSame, HasSame DEF Steady
  <2>5. j.offset = IF j.append THEN next ELSE 0
    BY <1>2 DEF Accounted, Offsets
  <2>6. PageHolds(p)
    BY <1>1, <1>3, <1>4, <1>11, <2>5, PageServed DEF TypedNow
  <2>7. PageHolds(p)'
    BY <1>2, <2>4, <2>6 DEF PageHolds, Shows, tables, pager
  <2>8. PagesHold'
    BY <2>3, <2>7 DEF PagesHold, Fresh
  <2>9. ASSUME Renewing PROVE Renewing'
    <3>1. PICK q \in Jobs : q.job = "page" /\ ~q.append /\ q.state # "failed" /\ q.view = view
      BY <2>9 DEF Renewing
    <3>2. q = j
      BY <1>6, <3>1
    <3>. QED
      BY <1>2, <1>5, <1>9, <3>1, <3>2 DEF Renewing
  <2>10. ASSUME ListTrue PROVE ListTrue'
    <3>1. Open' = Open
      BY <1>2, <1>5, <1>9 DEF Open, IsOpen
    <3>2. \A w \in Open : Once(jobs, w) => Once(jobs', w)
      <4>1. \A w \in Open : w # j /\ w # p
        BY <1>2, <1>5 DEF Open, IsOpen
      <4>2. \A w \in Open : Once(jobs, w) => Once(BagRemove(jobs, j), w)
        BY <1>1, <4>1, OnceTaken DEF TypedNow
      <4>. QED
        BY <1>9, <4>1, <4>2
    <3>. QED
      BY <1>1, <1>2, <2>10, <3>1, <3>2, TablesSame, ListTrueSame DEF pager
  <2>. QED
    BY <1>7, <2>2, <2>8, <2>9, <2>10 DEF Accounted
<1>. QED
  BY <1>10, <1>11

\* A change of the user's is made: of the articles it is of, and of no other.
LEMMA WriteMade ==
  ASSUME TypedNow, ListTrue, NEW j \in Open,
         articles' = ArticlesAfter(j), queued' = QueuedAfter(j),
         UNCHANGED <<view, list, cache>>, next' = next, more' = more,
         lapses'.writes = lapses.writes, lapses'.based = lapses.based, Open' = Open \ {j},
         \A w \in Open \ {j} : Once(jobs, w) => Once(jobs', w)
  PROVE  ListTrue'
<1>1. j \in Writing /\ \A w \in Open : w \in Writing
  BY OpenTyped DEF TypedNow
<1>2. Separate'
  BY DEF ListTrue, Separate
<1>3. \A w \in Open' : InPlace(w)'
  BY DEF ListTrue, InPlace
<1>4. lapses.based # lapses.writes
  BY DEF ListTrue
<1>5. CachedWith(<<>>)' = CachedWith(<<>>)
  BY DEF CachedWith
<1>6. ASSUME NEW i \in DOMAIN list, Id(list[i]) \in Ids(CachedWith(<<>>)), NEW r, r = list[i]
      PROVE  Foreseen(r)'
  <2>1. Foreseen(r)
    BY <1>6 DEF ListTrue
  <2>2. ASSUME ~Touches(j, r.article)
        PROVE  SameAt(r.article, articles, queued, articles', queued')
    BY <1>1, <2>2, Elsewhere
  <2>3. ASSUME NEW w \in Open', Touches(w, r.article)
        PROVE  Shows(view.node, ArticlesAfter(w), QueuedAfter(w), r)'
    <3>1. w \in Open /\ ~Touches(j, w.article) /\ ~Touches(w, j.article)
      BY <2>3 DEF ListTrue, Separate
    <3>2. ~Touches(j, r.article)
      BY <2>3, <3>1 DEF Touches
    <3>3. SameAt(r.article, ArticlesAfter(w), QueuedAfter(w), ArticlesAfter(w)', QueuedAfter(w)')
      BY <1>1, <2>2, <3>1, <3>2, Commutes
    <3>4. Shows(view.node, ArticlesAfter(w), QueuedAfter(w), r)
      BY <2>1, <2>3, <3>1 DEF Foreseen
    <3>5. Shows(view.node, ArticlesAfter(w)', QueuedAfter(w)', r)
      BY <3>3, <3>4, ShowsSame
    <3>. QED
      BY <3>5
  <2>4. ASSUME \A w \in Open' : ~Touches(w, r.article)
        PROVE  Shows(view.node, articles', queued', r)
    <3>1. CASE Touches(j, r.article)
      BY <2>1, <3>1 DEF Foreseen
    <3>2. CASE ~Touches(j, r.article)
      <4>1. Shows(view.node, articles, queued, r)
        BY <2>1, <2>4, <3>2 DEF Foreseen
      <4>. QED
        BY <2>2, <3>2, <4>1, ShowsSame
    <3>. QED
      BY <3>1, <3>2
  <2>. QED
    BY <2>3, <2>4 DEF Foreseen
<1>7. \A i \in DOMAIN list' : Id(list'[i]) \in Ids(CachedWith(<<>>)') => Foreseen(list[i])'
  BY <1>5, <1>6
\* The view gains no article but one that is in the list.
<1>8. ASSUME NEW a \in Has' PROVE a \in Has \/ Here(a) \in Ids(list)
  <2>1. AfterIs(j, a)
    BY <1>1, AfterAt
  <2>2. InPlace(j) /\ j.op \in {"read", "unread", "queue", "unqueue", "all"}
    BY <1>1 DEF ListTrue, Writing
  <2>3. j.copy \in BOOLEAN
    BY <1>1 DEF Writing
  <2>4. ASSUME j.op = "unread", a \in Found(j) PROVE Here(a) \in Ids(list)
    <3>1. a = j.article /\ (j.node = Queue) = j.copy /\ (j.node = Queue) = (view.node = Queue)
      BY <2>1, <2>2, <2>4 DEF AfterIs, InPlace
    <3>2. <<j.article, j.copy>> \in Ids(list)
      BY <2>2, <2>3, <2>4, <3>1 DEF InPlace
    <3>3. <<j.article, j.copy>> = Here(a)
      BY <2>3, <3>1 DEF Here
    <3>. QED
      BY <3>2, <3>3
  <2>5. CASE view.node = Queue
    <3>1. /\ a \in DOMAIN QueuedAfter(j) \cap Of(view.node) \cap Titles[view.query]
          /\ ~(view.unread /\ QueuedAfter(j)[a])
      BY <1>8, <2>5 DEF Has, Table
    <3>2. CASE a \in DOMAIN queued
      <4>1. a \in Has \/ (queued[a] /\ ~QueuedAfter(j)[a])
        BY <2>5, <3>1, <3>2 DEF Has, Table
      <4>2. CASE queued[a] /\ ~QueuedAfter(j)[a]
        <5>1. j.op = "unread" /\ a \in Found(j)
          BY <2>1, <2>2, <3>1, <3>2, <4>2 DEF AfterIs
        <5>. QED
          BY <2>4, <5>1
      <4>. QED
        BY <4>1, <4>2
    <3>3. CASE a \notin DOMAIN queued
      <4>1. j.op = "queue" /\ ~j.copy /\ a \in Found(j)
        BY <2>1, <3>1, <3>3 DEF AfterIs
      <4>2. (j.node = Queue) = j.copy /\ (j.node = Queue) = (view.node = Queue)
        BY <2>1, <2>2, <4>1 DEF AfterIs, InPlace
      <4>. QED
        BY <2>5, <4>1, <4>2
    <3>. QED
      BY <3>2, <3>3
  <2>6. CASE view.node # Queue
    <3>1. /\ a \in DOMAIN articles \cap Of(view.node) \cap Titles[view.query]
          /\ ~(view.unread /\ ArticlesAfter(j)[a])
      BY <1>8, <2>1, <2>6 DEF Has, Table, AfterIs
    <3>2. a \in Has \/ (articles[a] /\ ~ArticlesAfter(j)[a])
      BY <2>6, <3>1 DEF Has, Table
    <3>3. CASE articles[a] /\ ~ArticlesAfter(j)[a]
      <4>1. j.op = "unread" /\ a \in Found(j)
        BY <2>1, <2>2, <3>1, <3>3 DEF AfterIs
      <4>. QED
        BY <2>4, <4>1
    <3>. QED
      BY <3>2, <3>3
  <2>. QED
    BY <2>5, <2>6
<1>9. more' \/ \A a \in Has' : Here(a)' \in Ids(list')
  BY <1>8 DEF ListTrue, Here
<1>10. Steady' => \A a \in Has' : Above(a)' < next' => Here(a)' \in Ids(list')
  <2>1. SUFFICES ASSUME Steady' PROVE \A a \in Has' : Above(a)' < next' => Here(a)' \in Ids(list')
    OBVIOUS
  <2>2. Steady /\ ~view.unread /\ view.node # Queue
    BY <1>4, <2>1 DEF Steady
  <2>3. DOMAIN articles' = DOMAIN articles
    BY <1>1, AfterAt DEF AfterIs
  <2>4. Has' = Has
    BY <2>2, <2>3 DEF Has, Table
  <2>5. \A a : Above(a)' = Above(a) /\ Here(a)' = Here(a)
    BY <2>4 DEF Above, Here
  <2>. QED
    BY <2>2, <2>4, <2>5 DEF ListTrue
<1>. QED
  BY <1>2, <1>3, <1>4, <1>7, <1>9, <1>10 DEF ListTrue

\* A change of the user's is handled: made, or refused, which reloads the pane.
LEMMA WriteHandled ==
  ASSUME Typed, WritesKnown, Accounted, NEW j \in Jobs, ServeWrite(j)
  PROVE  Accounted'
<1>1. TypedNow
  BY TypedParts
<1>2. /\ j.job = "write" /\ j.state = "asked"
      /\ articles' = ArticlesAfter(j) /\ queued' = QueuedAfter(j) /\ Notify(Told(j), "own")
      /\ UNCHANGED <<view, list, cache, pager>>
  BY DEF ServeWrite, Serving, pane
<1>3. j \in Open /\ j \in Writing
  BY <1>1, <1>2, OpenTyped DEF Open, IsOpen, TypedNow
<1>4. PICK k : k = [j EXCEPT !.state = IF Throws(j) THEN "failed" ELSE "done"]
  OBVIOUS
<1>5. jobs' = BagAdd(BagRemove(jobs, j), k)
  BY <1>4 DEF ServeWrite
<1>6. k.job = "write" /\ k.state = IF Throws(j) THEN "failed" ELSE "done"
  BY <1>2, <1>3, <1>4 DEF Writing
<1>7. lapses'.writes = lapses.writes /\ lapses'.based = lapses.based
  BY <1>1 DEF ServeWrite, TypedNow, LapsesType
<1>8. OnePage' /\ Offsets'
  BY <1>1, <1>2, <1>5, <1>6, PagesAside DEF Accounted, TypedNow, pager
<1>9. IsABag(BagRemove(jobs, j)) /\ Jobs \ {j} \subseteq BagToSet(BagRemove(jobs, j))
  BY <1>1, Taken DEF Jobs, TypedNow
<1>10. /\ BagToSet(jobs') = BagToSet(BagRemove(jobs, j)) \cup {k}
       /\ BagToSet(BagRemove(jobs, j)) \subseteq Jobs
  BY <1>1, <1>5, <1>9, Added, Taken DEF Jobs, TypedNow
<1>11. BagToSet(notes) \subseteq BagToSet(notes')
  BY <1>1, <1>2, <1>3, WritesTyped, NotifyIs DEF TypedNow
<1>12. Pending => Pending'
  <2>1. ~Unsettled(j)
    BY <1>2 DEF Unsettled
  <2>. QED
    BY <1>2, <1>9, <1>10, <1>11, <2>1, PendingStays
<1>13. CASE Throws(j)
  BY <1>2, <1>6, <1>8, <1>10, <1>13, PendingNow DEF Accounted, Unsettled
<1>14. CASE ~Throws(j)
  <2>1. \A p : p.job = "page" => (p \in Jobs' <=> p \in Jobs)
    BY <1>2, <1>6, <1>9, <1>10 DEF Jobs
  <2>2. PagesHold'
    <3>1. \A p \in Jobs' : ~Fresh(p)'
      BY <1>2, <1>3, <1>7, <2>1 DEF WritesKnown, Fresh
    <3>. QED
      BY <3>1 DEF PagesHold
  <2>3. Renewing => Renewing'
    BY <1>2, <2>1 DEF Renewing
  <2>4. ASSUME ListTrue PROVE ListTrue'
    <3>1. Once(jobs, j)
      BY <1>3, <2>4 DEF ListTrue, Separate
    <3>2. BagToSet(BagRemove(jobs, j)) = Jobs \ {j}
      BY <1>1, <3>1, OnceTaken DEF Jobs, TypedNow
    <3>3. ~IsOpen(k)
      BY <1>6 DEF IsOpen
    <3>4. Open' = Open \ {j}
      BY <1>10, <3>2, <3>3 DEF Open, Jobs, IsOpen
    <3>5. \A w \in Open \ {j} : Once(jobs, w) => Once(jobs', w)
      <4>1. \A w \in Open : w # k
        BY <3>3 DEF Open
      <4>. QED
        BY <1>1, <1>5, <1>9, <4>1, OnceTaken, OnceAdded DEF TypedNow
    <3>. QED
      BY <1>1, <1>2, <1>3, <1>7, <2>4, <3>4, <3>5, WriteMade DEF pager
  <2>. QED
    BY <1>8, <1>12, <2>2, <2>3, <2>4 DEF Accounted
<1>. QED
  BY <1>13, <1>14

\* A feed is fetched: its answer will reload the pane if the view has its articles.
LEMMA RefreshServed ==
  ASSUME Typed, Accounted, NEW j \in Jobs, ServeRefresh(j)
  PROVE  Accounted'
<1>1. TypedNow
  BY TypedParts
<1>2. /\ j.job = "refresh" /\ j.state = "asked"
      /\ UNCHANGED <<queued, view, list, cache, pager>>
  BY DEF ServeRefresh, Serving, pane
<1>3. j \in Refreshing /\ j.feed \in Feeds
  BY <1>1, <1>2, JobKinds DEF TypedNow, JobsTyped, Jobs, Refreshing
<1>4. PICK some \in {{}} \cup {{a} : a \in Holds[j.feed] \ DOMAIN articles} :
        Arrives(some, "own", j.feed, lapses.missed)
  BY DEF ServeRefresh
<1>5. some \subseteq Holds[j.feed]
  BY <1>4
<1>6. /\ articles' = [a \in DOMAIN articles \cup some |-> IF a \in some THEN FALSE ELSE articles[a]]
      /\ Notify({j.feed}, "own")
      /\ lapses' = [lapses EXCEPT !.commits = IF some = {} THEN @ ELSE @ + 1, !.missed = @]
  BY <1>4 DEF Arrives
<1>7. lapses'.writes = lapses.writes /\ lapses'.based = lapses.based
  BY <1>1, <1>6 DEF TypedNow, LapsesType
<1>8. PICK k : k = [j EXCEPT !.state = "done"]
  OBVIOUS
<1>9. k.job = "refresh" /\ k.state = "done" /\ k.feed = j.feed
  BY <1>2, <1>3, <1>8 DEF Refreshing
<1>10. jobs' = BagAdd(BagRemove(jobs, j), k)
  BY <1>8 DEF ServeRefresh
<1>11. /\ SameTracked(jobs, jobs')
       /\ (Jobs \ {j}) \cup {k} \subseteq BagToSet(jobs')
  <2>1. ~Tracked(j) /\ ~Tracked(k)
    BY <1>2, <1>9 DEF Tracked, IsOpen
  <2>. QED
    BY <1>1, <1>10, <2>1, TrackedReplaced, Replaced DEF TypedNow, Jobs
<1>12. BagToSet(notes) \subseteq BagToSet(notes')
  BY <1>1, <1>3, <1>6, NotifyIs DEF TypedNow, Feeds, Nodes
<1>13. CASE Overlap(j.feed, view.node)
  <2>1. Pending'
    BY <1>2, <1>9, <1>11, <1>13, PendingNow DEF Unsettled
  <2>. QED
    BY <1>2, <1>11, <2>1, PagesSame DEF Accounted, pager
<1>14. CASE ~Overlap(j.feed, view.node)
  <2>1. Of(j.feed) = Holds[j.feed]
    BY <1>3 DEF Of, Feeds
  <2>2. \A a \in Of(view.node) : a \notin some
    BY <1>5, <1>14, <2>1 DEF Overlap
  <2>3. \A a \in Of(view.node) : SameAt(a, articles, queued, articles', queued')
    BY <1>2, <1>6, <2>2 DEF SameAt
  <2>4. ~Unsettled(j)
    BY <1>2 DEF Unsettled
  <2>5. Pending => Pending'
    BY <1>2, <1>11, <1>12, <2>4, PendingStays
  <2>. QED
    BY <1>1, <1>2, <1>7, <1>11, <2>3, <2>5, NothingNew
<1>. QED
  BY <1>13, <1>14

\* The server handles a request.
LEMMA SoundByServer ==
  ASSUME Typed, WritesKnown, Sound, ~broken, NEW j \in Jobs, ServerActs(j)
  PROVE  Sound'
<1>1. TypedNow
  BY TypedParts
<1>2. (lapses'.missed <=> lapses.missed)
  <2>1. CASE UNCHANGED lapses
    BY <2>1
  <2>2. ASSUME NEW n, NEW wrong, lapses' = [lapses EXCEPT !.commits = n, !.wrong = wrong]
        PROVE  lapses'.missed = lapses.missed
    BY <1>1, <2>2 DEF TypedNow, LapsesType
  <2>3. ASSUME NEW n, lapses' = [lapses EXCEPT !.commits = n, !.missed = lapses.missed]
        PROVE  lapses'.missed = lapses.missed
    BY <1>1, <2>3 DEF TypedNow, LapsesType
  <2>4. ServeWrite(j) => lapses'.missed = lapses.missed
    BY <2>2 DEF ServeWrite
  <2>5. ServeRefresh(j) => lapses'.missed = lapses.missed
    BY <2>3 DEF ServeRefresh, Arrives
  <2>. QED
    BY <2>1, <2>4, <2>5 DEF ServerActs, ServePage, ServeCount, ServeConnection
<1>. SUFFICES ASSUME ~lapses.missed PROVE Accounted'
  BY <1>2 DEF Sound
<1>3. Accounted
  BY DEF Sound
<1>4. ASSUME ServeCount(j) \/ ServeConnection(j) PROVE Accounted'
  <2>1. /\ UNCHANGED <<tables, notes, view, list, cache, pager, lapses>>
        /\ j.job = "count" \/ j = ConnectJob
        /\ \E kind \in {"count", "connect"} :
             /\ j = ConnectJob => kind = "connect"
             /\ jobs' = BagAdd(BagRemove(jobs, j), Count(kind))
    BY <1>4 DEF ServeCount, ServeConnection, Serving, pane, ConnectJob
  <2>2. PICK kind \in {"count", "connect"} :
          /\ j = ConnectJob => kind = "connect"
          /\ jobs' = BagAdd(BagRemove(jobs, j), Count(kind))
    BY <2>1
  <2>3. PICK k : k = Count(kind)
    OBVIOUS
  <2>4. k.job = kind /\ ~Tracked(k) /\ ~Tracked(j)
    BY <2>1, <2>2, <2>3 DEF Count, Tracked, IsOpen, ConnectJob
  <2>5. SameTracked(jobs, jobs') /\ (Jobs \ {j}) \cup {k} \subseteq BagToSet(jobs')
    BY <1>1, <2>2, <2>3, <2>4, TrackedReplaced, Replaced DEF TypedNow, Jobs
  <2>6. Pending => Pending'
    <3>1. CASE j = ConnectJob
      BY <2>1, <2>2, <2>4, <2>5, <3>1, PendingNow DEF Unsettled
    <3>2. CASE j.job = "count"
      <4>1. ~Unsettled(j)
        BY <3>2 DEF Unsettled
      <4>. QED
        BY <2>1, <2>5, <4>1, PendingStays
    <3>. QED
      BY <2>1, <3>1, <3>2
  <2>. QED
    BY <1>1, <1>3, <2>1, <2>5, <2>6, TablesSame, NothingNew
<1>. QED
  BY <1>3, <1>4, PageAnswered, WriteHandled, RefreshServed DEF ServerActs

-----------------------------------------------------------------------------
(* The scheduler, other devices, notifications and faults                    *)

\* The note of a change comes to the device, or the connection will be made anew.
LEMMA Notified ==
  ASSUME TypedNow, NEW nodes, nodes \subseteq Nodes \cup {Everywhere},
         NEW from \in {"other", "scheduler"}, Notify(nodes, from), UNCHANGED <<view, jobs>>
  PROVE  /\ Pending => Pending'
         /\ Offline => Pending'
         /\ \A n \in nodes : Tells(Note(n, from)) => Pending'
<1>1. BagToSet(notes) \subseteq BagToSet(notes')
  BY NotifyIs DEF TypedNow
<1>2. Pending => Pending'
  BY <1>1, PendingStays DEF Jobs
<1>3. ASSUME Offline PROVE Pending'
  BY <1>2, <1>3 DEF Offline, Pending, Unsettled, ConnectJob
<1>4. ASSUME ~Offline, NEW n \in nodes, Tells(Note(n, from)) PROVE Pending'
  <2>. DEFINE N == {Note(m, from) : m \in nodes}
  <2>1. notes' = notes (+) SetToBag(N) /\ Note(n, from) \in N
    BY <1>4 DEF Notify
  <2>. HIDE DEF N
  <2>2. Note(n, from) \in BagToSet(notes')
    BY <2>1, AddedSet DEF TypedNow, NotesTyped
  <2>. QED
    BY <1>4, <2>2, PendingNow
<1>. QED
  BY <1>2, <1>3, <1>4

LEMMA AskedOf ==
  ASSUME NEW w \in Asked, w.op # "all"
  PROVE  w.article \in Articles /\ w.node = IF w.copy THEN Queue ELSE FeedOf(w.article)
<1>. DEFINE marks == {WriteJob(op, IF copy THEN Queue ELSE FeedOf(a), a, copy) :
                        op \in {"read", "unread", "queue", "unqueue"}, a \in Articles,
                        copy \in BOOLEAN}
            alls  == {WriteJob("all", n, 0, FALSE) : n \in Nodes}
<1>1. Asked = marks \cup alls
  BY DEF Asked
<1>2. w \notin alls
  BY DEF WriteJob
<1>. HIDE DEF marks, alls
<1>3. w \in marks
  BY <1>1, <1>2
<1>4. PICK op \in {"read", "unread", "queue", "unqueue"}, a \in Articles, copy \in BOOLEAN :
        w = WriteJob(op, IF copy THEN Queue ELSE FeedOf(a), a, copy)
  BY <1>3, SMTT(30) DEF marks
<1>. QED
  BY <1>4 DEF WriteJob

\* A change of another device's is told of, or is of no article of the view.
LEMMA OthersTell ==
  ASSUME TypedNow, NEW w \in Asked, Changes(w), ~Throws(w),
         articles' = ArticlesAfter(w), queued' = QueuedAfter(w)
  PROVE  \/ \E n \in Told(w) : Tells(Note(n, "other"))
         \/ \A a \in Of(view.node) : SameAt(a, articles, queued, articles', queued')
<1>1. w \in Writing /\ w.op \in {"read", "unread", "queue", "unqueue", "all"}
  BY AskedIs DEF Writing
<1>2. \A n : Concerns(Note(n, "other")) \/ Overlap(n, view.node) => Tells(Note(n, "other"))
  BY DEF Tells, Note
<1>3. \A n \in {Everywhere, Queue, view.node} : Concerns(Note(n, "other"))
  BY DEF Concerns, Note
<1>4. CASE w.op \in {"queue", "unqueue"}
  BY <1>2, <1>3, <1>4 DEF Told
<1>5. CASE w.op = "all" /\ w.node \notin Feeds
  BY <1>2, <1>3, <1>5 DEF Told
<1>6. CASE w.op \in {"read", "unread"} \/ (w.op = "all" /\ w.node \in Feeds)
  <2>1. w.node \in Told(w)
    BY <1>6 DEF Told
  <2>2. SUFFICES ASSUME w.node # Queue, ~Overlap(w.node, view.node)
                 PROVE  \A a \in Of(view.node) : SameAt(a, articles, queued, articles', queued')
    BY <1>2, <1>3, <2>1
  <2>3. TAKE a \in Of(view.node)
  <2>4. a \notin Of(w.node)
    BY <2>2 DEF Overlap
  <2>5. CASE w.op = "all"
    <3>1. AfterIs(w, a)
      BY <1>1, AfterAt
    <3>. QED
      BY <2>2, <2>4, <2>5, <3>1 DEF AfterIs, SameAt
  <2>6. CASE w.op \in {"read", "unread"}
    <3>1. w.article \in Articles /\ w.node = FeedOf(w.article)
      BY <2>2, <2>6, AskedOf
    <3>2. w.article \in Of(w.node)
      BY <3>1, FeedsAre DEF Of, Feeds
    <3>3. ~Touches(w, a)
      BY <2>4, <2>6, <3>2 DEF Touches
    <3>. QED
      BY <1>1, <3>3, Elsewhere
  <2>. QED
    BY <1>6, <2>5, <2>6
<1>. QED
  BY <1>1, <1>4, <1>5, <1>6

\* A request that fails is made up for by a reload.
LEMMA RequestLost ==
  ASSUME Typed, Accounted, NEW j \in Jobs, RequestFails(j)
  PROVE  Accounted'
<1>1. TypedNow
  BY TypedParts
<1>2. /\ j.job \in {"page", "count", "write", "refresh"} /\ j.state \in {"asked", "done"}
      /\ UNCHANGED <<tables, notes, view, list, cache, pager, lapses>>
  BY DEF RequestFails, pane
<1>3. PICK k : /\ jobs' = BagAdd(BagRemove(jobs, j), k)
               /\ k = CASE j.job = "page"  -> [job |-> "page", state |-> "failed",
                                               view |-> j.view, append |-> j.append]
                        [] j.job = "count" -> [job |-> "count", state |-> "failed"]
                        [] OTHER           -> [j EXCEPT !.state = "failed"]
  BY DEF RequestFails
<1>4. (Jobs \ {j}) \cup {k} \subseteq BagToSet(jobs')
  BY <1>1, <1>3, Replaced DEF TypedNow, Jobs
<1>5. CASE j.job = "page"
  <2>1. k.job = "page" /\ k.state = "failed"
    BY <1>3, <1>5
  <2>2. OnePage' /\ Offsets'
    BY <1>1, <1>2, <1>3, <1>5, <2>1, PageReplaced DEF Accounted, TypedNow, pager
  <2>3. Pending'
    BY <1>2, <1>4, <2>1, PendingNow DEF Unsettled
  <2>. QED
    BY <2>2, <2>3 DEF Accounted
<1>6. CASE j.job \in {"write", "refresh"}
  <2>1. k = [j EXCEPT !.state = "failed"] /\ (j \in Writing \/ j \in Refreshing)
    BY <1>1, <1>3, <1>6, JobKinds DEF TypedNow, JobsTyped, Jobs
  <2>2. k.job = j.job /\ k.state = "failed"
    BY <2>1 DEF Writing, Refreshing
  <2>3. OnePage' /\ Offsets'
    BY <1>1, <1>2, <1>3, <1>6, <2>2, PagesAside DEF Accounted, TypedNow, pager
  <2>4. Pending'
    BY <1>2, <1>4, <1>6, <2>2, PendingNow DEF Unsettled
  <2>. QED
    BY <2>3, <2>4 DEF Accounted
<1>7. CASE j.job = "count"
  <2>1. k.job = "count"
    BY <1>3, <1>7
  <2>2. ~Tracked(j) /\ ~Tracked(k) /\ ~Unsettled(j)
    BY <1>7, <2>1 DEF Tracked, IsOpen, Unsettled
  <2>3. SameTracked(jobs, jobs')
    BY <1>1, <1>3, <2>2, TrackedReplaced DEF TypedNow
  <2>4. Pending => Pending'
    BY <1>2, <1>4, <2>2, PendingStays
  <2>. QED
    BY <1>1, <1>2, <2>3, <2>4, TablesSame, NothingNew
<1>. QED
  BY <1>2, <1>5, <1>6, <1>7

\* Others change the tables, notifications come, and things fail.
LEMMA SoundByOthers ==
  ASSUME Typed, AstrayTyped, Sound, ~broken,
         \/ \E m \in BagToSet(notes) : ReceiveNote(m)
         \/ \E a \in Articles : SchedulerFetches(a)
         \/ \E w \in Asked : OtherDeviceWrites(w)
         \/ \E j \in Jobs : RequestFails(j)
         \/ \E j \in BagToSet(astray) : CommitAstray(j)
         \/ LoseConnection
  PROVE  Sound'
<1>1. TypedNow
  BY TypedParts
<1>. SUFFICES ASSUME ~lapses'.missed PROVE Accounted'
  BY DEF Sound
<1>2. ASSUME NEW m \in BagToSet(notes), ReceiveNote(m) PROVE Accounted'
  <2>1. /\ notes' = BagRemove(notes, m) /\ UNCHANGED <<tables, view, list>>
    BY <1>2 DEF ReceiveNote
  <2>2. /\ IsABag(BagAdd(jobs, CountJob)) /\ BagToSet(BagAdd(jobs, CountJob)) = Jobs \cup {CountJob}
        /\ CountJob.job = "count" /\ ~Tracked(CountJob)
    BY <1>1, Added DEF TypedNow, Jobs, CountJob, Tracked, IsOpen
  <2>3. CASE m.from # "own" /\ Concerns(m)
    <3>1. LoadPage(view, FALSE, BagAdd(jobs, CountJob), lapses)
      BY <1>2, <2>3 DEF ReceiveNote
    <3>2. \A p \in BagToSet(BagAdd(jobs, CountJob)) : p.job = "page" => p \in Jobs
      BY <2>2
    <3>. QED
      BY <1>1, <2>1, <2>2, <3>1, <3>2, Loads DEF TypedNow
  <2>4. CASE ~(m.from # "own" /\ Concerns(m))
    <3>1. /\ jobs' = BagAdd(jobs, CountJob) /\ UNCHANGED pager
          /\ lapses' = Missed(lapses.missed \/ (m.from # "own" /\ Overlap(m.node, view.node)))
      BY <1>2, <2>4 DEF ReceiveNote
    <3>2. cache' = cache
      <4>1. m.from # "own" => m.node # Everywhere
        BY <2>4 DEF Concerns
      <4>. QED
        BY <1>2, <4>1 DEF ReceiveNote
    <3>3. ASSUME NEW so \in BOOLEAN, lapses' = Missed(so)
          PROVE  lapses'.writes = lapses.writes /\ lapses'.based = lapses.based /\ ~so
      BY <1>1, <3>3 DEF Missed, TypedNow, LapsesType
    <3>4. (lapses.missed \/ (m.from # "own" /\ Overlap(m.node, view.node))) \in BOOLEAN
      BY <1>1 DEF TypedNow, LapsesType
    <3>5. /\ lapses'.writes = lapses.writes /\ lapses'.based = lapses.based
          /\ ~lapses.missed /\ ~(m.from # "own" /\ Overlap(m.node, view.node))
      BY <3>1, <3>3, <3>4
    <3>6. ~Tells(m)
      BY <2>4, <3>5 DEF Tells
    <3>7. BagToSet(notes) \ {m} \subseteq BagToSet(notes')
      BY <1>1, <2>1, Taken DEF TypedNow, NotesTyped
    <3>8. Pending => Pending'
      BY <2>1, <2>2, <3>1, <3>6, <3>7, PendingStays
    <3>9. SameTracked(jobs, jobs')
      BY <1>1, <2>2, <3>1, TrackedAdded DEF TypedNow
    <3>. QED
      BY <1>1, <2>1, <3>1, <3>2, <3>5, <3>8, <3>9, TablesSame, NothingNew DEF Sound
  <2>. QED
    BY <2>3, <2>4
\* The jobs stay as they are.
<1>3. ASSUME Accounted, UNCHANGED <<jobs, view, pager>>, Pending' PROVE Accounted'
  BY <1>3, PagesSame DEF Accounted, pager, SameTracked
<1>4. ASSUME NEW a \in Articles, SchedulerFetches(a) PROVE Accounted'
  <2>1. /\ Arrives({a}, "scheduler", FeedOf(a), lapses.missed) /\ UNCHANGED <<jobs, view, pager>>
    BY <1>4 DEF SchedulerFetches, pane
  <2>2. Accounted
    <3>1. lapses'.missed = lapses.missed
      BY <1>1, <2>1 DEF Arrives, TypedNow, LapsesType
    <3>. QED
      BY <3>1 DEF Sound
  <2>3. Tells(Note(FeedOf(a), "scheduler"))
    BY DEF Tells, Note, Concerns
  <2>4. Notify({FeedOf(a)}, "scheduler") /\ {FeedOf(a)} \subseteq Nodes \cup {Everywhere}
    BY <2>1, FeedsAre DEF Arrives
  <2>5. Pending'
    BY <1>1, <2>1, <2>3, <2>4, Notified
  <2>. QED
    BY <1>3, <2>1, <2>2, <2>5
<1>5. ASSUME NEW w \in Asked, OtherDeviceWrites(w) PROVE Accounted'
  <2>1. /\ Changes(w) /\ articles' = ArticlesAfter(w) /\ queued' = QueuedAfter(w)
        /\ Notify(Told(w), "other") /\ UNCHANGED <<jobs, view, list, cache, pager>>
    BY <1>5 DEF OtherDeviceWrites, Commits, pane
  <2>2. PICK commits, wrong, silent, so :
          /\ so \in BOOLEAN
          /\ lapses' = [lapses EXCEPT !.commits = commits, !.missed = so, !.wrong = wrong, !.silent = silent]
          /\ so = (lapses.missed \/ Throws(w))
    BY <1>5 DEF OtherDeviceWrites, Commits
  <2>3. ~so /\ lapses'.writes = lapses.writes /\ lapses'.based = lapses.based
    BY <1>1, <2>2 DEF TypedNow, LapsesType
  <2>4. ~Throws(w) /\ Accounted
    BY <2>2, <2>3 DEF Sound
  <2>5. Told(w) \subseteq Nodes \cup {Everywhere}
    BY <1>1, AskedIs, WritesTyped DEF TypedNow
  <2>6. /\ Pending => Pending'
        /\ \A n \in Told(w) : Tells(Note(n, "other")) => Pending'
    BY <1>1, <2>1, <2>5, Notified
  <2>7. CASE \E n \in Told(w) : Tells(Note(n, "other"))
    BY <1>3, <2>1, <2>4, <2>6, <2>7
  <2>8. CASE \A a \in Of(view.node) : SameAt(a, articles, queued, articles', queued')
    <3>1. SameTracked(jobs, jobs')
      BY <2>1 DEF SameTracked
    <3>. QED
      BY <1>1, <2>1, <2>3, <2>4, <2>6, <2>8, <3>1, NothingNew
  <2>. QED
    BY <1>1, <2>1, <2>4, <2>7, <2>8, OthersTell
<1>6. ASSUME NEW j \in Jobs, RequestFails(j) PROVE Accounted'
  BY <1>6, RequestLost DEF Sound, RequestFails
<1>7. ASSUME NEW j \in BagToSet(astray), CommitAstray(j) PROVE Accounted'
  <2>1. UNCHANGED <<jobs, view, pager>>
    BY <1>7 DEF CommitAstray, pane
  <2>2. PICK missed \in BOOLEAN :
          /\ missed <=> lapses.missed \/ ~ReloadAsked
          /\ Commits(j, "own", missed) \/ \E some : Arrives(some, "own", j.feed, missed)
    BY <1>1, <1>7, LateIs
  <2>3. missed => lapses'.missed
    <3>1. CASE Commits(j, "own", missed)
      <4>1. \E commits, wrong, silent :
              lapses' = [lapses EXCEPT !.commits = commits, !.missed = missed \/ Throws(j),
                                       !.wrong = wrong, !.silent = silent]
        BY <3>1 DEF Commits
      <4>. QED
        BY <1>1, <4>1 DEF TypedNow, LapsesType
    <3>2. CASE \E some : Arrives(some, "own", j.feed, missed)
      <4>1. \E commits : lapses' = [lapses EXCEPT !.commits = commits, !.missed = missed]
        BY <3>2 DEF Arrives
      <4>. QED
        BY <1>1, <4>1 DEF TypedNow, LapsesType
    <3>. QED
      BY <2>2, <3>1, <3>2
  <2>4. Accounted /\ ReloadAsked
    BY <1>1, <2>2, <2>3 DEF Sound, TypedNow
  <2>5. PICK p \in Jobs : p.job = "page" /\ p.state = "asked" /\ ~p.append /\ p.view = view
    BY <2>4 DEF ReloadAsked
  <2>6. OnePage' /\ Offsets'
    BY <2>1, <2>4, PagesSame DEF Accounted, pager, SameTracked
  <2>7. \A k \in BagToSet(jobs') : k.job = "page" => k.state # "done"
    BY <2>1, <2>4, <2>5 DEF Accounted, OnePage, Jobs
  <2>8. PagesHold'
    BY <2>7 DEF PagesHold, Fresh, Jobs
  <2>9. Renewing'
    BY <2>1, <2>5 DEF Renewing, Jobs
  <2>. QED
    BY <2>6, <2>8, <2>9 DEF Accounted
<1>8. ASSUME LoseConnection PROVE Accounted'
  <2>1. /\ jobs' = BagAdd(jobs, ConnectJob)
        /\ UNCHANGED <<tables, view, pager, lapses>>
    BY <1>8 DEF LoseConnection, pane
  <2>2. ConnectJob.job = "connect" /\ ConnectJob \in BagToSet(jobs')
    BY <1>1, <2>1, Added DEF ConnectJob, TypedNow
  <2>3. Accounted
    BY <2>1 DEF Sound
  <2>4. OnePage' /\ Offsets'
    BY <1>1, <2>1, <2>2, <2>3, PagesAside DEF Accounted, TypedNow, pager
  <2>5. Pending'
    BY <2>1, <2>2, PendingNow DEF Unsettled
  <2>. QED
    BY <2>4, <2>5 DEF Accounted
<1>. QED
  BY <1>2, <1>4, <1>5, <1>6, <1>7, <1>8

-----------------------------------------------------------------------------
(* Pages and the user's changes                                              *)

\* No step makes a computed page newer, or changes its mind about what was on its way.
LEMMA WritesKnownStays ==
  ASSUME TypedNow, WritesKnown,
         \A e \in BagToSet(jobs') :
           \/ e \in Jobs
           \/ ~(e.job = "page" /\ e.state = "done") /\ (IsOpen(e) => lapses'.writes # lapses.writes),
         \/ lapses'.writes = lapses.writes /\ lapses'.based \in {lapses.based, lapses.writes}
         \/ lapses'.writes = lapses.writes + 1 /\ lapses'.based = lapses.based
  PROVE  WritesKnown'
<1>1. /\ lapses.writes \in Nat /\ lapses.based \in Nat
      /\ \A p \in Jobs : p.job = "page" /\ p.state = "done" => p.writes \in Int
  BY JobKinds DEF TypedNow, LapsesType, JobsTyped, Jobs, PageDone
<1>2. lapses'.based <= lapses'.writes
  BY <1>1 DEF WritesKnown
<1>3. ASSUME NEW p \in BagToSet(jobs'), p.job = "page", p.state = "done"
      PROVE  p.writes <= lapses'.writes /\ (p.writes = lapses'.writes => Open' = {})
  <2>1. p \in Jobs
    BY <1>3
  <2>2. p.writes \in Int /\ p.writes <= lapses.writes /\ (p.writes = lapses.writes => Open = {})
    BY <1>1, <1>3, <2>1 DEF WritesKnown
  <2>3. CASE lapses'.writes = lapses.writes
    <3>1. Open' \subseteq Open
      BY <2>3 DEF Open, Jobs, IsOpen
    <3>. QED
      BY <2>2, <2>3, <3>1
  <2>4. CASE lapses'.writes = lapses.writes + 1
    BY <1>1, <2>2, <2>4
  <2>. QED
    BY <2>3, <2>4
<1>. QED
  BY <1>2, <1>3 DEF WritesKnown, Jobs

\* A load changes nothing that is known of changes, and adds a page to be computed.
LEMMA LoadKeeps ==
  ASSUME NEW rest, IsABag(rest), NEW v, NEW append \in BOOLEAN, NEW history \in LapsesType,
         LoadPage(v, append, rest, history)
  PROVE  /\ lapses'.writes = history.writes /\ lapses'.based = history.based
         /\ \A e \in BagToSet(jobs') :
              e \in BagToSet(rest) \/ (e.job = "page" /\ e.state = "asked")
<1>1. lapses'.writes = history.writes /\ lapses'.based = history.based
  BY DEF LoadPage, LapsesType
<1>2. \A n : PageJob(v, append, n).job = "page" /\ PageJob(v, append, n).state = "asked"
  BY DEF PageJob
<1>3. \/ jobs' = rest
      \/ \E n : jobs' = BagAdd(rest, PageJob(v, append, n))
  BY DEF LoadPage
<1>. QED
  BY <1>1, <1>2, <1>3, Added

LEMMA WritesKnownByUser ==
  ASSUME Typed, WritesKnown, UserActs
  PROVE  WritesKnown'
<1>1. TypedNow
  BY TypedParts
<1>2. ASSUME NEW v, NEW append \in BOOLEAN, LoadPage(v, append, jobs, lapses) PROVE WritesKnown'
  <2>1. /\ lapses'.writes = lapses.writes /\ lapses'.based = lapses.based
        /\ \A e \in BagToSet(jobs') : e \in Jobs \/ (e.job = "page" /\ e.state = "asked")
    BY <1>1, <1>2, LoadKeeps DEF TypedNow, Jobs
  <2>. QED
    BY <1>1, <2>1, WritesKnownStays DEF IsOpen
<1>3. ASSUME NEW w, w.job = "write", jobs' = BagAdd(jobs, w),
             lapses'.writes = lapses.writes + 1, lapses'.based = lapses.based
      PROVE  WritesKnown'
  <2>1. \A e \in BagToSet(jobs') : e \in Jobs \/ e.job = "write"
    BY <1>1, <1>3, Added DEF TypedNow, Jobs
  <2>2. lapses'.writes # lapses.writes
    BY <1>1, <1>3 DEF TypedNow, LapsesType
  <2>. QED
    BY <1>1, <1>3, <2>1, <2>2, WritesKnownStays
<1>4. ASSUME UNCHANGED <<jobs, lapses>> PROVE WritesKnown'
  BY <1>1, <1>4, WritesKnownStays DEF Jobs
<1>5. CASE \/ \E n \in left.nodes : SelectNode(n)
           \/ \E q \in DOMAIN Titles : SearchArticles(q)
           \/ ToggleShowingReadArticles \/ LoadMoreArticles
  <2>1. \E v, append : append \in BOOLEAN /\ LoadPage(v, append, jobs, lapses)
    BY <1>5 DEF SelectNode, SearchArticles, ToggleShowingReadArticles, LoadMoreArticles
  <2>. QED
    BY <1>2, <2>1
<1>6. \A op, r : WriteFor(op, r).job = "write"
  BY DEF WriteFor, WriteJob
<1>7. ASSUME NEW w, w.job = "write", jobs' = BagAdd(jobs, w), lapses' = Wrote(w)
      PROVE  WritesKnown'
  BY <1>1, <1>3, <1>7, WroteTells DEF TypedNow
<1>8. ASSUME NEW i \in DOMAIN list, SelectArticle(i) PROVE WritesKnown'
  <2>1. \/ UNCHANGED <<jobs, lapses>>
        \/ /\ jobs' = BagAdd(jobs, WriteFor("read", list[i]))
           /\ lapses' = Wrote(WriteFor("read", list[i]))
    BY <1>8 DEF SelectArticle
  <2>. QED
    BY <1>4, <1>6, <1>7, <2>1
<1>9. CASE MarkSelectedArticleUnread
  BY <1>6, <1>7, <1>9 DEF MarkSelectedArticleUnread
<1>10. CASE ToggleSelectedArticleQueued
  <2>1. PICK r, op :
          \/ LoadPage(view, FALSE, BagAdd(jobs, WriteFor(op, r)), Wrote(WriteFor(op, r)))
          \/ jobs' = BagAdd(jobs, WriteFor(op, r)) /\ lapses' = Wrote(WriteFor(op, r))
    BY <1>10 DEF ToggleSelectedArticleQueued
  <2>2. PICK w : w = WriteFor(op, r)
    OBVIOUS
  <2>3. w.job = "write"
    BY <1>6, <2>2
  <2>4. CASE LoadPage(view, FALSE, BagAdd(jobs, w), Wrote(w))
    <3>1. /\ IsABag(BagAdd(jobs, w)) /\ BagToSet(BagAdd(jobs, w)) = Jobs \cup {w}
      BY <1>1, Added DEF TypedNow, Jobs
    <3>2. /\ Wrote(w) \in LapsesType
          /\ Wrote(w).writes = lapses.writes + 1 /\ Wrote(w).based = lapses.based
      BY <1>1, WroteIs, WroteTells DEF TypedNow
    <3>3. /\ lapses'.writes = lapses.writes + 1 /\ lapses'.based = lapses.based
          /\ \A e \in BagToSet(jobs') :
               e \in Jobs \cup {w} \/ (e.job = "page" /\ e.state = "asked")
      BY <2>4, <3>1, <3>2, LoadKeeps
    <3>4. lapses'.writes # lapses.writes
      BY <1>1, <3>3 DEF TypedNow, LapsesType
    <3>. QED
      BY <1>1, <2>3, <3>3, <3>4, WritesKnownStays
  <2>. QED
    BY <1>7, <2>1, <2>2, <2>3, <2>4
<1>11. ASSUME NEW n \in left.nodes, MarkAllArticlesRead(n) PROVE WritesKnown'
  <2>1. PICK w : w = WriteJob("all", n, 0, FALSE)
    OBVIOUS
  <2>2. /\ w.job = "write" /\ jobs' = BagAdd(jobs, w)
        /\ \E so : lapses' = [Wrote(w) EXCEPT !.missed = so]
    BY <1>11, <2>1 DEF MarkAllArticlesRead, WriteJob
  <2>3. Wrote(w) \in LapsesType
    BY <1>1, WroteIs DEF TypedNow
  <2>4. lapses'.writes = Wrote(w).writes /\ lapses'.based = Wrote(w).based
    BY <2>2, <2>3 DEF LapsesType
  <2>. QED
    BY <1>1, <1>3, <2>2, <2>4, WroteTells DEF TypedNow
<1>12. ASSUME NEW f \in Feeds, RefreshFeed(f) PROVE WritesKnown'
  <2>1. jobs' = BagAdd(jobs, RefreshJob(f)) /\ lapses' = lapses /\ RefreshJob(f).job = "refresh"
    BY <1>12 DEF RefreshFeed, RefreshJob
  <2>2. \A e \in BagToSet(jobs') : e \in Jobs \/ e.job = "refresh"
    BY <1>1, <2>1, Added DEF TypedNow, Jobs
  <2>. QED
    BY <1>1, <2>1, <2>2, WritesKnownStays DEF IsOpen
<1>. QED
  BY <1>5, <1>8, <1>9, <1>10, <1>11, <1>12 DEF UserActs

\* Neither a page that was computed nor a request of the user's that is to be
Aside(e) == ~(e.job = "page" /\ e.state = "done") /\ ~IsOpen(e)

LEMMA WritesKnownAside ==
  ASSUME TypedNow, WritesKnown, \A e \in BagToSet(jobs') : e \in Jobs \/ Aside(e),
         lapses'.writes = lapses.writes, lapses'.based = lapses.based
  PROVE  WritesKnown'
BY WritesKnownStays DEF Aside

LEMMA WritesKnownByDevice ==
  ASSUME Typed, WritesKnown, NEW j \in Jobs, DeviceActs(j)
  PROVE  WritesKnown'
<1>1. TypedNow /\ JobType(j)
  BY TypedParts DEF Typed, JobsTyped, Jobs
<1>. DEFINE rest == BagRemove(jobs, j)
<1>2. IsABag(rest) /\ BagToSet(rest) \subseteq Jobs
  BY <1>1, Taken DEF Jobs, TypedNow
<1>3. \A e : IsABag(BagAdd(rest, e)) /\ BagToSet(BagAdd(rest, e)) = BagToSet(rest) \cup {e}
  BY <1>2, Added
<1>4. Aside(CountJob) /\ Aside(ConnectJob) /\ \A v : Aside(ReloadJob(v))
  BY DEF Aside, IsOpen, CountJob, ConnectJob, ReloadJob
<1>5. ASSUME NEW so, lapses' = Missed(so)
      PROVE  lapses'.writes = lapses.writes /\ lapses'.based = lapses.based
  BY <1>1, <1>5 DEF Missed, TypedNow, LapsesType
<1>6. ASSUME NEW some, IsABag(some), \A e \in BagToSet(some) : e \in Jobs \/ Aside(e),
             NEW v, NEW history \in LapsesType, LoadPage(v, FALSE, some, history),
             history.writes = lapses.writes, history.based = lapses.based
      PROVE  WritesKnown'
  <2>1. /\ lapses'.writes = lapses.writes /\ lapses'.based = lapses.based
        /\ \A e \in BagToSet(jobs') : e \in BagToSet(some) \/ (e.job = "page" /\ e.state = "asked")
    BY <1>6, LoadKeeps
  <2>. QED
    BY <1>1, <1>6, <2>1, WritesKnownAside DEF Aside, IsOpen
<1>. HIDE DEF rest
<1>7. CASE UsePage(j)
  <2>1. jobs' = rest
    BY <1>7 DEF UsePage, rest
  <2>2. lapses'.writes = lapses.writes /\ lapses'.based \in {lapses.based, lapses.writes}
    BY <1>1, <1>7 DEF UsePage, TypedNow, LapsesType
  <2>. QED
    BY <1>1, <1>2, <2>1, <2>2, WritesKnownStays
<1>8. CASE PageFailed(j)
  <2>1. jobs' = rest \/ jobs' = BagAdd(rest, ConnectJob)
    BY <1>8 DEF PageFailed, rest
  <2>2. \E stuck : lapses' = [lapses EXCEPT !.missed = TRUE, !.stuck = stuck]
    BY <1>8 DEF PageFailed
  <2>3. lapses'.writes = lapses.writes /\ lapses'.based = lapses.based
    BY <1>1, <2>2 DEF TypedNow, LapsesType
  <2>. QED
    BY <1>1, <1>2, <1>3, <1>4, <2>1, <2>3, WritesKnownAside
<1>9. CASE FinishWrite(j)
  <2>1. \E so : lapses' = Missed(so)
    BY <1>9 DEF FinishWrite
  <2>2. PICK some : /\ some = rest \/ some = BagAdd(rest, CountJob)
                    /\ jobs' = some \/ jobs' = BagAdd(some, ReloadJob(view))
    BY <1>9 DEF FinishWrite, rest
  <2>3. IsABag(some) /\ \A e \in BagToSet(some) : e \in Jobs \/ Aside(e)
    BY <1>2, <1>3, <1>4, <2>2
  <2>4. \A e \in BagToSet(jobs') : e \in Jobs \/ Aside(e)
    BY <1>4, <2>2, <2>3, Added
  <2>. QED
    BY <1>1, <1>5, <2>1, <2>4, WritesKnownAside
<1>10. CASE ReloadByThread(j)
  <2>1. PICK p : /\ p.job = "page" /\ p.state = "asked" /\ jobs' = BagAdd(rest, p)
                 /\ \E so : lapses' = Missed(so)
    <3>1. PageJob(j.view, FALSE, 0).job = "page" /\ PageJob(j.view, FALSE, 0).state = "asked"
      BY DEF PageJob
    <3>. QED
      BY <1>10, <3>1 DEF ReloadByThread, rest
  <2>2. Aside(p)
    BY <2>1 DEF Aside, IsOpen
  <2>. QED
    BY <1>1, <1>2, <1>3, <1>5, <2>1, <2>2, WritesKnownAside
<1>11. CASE FinishRefresh(j)
  <2>1. \/ LoadPage(view, FALSE, BagAdd(rest, CountJob), lapses)
        \/ /\ jobs' = rest \/ jobs' = BagAdd(rest, CountJob)
           /\ \E so : lapses' = Missed(so)
    <3>1. CASE j.state = "failed"
      BY <1>11, <3>1 DEF FinishRefresh, rest
    <3>2. CASE j.state = "done" /\ view.node \in {Root, Queue, j.feed}
      BY <1>11, <3>2 DEF FinishRefresh, rest
    <3>3. CASE j.state = "done" /\ view.node \notin {Root, Queue, j.feed}
      BY <1>11, <3>3 DEF FinishRefresh, rest
    <3>. QED
      BY <1>11, <3>1, <3>2, <3>3 DEF FinishRefresh
  <2>2. IsABag(BagAdd(rest, CountJob)) /\ \A e \in BagToSet(BagAdd(rest, CountJob)) : e \in Jobs \/ Aside(e)
    BY <1>2, <1>3, <1>4
  <2>3. CASE LoadPage(view, FALSE, BagAdd(rest, CountJob), lapses)
    BY <1>1, <1>6, <2>2, <2>3 DEF TypedNow
  <2>4. CASE /\ jobs' = rest \/ jobs' = BagAdd(rest, CountJob)
             /\ \E so : lapses' = Missed(so)
    BY <1>1, <1>2, <1>5, <2>2, <2>4, WritesKnownAside
  <2>. QED
    BY <2>1, <2>3, <2>4
<1>12. /\ Counted(j, lapses).writes = lapses.writes
       /\ Counted(j, lapses).based = lapses.based
  BY <1>1 DEF Counted, TypedNow, LapsesType
<1>13. CASE UseCount(j)
  <2>1. jobs' = rest
    BY <1>13 DEF UseCount, rest
  <2>2. \/ lapses' = Counted(j, lapses)
        \/ lapses' = [lapses EXCEPT !.wrong = TRUE, !.silent = lapses.commits]
    BY <1>13 DEF UseCount
  <2>3. lapses'.writes = lapses.writes /\ lapses'.based = lapses.based
    BY <1>1, <1>12, <2>2 DEF TypedNow, LapsesType
  <2>. QED
    BY <1>1, <1>2, <2>1, <2>3, WritesKnownAside
<1>14. CASE UseConnection(j)
  <2>1. LoadPage(view, FALSE, rest, Counted(j, lapses))
    BY <1>14 DEF UseConnection, rest
  <2>2. Counted(j, lapses) \in LapsesType
    BY <1>1, <1>14, JobKinds, CountedIs DEF UseConnection, TypedNow
  <2>. QED
    BY <1>2, <1>6, <1>12, <2>1, <2>2
<1>. QED
  BY <1>7, <1>8, <1>9, <1>10, <1>11, <1>13, <1>14 DEF DeviceActs

\* Only a page that is computed when nothing is on its way is of the newest change.
LEMMA WritesKnownByServer ==
  ASSUME Typed, WritesKnown, NEW j \in Jobs, ServerActs(j)
  PROVE  WritesKnown'
<1>1. TypedNow /\ JobType(j)
  BY TypedParts DEF Typed, JobsTyped, Jobs
<1>2. ASSUME NEW k, Aside(k), jobs' = BagAdd(BagRemove(jobs, j), k),
             lapses'.writes = lapses.writes, lapses'.based = lapses.based
      PROVE  WritesKnown'
  BY <1>1, <1>2, Replaced, WritesKnownAside DEF TypedNow, Jobs
<1>3. CASE ServePage(j)
  <2>1. PICK p : /\ jobs' = BagAdd(BagRemove(jobs, j), p)
                 /\ p.job = "page"
                 /\ p.writes = IF Open # {} THEN 0 - 1 ELSE lapses.writes
    <3>. DEFINE all  == Listing(j.view)
                last == IF j.offset + Limit < Len(all) THEN j.offset + Limit ELSE Len(all)
                rows == SubSeq(all, j.offset + 1, last)
                behind == \E k \in Jobs : k.job = "write" /\ k.state = "asked"
                p == [job |-> "page", state |-> "done", view |-> j.view, append |-> j.append,
                      rows |-> rows, next |-> j.offset + Len(rows), more |-> last < Len(all),
                      writes |-> IF behind THEN 0 - 1 ELSE lapses.writes]
    <3>1. jobs' = BagAdd(BagRemove(jobs, j), p)
      BY <1>3 DEF ServePage
    <3>2. behind <=> Open # {}
      BY DEF Open, IsOpen
    <3>3. p.job = "page" /\ p.writes = IF behind THEN 0 - 1 ELSE lapses.writes
      OBVIOUS
    <3>. HIDE DEF p, behind
    <3>. QED
      BY <3>1, <3>2, <3>3
  <2>2. lapses' = lapses /\ lapses.writes \in Nat
    BY <1>1, <1>3 DEF ServePage, TypedNow, LapsesType
  <2>3. BagToSet(jobs') \subseteq Jobs \cup {p}
    BY <1>1, <2>1, Replaced DEF TypedNow, Jobs
  <2>4. Open' \subseteq Open
    BY <2>1, <2>3 DEF Open, Jobs, IsOpen
  <2>5. ASSUME NEW q \in BagToSet(jobs'), q.job = "page", q.state = "done"
        PROVE  q.writes <= lapses.writes /\ (q.writes = lapses.writes => Open' = {})
    <3>1. CASE q \in Jobs
      BY <2>4, <2>5, <3>1 DEF WritesKnown
    <3>2. CASE q = p
      BY <2>1, <2>2, <2>4, <3>2
    <3>. QED
      BY <2>3, <3>1, <3>2
  <2>. QED
    BY <2>2, <2>5 DEF WritesKnown, Jobs
<1>4. CASE ServeCount(j) \/ ServeConnection(j)
  <2>1. /\ lapses' = lapses
        /\ \E kind \in {"count", "connect"} : jobs' = BagAdd(BagRemove(jobs, j), Count(kind))
    BY <1>4 DEF ServeCount, ServeConnection
  <2>2. \A kind \in {"count", "connect"} : Aside(Count(kind))
    BY DEF Aside, IsOpen, Count
  <2>. QED
    BY <1>2, <2>1, <2>2
<1>5. CASE ServeWrite(j)
  <2>1. j \in Writing
    BY <1>1, <1>5, JobKinds DEF ServeWrite, Serving
  <2>2. PICK s \in {"failed", "done"} : jobs' = BagAdd(BagRemove(jobs, j), [j EXCEPT !.state = s])
    BY <1>5 DEF ServeWrite
  <2>3. Aside([j EXCEPT !.state = s])
    BY <2>1 DEF Aside, IsOpen, Writing
  <2>4. \E n, wrong : lapses' = [lapses EXCEPT !.commits = n, !.wrong = wrong]
    BY <1>5 DEF ServeWrite
  <2>5. lapses'.writes = lapses.writes /\ lapses'.based = lapses.based
    BY <1>1, <2>4 DEF TypedNow, LapsesType
  <2>. QED
    BY <1>2, <2>2, <2>3, <2>5
<1>6. CASE ServeRefresh(j)
  <2>1. j \in Refreshing
    BY <1>1, <1>6, JobKinds DEF ServeRefresh, Serving
  <2>2. jobs' = BagAdd(BagRemove(jobs, j), [j EXCEPT !.state = "done"])
    BY <1>6 DEF ServeRefresh
  <2>3. Aside([j EXCEPT !.state = "done"])
    BY <2>1 DEF Aside, IsOpen, Refreshing
  <2>4. \E n : lapses' = [lapses EXCEPT !.commits = n, !.missed = lapses.missed]
    BY <1>6 DEF ServeRefresh, Arrives
  <2>5. lapses'.writes = lapses.writes /\ lapses'.based = lapses.based
    BY <1>1, <2>4 DEF TypedNow, LapsesType
  <2>. QED
    BY <1>2, <2>2, <2>3, <2>5
<1>. QED
  BY <1>3, <1>4, <1>5, <1>6 DEF ServerActs

LEMMA WritesKnownByOthers ==
  ASSUME Typed, WritesKnown,
         \/ \E m \in BagToSet(notes) : ReceiveNote(m)
         \/ \E a \in Articles : SchedulerFetches(a)
         \/ \E w \in Asked : OtherDeviceWrites(w)
         \/ \E j \in Jobs : RequestFails(j)
         \/ \E j \in BagToSet(astray) : CommitAstray(j)
         \/ LoseConnection
  PROVE  WritesKnown'
<1>1. TypedNow
  BY TypedParts
<1>2. Aside(CountJob) /\ Aside(ConnectJob)
  BY DEF Aside, IsOpen, CountJob, ConnectJob
<1>3. ASSUME NEW m \in BagToSet(notes), ReceiveNote(m) PROVE WritesKnown'
  <2>1. \/ LoadPage(view, FALSE, BagAdd(jobs, CountJob), lapses)
        \/ jobs' = BagAdd(jobs, CountJob) /\ \E so : lapses' = Missed(so)
    BY <1>3 DEF ReceiveNote
  <2>2. IsABag(BagAdd(jobs, CountJob)) /\ BagToSet(BagAdd(jobs, CountJob)) = Jobs \cup {CountJob}
    BY <1>1, Added DEF TypedNow, Jobs
  <2>3. CASE LoadPage(view, FALSE, BagAdd(jobs, CountJob), lapses)
    <3>1. /\ lapses'.writes = lapses.writes /\ lapses'.based = lapses.based
          /\ \A e \in BagToSet(jobs') :
               e \in Jobs \cup {CountJob} \/ (e.job = "page" /\ e.state = "asked")
      BY <1>1, <2>2, <2>3, LoadKeeps DEF TypedNow
    <3>. QED
      BY <1>1, <1>2, <3>1, WritesKnownAside DEF Aside, IsOpen
  <2>4. CASE jobs' = BagAdd(jobs, CountJob) /\ \E so : lapses' = Missed(so)
    <3>1. lapses'.writes = lapses.writes /\ lapses'.based = lapses.based
      BY <1>1, <2>4 DEF Missed, TypedNow, LapsesType
    <3>. QED
      BY <1>1, <1>2, <2>2, <2>4, <3>1, WritesKnownAside
  <2>. QED
    BY <2>1, <2>3, <2>4
<1>4. ASSUME jobs' = jobs,
             lapses'.writes = lapses.writes, lapses'.based = lapses.based
      PROVE  WritesKnown'
  BY <1>1, <1>4, WritesKnownAside DEF Jobs
<1>5. ASSUME NEW a \in Articles, SchedulerFetches(a) PROVE WritesKnown'
  <2>1. jobs' = jobs /\ \E n : lapses' = [lapses EXCEPT !.commits = n, !.missed = lapses.missed]
    BY <1>5 DEF SchedulerFetches, Arrives
  <2>2. lapses'.writes = lapses.writes /\ lapses'.based = lapses.based
    BY <1>1, <2>1 DEF TypedNow, LapsesType
  <2>. QED
    BY <1>4, <2>1, <2>2
<1>6. ASSUME \/ \E w \in Asked : OtherDeviceWrites(w)
             \/ \E j \in BagToSet(astray) : CommitAstray(j)
      PROVE  WritesKnown'
  <2>1. jobs' = jobs
    BY <1>6 DEF OtherDeviceWrites, CommitAstray
  <2>2. \/ \E w, from, missed : Commits(w, from, missed)
        \/ \E some, from, f, missed : Arrives(some, from, f, missed)
    BY <1>6 DEF OtherDeviceWrites, CommitAstray
  <2>3. ASSUME NEW w, NEW from, NEW missed, Commits(w, from, missed)
        PROVE  lapses'.writes = lapses.writes /\ lapses'.based = lapses.based
    BY <1>1, <2>3 DEF Commits, TypedNow, LapsesType
  <2>4. ASSUME NEW some, NEW from, NEW f, NEW missed, Arrives(some, from, f, missed)
        PROVE  lapses'.writes = lapses.writes /\ lapses'.based = lapses.based
    BY <1>1, <2>4 DEF Arrives, TypedNow, LapsesType
  <2>. QED
    BY <1>4, <2>1, <2>2, <2>3, <2>4
<1>7. ASSUME NEW j \in Jobs, RequestFails(j) PROVE WritesKnown'
  <2>1. PICK k : /\ jobs' = BagAdd(BagRemove(jobs, j), k)
                 /\ k = CASE j.job = "page"  -> [job |-> "page", state |-> "failed",
                                                 view |-> j.view, append |-> j.append]
                          [] j.job = "count" -> [job |-> "count", state |-> "failed"]
                          [] OTHER           -> [j EXCEPT !.state = "failed"]
    BY <1>7 DEF RequestFails
  <2>2. /\ lapses' = lapses /\ j.job \in {"page", "count", "write", "refresh"}
    BY <1>7 DEF RequestFails
  <2>3. k.state = "failed"
    <3>1. CASE j.job \in {"page", "count"}
      BY <2>1, <3>1
    <3>2. CASE j.job \in {"write", "refresh"}
      <4>1. k = [j EXCEPT !.state = "failed"] /\ (j \in Writing \/ j \in Refreshing)
        BY <1>1, <2>1, <3>2, JobKinds DEF TypedNow, JobsTyped, Jobs
      <4>. QED
        BY <4>1 DEF Writing, Refreshing
    <3>. QED
      BY <2>2, <3>1, <3>2
  <2>4. Aside(k)
    BY <2>3 DEF Aside, IsOpen
  <2>. QED
    BY <1>1, <2>1, <2>2, <2>4, Replaced, WritesKnownAside DEF TypedNow, Jobs
<1>8. ASSUME LoseConnection PROVE WritesKnown'
  BY <1>1, <1>2, <1>8, Added, WritesKnownAside DEF LoseConnection, TypedNow, Jobs
<1>. QED
  BY <1>3, <1>5, <1>6, <1>7, <1>8

-----------------------------------------------------------------------------
(* The list, from first to last                                              *)

\* The first page is on its way.
LEMMA ListSoundAtFirst ==
  ASSUME Init
  PROVE  ListSound
<1>1. PICK p : p = PageJob(view, FALSE, 0)
  OBVIOUS
<1>2. p.job = "page" /\ p.state = "asked" /\ p.append = FALSE /\ p.offset = 0 /\ p.view = view
  BY <1>1 DEF PageJob
<1>3. jobs = SetToBag({p}) /\ loading = TRUE /\ lapses = NoLapses
  BY <1>1 DEF Init
<1>4. Jobs = {p}
  BY <1>3, Emptied DEF Jobs
<1>5. Once(jobs, p)
  BY <1>3, <1>4 DEF Once, Jobs, SetToBag
<1>6. WritesKnown
  BY <1>2, <1>3, <1>4 DEF WritesKnown, NoLapses
<1>7. OnePage /\ Offsets /\ PagesHold /\ Renewing
  BY <1>2, <1>3, <1>4, <1>5 DEF OnePage, Offsets, PagesHold, Fresh, Renewing
<1>. QED
  BY <1>6, <1>7 DEF ListSound, Accounted

LEMMA ListSoundKept ==
  ASSUME Typed, AstrayTyped, ListSound, [Next]_vars
  PROVE  ListSound'
<1>1. WritesKnown /\ Sound
  BY DEF ListSound, Sound
<1>2. CASE Next
  <2>1. ~broken
    BY <1>2 DEF Next
  <2>2. \/ UserActs
        \/ \E j \in Jobs : DeviceActs(j)
        \/ \E j \in Jobs : ServerActs(j)
        \/ \/ \E m \in BagToSet(notes) : ReceiveNote(m)
           \/ \E a \in Articles : SchedulerFetches(a)
           \/ \E w \in Asked : OtherDeviceWrites(w)
           \/ \E j \in Jobs : RequestFails(j)
           \/ \E j \in BagToSet(astray) : CommitAstray(j)
           \/ LoseConnection
    BY <1>2 DEF Next
  <2>3. WritesKnown'
    BY <1>1, <2>2, WritesKnownByUser, WritesKnownByDevice, WritesKnownByServer, WritesKnownByOthers
  <2>4. Sound'
    BY <1>1, <2>1, <2>2, SoundByUser, SoundByDevice, SoundByServer, SoundByOthers
  <2>. QED
    BY <2>3, <2>4 DEF ListSound, Sound
<1>3. CASE UNCHANGED vars
  <2>1. TypedNow
    BY TypedParts
  <2>2. /\ UNCHANGED <<tables, notes, view, list, cache, pager>>
        /\ jobs' = jobs /\ lapses' = lapses /\ broken' = broken
    BY <1>3 DEF vars, pane
  <2>3. WritesKnown'
    BY <1>1, <2>1, <2>2, WritesKnownAside DEF Jobs
  <2>4. SameTracked(jobs, jobs') /\ (Pending => Pending')
    BY <2>2, PendingStays DEF SameTracked, Jobs
  <2>5. Sound'
    BY <1>1, <2>1, <2>2, <2>4, TablesSame, NothingNew DEF Sound
  <2>. QED
    BY <2>3, <2>5 DEF ListSound, Sound
<1>. QED
  BY <1>2, <1>3

\* With nothing on its way the list is the server's.
LEMMA ListSettles ==
  ASSUME Typed, ListSound
  PROVE  ListAgreesUnlessMissed
<1>. SUFFICES ASSUME Quiet, ~lapses.missed, ~broken
              PROVE  /\ \A i \in DOMAIN list :
                          Id(list[i]) \in Ids(CachedWith(<<>>)) =>
                            \A r \in Rows(view.node) : Id(r) = Id(list[i]) => r = list[i]
                     /\ more \/ \A r \in Listed(view) : Id(r) \in Ids(list)
  BY DEF ListAgreesUnlessMissed
<1>1. TypedNow
  BY TypedParts
<1>2. Jobs = {} /\ BagToSet(notes) = {}
  BY Emptied DEF Quiet
<1>3. ListTrue /\ Open = {}
  BY <1>2 DEF ListSound, Accounted, Pending, Renewing, Open
<1>4. ASSUME NEW i \in DOMAIN list, Id(list[i]) \in Ids(CachedWith(<<>>)),
             NEW r \in Rows(view.node), Id(r) = Id(list[i])
      PROVE  r = list[i]
  <2>1. PICK s : s = list[i]
    OBVIOUS
  <2>2. s \in Row /\ s.article = r.article /\ s.copy = r.copy
    BY <1>1, <1>4, <2>1, CachedRows DEF TypedNow, Id
  <2>3. Shows(view.node, articles, queued, s)
    <3>1. Foreseen(s)
      BY <1>3, <1>4, <2>1 DEF ListTrue
    <3>. QED
      BY <1>3, <3>1 DEF Foreseen
  <2>4. Shows(view.node, articles, queued, r)
    BY RowsShown
  <2>5. CASE view.node = Queue
    <3>1. PICK a \in DOMAIN queued :
            r = [article |-> a, copy |-> TRUE, read |-> queued[a], queued |-> TRUE]
      BY <1>4, <2>5 DEF Rows
    <3>2. s.article = a /\ s.copy = TRUE /\ s.read = queued[a] /\ s.queued = TRUE
      BY <2>2, <2>3, <2>5, <3>1 DEF Shows, Row
    <3>. QED
      BY <2>1, <2>2, <3>1, <3>2 DEF Row
  <2>6. CASE view.node # Queue
    <3>1. PICK a \in DOMAIN articles :
            r = [article |-> a, copy |-> FALSE, read |-> articles[a], queued |-> a \in DOMAIN queued]
      BY <1>4, <2>6 DEF Rows
    <3>2. /\ s.article = a /\ s.copy = FALSE /\ s.read = articles[a]
          /\ s.queued <=> a \in DOMAIN queued
      BY <2>2, <2>3, <2>6, <3>1 DEF Shows
    <3>3. s.queued = (a \in DOMAIN queued)
      <4>1. s.queued \in BOOLEAN
        BY <2>2 DEF Row
      <4>2. CASE a \in DOMAIN queued
        BY <3>2, <4>1, <4>2
      <4>3. CASE a \notin DOMAIN queued
        BY <3>2, <4>1, <4>3
      <4>. QED
        BY <4>2, <4>3
    <3>. QED
      BY <2>1, <2>2, <3>1, <3>2, <3>3 DEF Row
  <2>. QED
    BY <2>5, <2>6
<1>5. more \/ \A r \in Listed(view) : Id(r) \in Ids(list)
  BY <1>1, <1>3, HasListed DEF ListTrue, TypedNow
<1>. QED
  BY <1>4, <1>5

\* When nothing is on its way any more, the list on show has the flags that its
\* articles have at the server, and lacks none that is not still to be paged in:
\* what a change leaves behind is a job, a page or a notification that has the
\* list loaded again, or the list had it before the server did.
THEOREM ListAgrees == Spec => []ListAgreesUnlessMissed
<1>1. Init => ListSound
  BY ListSoundAtFirst
<1>2. Typed /\ AstrayTyped /\ ListSound /\ [Next]_vars => ListSound'
  BY ListSoundKept
<1>3. Typed /\ ListSound => ListAgreesUnlessMissed
  BY ListSettles
<1>. QED
  BY <1>1, <1>2, <1>3, AlwaysTyped, PTL DEF Spec

=============================================================================
