--------------------------- MODULE ArticleListModel ---------------------------
(***************************************************************************)
(* The list of articles in the desktop client                              *)
(* (desktop/src/article_list_model.cpp): how a page that was fetched is     *)
(* merged into the rows on show, one row at a time, so that the views       *)
(* attached to the model keep their place, and where the selection goes.    *)
(*                                                                         *)
(* A row is an article or the queue's copy of one, with its flags. Rows    *)
(* are numbered from 1, and 0 is no row.                                    *)
(***************************************************************************)
EXTENDS Integers, Sequences, SequencesExt

CONSTANTS
  Articles,  \* ids; articles of the same date are in the order of their ids
  Published  \* published_at of each article; 0 for none

ASSUME ListAssumption ==
  /\ Articles \subseteq Nat /\ IsFiniteSet(Articles)
  /\ Published \in [Articles -> Nat]

Row == [article : Articles, copy : BOOLEAN, read : BOOLEAN, queued : BOOLEAN]

\* article_id: the copy of an article in the queue has an id of its own.
Id(r)     == <<r.article, r.copy>>
Ids(rows) == {Id(rows[i]) : i \in DOMAIN rows}

\* The first row of an id from a row on, or none.
RowOf(rows, id, from) ==
  LET found == {i \in from..Len(rows) : Id(rows[i]) = id}
  IN IF found = {} THEN 0 ELSE CHOOSE i \in found : \A j \in found : i <= j

Doubled(rows) == \E i, j \in DOMAIN rows : i # j /\ Id(rows[i]) = Id(rows[j])

-----------------------------------------------------------------------------
\* sortNewestFirst: those without a date come last.
Before(r, s) ==
  \/ Published[r.article] > Published[s.article]
  \/ /\ Published[r.article] = Published[s.article]
     /\ r.article < s.article \/ (r.article = s.article /\ ~r.copy /\ s.copy)

\* Stable: a row goes before the first that comes later.
Placed(done, r) ==
  LET later == {i \in DOMAIN done : Before(r, done[i])}
      place == IF later = {} THEN Len(done) + 1
               ELSE CHOOSE i \in later : \A j \in later : i <= j
  IN InsertAt(done, place, r)

Sorted(rows) == FoldLeft(Placed, <<>>, rows)

\* What the list is to become: the page, for setArticles; the list with the rows
\* of the page replaced or added, for appendArticles.
Put(done, r) ==
  LET i == RowOf(done, Id(r), 1)
  IN IF i = 0 THEN Append(done, r) ELSE [done EXCEPT ![i] = r]

Extended(rows, page) == FoldLeft(Put, rows, page)

\* Mutation: the article that is being read goes with the rest.
TargetOfPage(rows, row, page, removing) ==
  Sorted(IF removing THEN page ELSE Extended(rows, page))

Target(rows, row, page, removing) ==
  LET kept == IF removing /\ row # 0 /\ Id(rows[row]) \notin Ids(page)
                THEN <<rows[row]>> ELSE <<>>
  IN Sorted((IF removing THEN page ELSE Extended(rows, page)) \o kept)

-----------------------------------------------------------------------------
(* The steps that turn the rows into the target                              *)

Kept(done, r, target) ==
  IF Id(r) \in Ids(target) THEN Append(done, r) ELSE done

Removed(rows, target) == FoldLeft(LAMBDA done, r : Kept(done, r, target), <<>>, rows)

Filled(done, i, target) ==
  IF Id(target[i]) \in Ids(done) THEN done ELSE InsertAt(done, i, target[i])

Inserted(rows, target) ==
  FoldLeftDomain(LAMBDA done, i : Filled(done, i, target), rows, target)

Moved(done, i, target) ==
  LET from == RowOf(done, Id(target[i]), i)
  IN IF from = 0 THEN done ELSE InsertAt(RemoveAt(done, from), i, done[from])

Reordered(rows, target) ==
  FoldLeftDomain(LAMBDA done, i : Moved(done, i, target), rows, target)

Copied(rows, target) ==
  [i \in DOMAIN rows |->
     IF i \in DOMAIN target /\ Id(rows[i]) = Id(target[i]) THEN target[i] ELSE rows[i]]

\* mergeArticles. A target with an id twice has more rows than the list ever
\* gets, and the last step reads past its end: that is not defined.
Merged(rows, target, removing) ==
  LET kept == IF removing THEN Removed(rows, target) ELSE rows
  IN Copied(Reordered(Inserted(kept, target), target), target)

\* The selection follows its article, else it is the first row.
SelectedAfter(rows, row, merged) ==
  LET i == IF row = 0 THEN 0 ELSE RowOf(merged, Id(rows[row]), 1)
  IN IF i = 0 /\ merged # <<>> THEN 1 ELSE i

\* mark...ByRow and markAllRead
Flag(rows, i, flag, value) ==
  IF flag = "read" THEN [rows EXCEPT ![i].read = value] ELSE [rows EXCEPT ![i].queued = value]

AllRead(rows)     == [i \in DOMAIN rows |-> [rows[i] EXCEPT !.read = TRUE]]
UnreadRows(rows)  == {i \in DOMAIN rows : ~rows[i].read}
=============================================================================
