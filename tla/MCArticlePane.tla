---------------------------- MODULE MCArticlePane ----------------------------
(* Instances of ArticlePane for TLC: a feed below a folder and one beside it. *)
EXTENDS ArticlePane

CONSTANTS f1, f2, dir, q1

Dates    == 1 :> 2 @@ 2 :> 0 @@ 3 :> 2
Contents == f1 :> {1, 2} @@ f2 :> {3} @@ dir :> {1, 2}
Found2   == NoQuery :> Articles @@ q1 :> {1}

Scope(stored, ops, nodes, acts, others, changes, faults) ==
  [stored |-> stored, ops |-> ops, nodes |-> nodes, acts |-> acts, others |-> others,
   changes |-> changes, faults |-> faults]

One == 1 :> FALSE
Two == 1 :> FALSE @@ 2 :> FALSE
All == Two @@ 3 :> FALSE

\* One of them read
Half == 1 :> FALSE @@ 2 :> TRUE

\* What is found here and there needs its own reach: pages that overlap, views
\* that change while pages are on their way, the queue, the order of answers,
\* requests that fail and connections that go.
Bounded ==
  {Scope(Two, {"select", "more", "search"}, {Root, f1}, 3, {"fetch"}, 1, 0),
   Scope(All, {"more"}, {}, 2, {"all"}, 1, 0),
   Scope(One, {"select", "read", "filter"}, {f1, f2}, 3, {"unread"}, 1, 0),
   Scope(Two, {"select", "read", "unread"}, {f1}, 3, {}, 0, 0),
   Scope(Half, {"select", "filter"}, {f1}, 2, {"unread"}, 1, 0),
   Scope(Half, {"filter"}, {}, 2, {"read"}, 1, 1),
   Scope(Two, {"read", "all"}, {f1, Root}, 2, {"all"}, 1, 0),
   Scope(One, {"select", "queue", "read"}, {Queue}, 3, {}, 0, 0),
   Scope(One, {"select", "queue"}, {Queue}, 1, {"queue", "unqueue"}, 1, 0),
   Scope(One, {"select", "all"}, {Queue}, 2, {"queue"}, 1, 0),
   Scope(One, {"select", "refresh"}, {f1, dir}, 1, {}, 0, 1),
   Scope(One, {"select", "refresh"}, {f1, dir}, 2, {}, 0, 0),
   Scope(One, {"refresh"}, {f1}, 1, {"fetch"}, 1, 1),
   Scope(One, {"read", "unread"}, {}, 1, {"unread"}, 1, 1),
   Scope(Two, {"select", "read"}, {f1}, 1, {"unread"}, 1, 1),
   Scope(Two, {"more"}, {}, 1, {"fetch"}, 1, 2),
   Scope(Two, {"read"}, {}, 1, {}, 0, 2)}
=============================================================================
