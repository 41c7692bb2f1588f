----------------------- MODULE MCFeedRefreshScheduler -----------------------
(* Small instances of FeedRefreshScheduler for TLC.                          *)
EXTENDS FeedRefreshScheduler, TLC

CONSTANTS f1, f2, u1, u2, s1, s2, w1, w2

\* One user with two feeds, or with one; and one whose feed is scheduled beside
\* those of another.
OneOwner  == f1 :> u1 @@ f2 :> u1
SoleOwner == f1 :> u1
TwoOwners == f1 :> u1 @@ f2 :> u2

\* The first user has one device connected, or two.
OneSession  == s1 :> u1
TwoSessions == s1 :> u1 @@ s2 :> u1

\* Worker threads are interchangeable, and so are the sessions of one user.
Interchangeable == {p @@ q : p \in Permutations({w1, w2}), q \in Permutations({s1, s2})}
=============================================================================
