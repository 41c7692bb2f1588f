---------------------------- MODULE MCFeedImport ----------------------------
(* Instances of FeedImport for TLC.                                          *)
EXTENDS FeedImport

CONSTANTS t1, t2, a, b, u, v

At(parent, name) == [parent |-> parent, name |-> name]

\* A folder with a feed, an empty folder, and a feed of its own
Stored == 1 :> At(0, a) @@ 2 :> At(1, u) @@ 3 :> At(0, b)

\* A folder in the folder of that name, a feed that is there, the same twice, and
\* a folder without feeds
Deep   == <<At(0, a), At(1, b), At(2, v), At(1, u), At(1, u)>>
Flat   == <<At(0, u), At(0, b), At(0, b), At(3, v)>>

\* One import after another, of which calls fail
Retries == [tree |-> Stored, files |-> {Deep, Flat}, imports |-> 3, atOnce |-> 1,
            exports |-> 0, faults |-> 2, changes |-> 0]

\* What was exported is imported after the tree has changed
Backup  == [tree |-> Stored, files |-> {Flat}, imports |-> 2, atOnce |-> 1,
            exports |-> 1, faults |-> 1, changes |-> 1]

\* Two imports at once
Double  == [tree |-> Stored, files |-> {Flat}, imports |-> 2, atOnce |-> 2,
            exports |-> 0, faults |-> 1, changes |-> 1]

\* Imports while another device changes the tree
Shared  == [tree |-> Stored, files |-> {Deep}, imports |-> 2, atOnce |-> 1,
            exports |-> 0, faults |-> 0, changes |-> 2]

Few == {Retries, Backup, Double, Shared}

Interchangeable == Permutations(Threads)
=============================================================================
