------------------------------ MODULE MCAccounts ------------------------------
(* Instances of Accounts for TLC.                                            *)
EXTENDS Accounts, TLC

\* One client that asks twice, with two faults; or two that ask once, with none.
Few ==
  {b \in [asks : [Clients -> 0..2], faults : 0..2] :
     LET once  == {c \in Clients : b.asks[c] = 1}
         twice == {c \in Clients : b.asks[c] = 2}
     IN <<Cardinality(once), Cardinality(twice), b.faults>> \in {<<0, 1, 2>>, <<2, 0, 0>>}}

Interchangeable == Permutations(Clients) \cup Permutations(Logins) \cup Permutations(Passwords)
=============================================================================
