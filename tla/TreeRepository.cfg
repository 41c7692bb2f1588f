CONSTANTS
  Nodes = {n1, n2, n3, n4}
  Users = {u1, u2}
  Root = root
SPECIFICATION FairSpec
INVARIANTS TypeOK Acyclic ParentsAreFolders QueryExact
PROPERTIES OnlyDeletionDetaches ImplementsForest EveryCallReturns
