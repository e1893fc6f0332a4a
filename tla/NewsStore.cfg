CONSTANTS
  URLs = {"u1", "u2"}
  NewsIDs = {"n1", "n2"}
  Statuses = {"pending", "selected"}
  None = None
  Clients = {c1, c2}
  FirstFiles <- MCFirstFiles
  Asked <- MCAsked
SPECIFICATION StoreSpec
INVARIANTS
  FileIsWhole
  URLsAreUnique
PROPERTIES
  ImplementsAtomicNews
