SPECIFICATION Spec
CONSTANTS
  news = news
  guides = guides
  landing = landing
  root = root
  docs = docs
  Request = {r1, r2, r3}
  Process = {p1, p2}
  Original = {e1}
  Place <- Slugs
  Collection <- Collections
  Folder <- Folders
  Slug <- SlugNames
  Index = "index"
  Parent <- Parents
  Name <- Names
  Path <- Paths
  Rank <- Ranks
  None = None
  MaxTries = 2
  MaxTroubles = 1
INVARIANTS
  TypeOK
  SavesStand
  OneFilePerUrl
PROPERTIES
  ImplementsEntryStore
SYMMETRY Exchange
CONSTRAINT Exclusive
