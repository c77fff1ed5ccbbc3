CONSTANTS
  k1 = k1
  k2 = k2
  a = a
  b = b
  DRAFT = DRAFT
  PUBLISHED = PUBLISHED
  Clients = {c1, c2}
  Keys = {k1, k2}
  Summaries = {a, b}
  Statuses = {DRAFT, PUBLISHED}
  FirstContents <- Drafted
  Sent <- Sendings
  Draft = DRAFT
  Retentions = {0, 1}
  MaxCommits = 2
  MaxAge = 2
  None = None
SPECIFICATION FairSpec
INVARIANTS EntriesTruthful NoOrphanEntries
PROPERTIES EntriesAreKept ChangesGetRecorded
