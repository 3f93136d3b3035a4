CONSTANTS
  p1 = p1
  p2 = p2
  s1 = s1
  s2 = s2
  k1 = k1
  k2 = k2
  k3 = k3
  h1 = h1
  h2 = h2
  NoContent = NoContent
  NoHash = NoHash
  Hashes = {h1, h2}
  HashOf <- SomeCollide
  Procs = {p1, p2}
  Slugs = {s1, s2}
  Contents = {k1, k2, k3}
  Mentions <- SomeMentions
  HasFact = {k1}
  WIKI_MAX_AUTO = 2
  MaxWrites = 3
  MaxCrashes = 1
SPECIFICATION Spec
SYMMETRY ProcSymmetry
INVARIANTS TypeOK OneArticlePerSlug StoreIsLatest AutoLinksMatchReference
PROPERTIES UnchangedIsStored LoneUpsertHeals
