CONSTANTS
  a = a
  b = b
  p1 = p1
  p2 = p2
  fine = fine
  foul = foul
  Nodes = {a, b}
  Foreign = {b}
  Strict = {a}
  Procs = {p1, p2}
  Home <- MCTogether
  Keys = {"k"}
  Values = {fine, foul}
  Banned = {foul}
  Before <- MCBefore
  Sources = {"notes"}
  MaxCalls = 3
  MaxPuts = 1
  MaxEdits = 1
SPECIFICATION Spec
INVARIANTS TypeOK TrustEarned PeersSurvive SyncAdopts
SYMMETRY MCSymmetry
CHECK_DEADLOCK FALSE
