SPECIFICATION Spec
CONSTANTS
  Host = {h1, h2}
  Nobody = Nobody
  MaxCommits = 3
  MaxFaults = 4
SYMMETRY Processes
INVARIANTS
  NothingLost
  MissingIsMarked
  StartIsUndone
  NeverMixed
