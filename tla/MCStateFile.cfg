\* Three calls of merge_state and one of check_lock against one file.
SPECIFICATION Spec
CONSTANTS
  Writers = {w1, w2, w3}
  Checkers = {c1}
  NoOne = NoOne
INVARIANTS
  TypeOK
  MutualExclusion
  MergesAreAsReported
PROPERTIES
  WholeAndGrowing
  RefinesAtomicMerges
CHECK_DEADLOCK FALSE
