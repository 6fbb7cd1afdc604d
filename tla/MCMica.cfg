\* Two workers, four keys for two slots, and a log that wraps once the store is filled.
SPECIFICATION Spec
CONSTANTS
  Worker = {w1, w2}
  KEYS = 4
  Asked = {0, 1, 2}
  Tag <- CollidingFour
  Bkt <- OneBucket
  SLOTS = 2
  LOG_CAP = 16
  NEAR_END = 4
  MAX_BATCH = 2
  MAX_PUTS = 2
INVARIANTS TypeOK TagsUnique  FoundEntriesWhole
SYMMETRY Symmetry
