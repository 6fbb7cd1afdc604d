\* The same log: is every entry inside it?
SPECIFICATION Spec
CONSTANTS
  Worker = {w1}
  KEYS = 3
  Asked = {0, 1, 2}
  Tag <- CollidingThree
  Bkt <- OneBucket
  SLOTS = 2
  LOG_CAP = 8
  NEAR_END = 4
  MAX_BATCH = 2
  MAX_PUTS = 4
INVARIANT EntriesInsideLog
