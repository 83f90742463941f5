\* Epoch semaphore: a cohort of two reader groups (max_readers = 2) and the
\* single writer group the strategy is built for, three rounds each.
CONSTANTS
  r1 = r1
  r2 = r2
  w1 = w1
  w2 = w2
  Readers <- MCReaders
  Writers <- MCWritersOne
  LockType = "custom"
  MaxReaders = 2
  MaxRounds = 3
SPECIFICATION CohortSpec
INVARIANT TypeOK RWExclusion NoStrandedWaiter AlternatingRounds
PROPERTY LockEventuallyGranted
