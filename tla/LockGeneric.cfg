\* Generic lock (ds_conf.lock_type = 1, the default): two reader groups and
\* two writer groups, two lock/unlock cycles each.  A get the lock cannot
\* grant waits on the wait list until a release notifies it.
CONSTANTS
  r1 = r1
  r2 = r2
  w1 = w1
  w2 = w2
  Readers <- MCReaders
  Writers <- MCWritersTwo
  LockType = "generic"
  MaxReaders = 1
  MaxRounds = 2
SPECIFICATION Spec
INVARIANT TypeOK
PROPERTY LockRefinesRWLock LockEventuallyGranted
