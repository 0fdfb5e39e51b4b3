\* Three threads; valid constructor arguments, with and without a maximum;
\* pthread_mutex_init and pthread_cond_init each succeeding or failing.
CONSTANTS
  t1 = t1
  t2 = t2
  t3 = t3
  Thread <- MCThread
  InitialCounts = {0, 1}
  MaxCounts = {0, 1, 2}
  Garbage <- MCGarbage
  CountBound = 2
  MutexInits = {TRUE, FALSE}
  CondInits = {TRUE, FALSE}
  NoThread = NoThread
SPECIFICATION Spec
INVARIANT CountInRange
PROPERTY ImplementsSemaphore
PROPERTY TokensConserved
PROPERTY WaiterProgress
