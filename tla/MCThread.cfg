SPECIFICATION ThreadSpec
CONSTANT Threads = {t1, t2, t3}
INVARIANTS
  ThreadInv
  JoinedMeansReturned
PROPERTY JoinReturns
