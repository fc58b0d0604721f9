SPECIFICATION ThreadSafeSpec
CONSTANT Threads = {t1, t2}
INVARIANT JoinReaps
