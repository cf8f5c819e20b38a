SPECIFICATION FairSpec
CONSTANTS
 MaxAttempts = 3
 Workers = {w1,w2}
 NoWorker = NoWorker
 OtherSweep = OtherSweep
 Faults = {"loss","crash","dead","duplicate","ambiguous","database","contention","crossed","stall","timelimit"}
INVARIANTS OneSweepAtATime
PROPERTIES SupersededAttemptIsHarmless ImplementsLifecycle SettledUnlessStuck
CHECK_DEADLOCK FALSE
