SPECIFICATION Spec
CONSTANTS
 MaxAttempts = 1
 DispatchIds = {d1,d2,d3,d4,d5,d6,d7}
 NoId = NoId
 Publishers = {p1,p2}
 NoPublisher = NoPublisher
 Slots = {m1}
 Sweepers = {s1,s2}
 Faults = {"dead","loss"}
SYMMETRY Sym
INVARIANTS DeadEventStrandsNoUnclaimedJob
PROPERTIES SupersededClaimIsHarmless
CHECK_DEADLOCK FALSE
