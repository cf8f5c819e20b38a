SPECIFICATION FairSpec
CONSTANTS
 MaxAttempts = 2
 DispatchIds = {d1,d2,d3,d4,d5}
 NoId = NoId
 Publishers = {p1}
 NoPublisher = NoPublisher
 Slots = {m1}
 Sweepers = {s1}
 Faults = {"loss","crash","ambiguous","transient","settlement"}


PROPERTIES EventuallySettled
CHECK_DEADLOCK FALSE
