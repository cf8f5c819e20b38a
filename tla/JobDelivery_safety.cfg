SPECIFICATION Spec
CONSTANTS
 MaxAttempts = 2
 DispatchIds = {d1,d2,d3,d4,d5,d6}
 NoId = NoId
 Publishers = {p1}
 NoPublisher = NoPublisher
 Slots = {m1,m2}
 Sweepers = {s1}
 Faults = {"loss","crash","duplicate","ambiguous","transient","settlement"}
SYMMETRY Sym
INVARIANTS OneHandlerOwns Recoverable
PROPERTIES SupersededDeliveryIsHarmless ImplementsLifecycle
CHECK_DEADLOCK FALSE
