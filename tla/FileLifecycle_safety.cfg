SPECIFICATION Spec
CONSTANTS
 MaxStarts = 2
 Handlers = {h1,h2}
 Completers = {c1,c2}
 Deleters = {d1}
 Bytes = {good,bad}
 Harmful = {bad}
 Foreign = Foreign
 NoBytes = NoBytes
 Faults = {"crash","raise","outage","overwrite","dead"}
SYMMETRY Sym
INVARIANTS ScheduledOnce TrustedIsClean
PROPERTIES ImplementsDocument
CHECK_DEADLOCK FALSE
