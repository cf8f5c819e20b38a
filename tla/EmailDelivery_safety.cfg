SPECIFICATION Spec
CONSTANTS
 MaxStarts = 3
 Handlers = {h1,h2}
 Faults = {"crash","raise","finalizer","dead"}
SYMMETRY Sym
INVARIANTS AtMostOneMail
PROPERTIES ImplementsMail
CHECK_DEADLOCK FALSE
