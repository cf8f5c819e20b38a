SPECIFICATION Spec
CONSTANTS
 question1 = question1
 request2 = request2
 Requests <- MCRequests
 Asks = {question1}
 Handlers = {h1,h2}
 MaxStarts = 2
 MaxTries <- MCMaxTries
 Repairs <- MCRepairs
 RetryCost <- EqualCost
 Budget = 3
SYMMETRY Sym
INVARIANTS SpendCoversBilled WithinBudget ExecutedOnce SuccessHasOneOutput
CHECK_DEADLOCK FALSE
