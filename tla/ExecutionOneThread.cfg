\* The shipped child: a current-thread runtime. Four calls, a budget of three,
\* two permits, and as many trace entries as the budget: the refused fourth
\* call overflows the trace.
CONSTANTS
    Calls = {c1, c2, c3, c4}
    MaxCalls = 3
    MaxConcurrent = 2
    MaxTrace = 3
    Workers = 1
SYMMETRY CallSymmetry
SPECIFICATION Spec
INVARIANTS
    TypeOK
    PermitsConserved
    HostCallsWithinBudget
    SuccessIsComplete
    AnsweredCallsTraced
    NoCaptureFailure
PROPERTIES
    ImplementsService
