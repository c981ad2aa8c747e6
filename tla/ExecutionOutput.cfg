\* Budgets from too small for an envelope to more than any execution needs.
CONSTANTS
    Lines <- MCLines
    MaxLines = 3
    MaxConsole = 4
    MaxParts = 2
    Maxima = {4, 5, 6, 8, 10, 13, 20}
    MaxDiagnostic = 2
    Values = {1, 4, 12}
    Diagnostics = {1, 3}
    Traces = {0, 2}
SPECIFICATION OutputSpec
INVARIANTS
    ConsoleWithinBudget
    ResultFits
    NothingLostSilently
    StreamsArePrefixes
CHECK_DEADLOCK FALSE
